----------------------------- MODULE FilesPane -----------------------------
(***************************************************************************)
(* The Files section of the terminal console: the object browser, the      *)
(* inspector of one object's copies, the prompts and confirmations that    *)
(* arm its actions, and the one transfer it follows.  Every request runs   *)
(* off the main loop and comes back as a message, so answers arrive in any *)
(* order, after the operator has moved on, and some are errors; the model  *)
(* is the single state the loop's handlers share.                          *)
(*                                                                         *)
(* A key is a pair <<prefix, name>>, a prefix the pair <<prefix, "">>.     *)
(* The cursor may be on any loaded row, so a key press picks a row.        *)
(* Sorting, wording and layout are left out.                               *)
(***************************************************************************)
EXTENDS Naturals, Sequences, FiniteSets

CONSTANTS
    Pages,      \* per prefix: its listing, a sequence of pages of rows [name, dir]
    Uploads,    \* whether the operator starts uploads
    Tags,       \* whether the operator works with tags and scrubs
    Failures,   \* whether requests may fail
    MaxWire     \* bound: requests in flight at once

VARIABLES
    prefix,     \* the prefix listed
    rows,       \* its loaded rows, with the prefix each was listed under
    loading,    \* a page-replacing load is in flight
    next,       \* the page a load-more would fetch, 0 when there is none
    more,       \* a load-more is in flight
    filter,     \* the filter box: "off", "typing" (it captures keys), "applied"
    mode,       \* "browse" or "inspect"
    insp,       \* the inspector
    prompt,     \* the armed input prompt, if any
    confirm,    \* the action armed behind a y/N question, if any
    transfer,   \* the transfer the pane follows, if any
    work,       \* the transfer goroutines and whether each has finished
    wire        \* the requests whose messages have not arrived

vars == <<prefix, rows, loading, next, more, filter, mode, insp, prompt, confirm, transfer, work, wire>>

NoAt == <<"-", "-">>
Nothing == [kind |-> "none", at |-> NoAt]
Ask(kind, at) == [kind |-> kind, at |-> at]
Req(kind, at) == [kind |-> kind, at |-> at, page |-> 0]
Dir(p) == <<p, "">>

Closed == [key |-> NoAt, loading |-> FALSE, locations |-> NoAt, tags |-> NoAt, scrubbing |-> FALSE]

\* A load of one page under a prefix; page 1 is the one that replaces the listing.
LoadObjects(p, n) == [kind |-> "page", at |-> Dir(p), page |-> n]

Init ==
    /\ prefix = "" /\ rows = {} /\ next = 0 /\ more = FALSE
    /\ loading = TRUE
    /\ filter = "off" /\ mode = "browse" /\ insp = Closed
    /\ prompt = Nothing /\ confirm = Nothing /\ transfer = Nothing
    /\ work = {}
    /\ wire = {LoadObjects("", 1)}

listing == <<prefix, rows, next>>
pane == <<mode, insp>>
asks == <<prompt, confirm>>
moving == <<transfer, work>>

Send(reqs) == wire' = wire \cup reqs /\ Cardinality(wire \cup reqs) <= MaxWire

(***************************************************************************)
(* Prompts and confirmations: they take the next key before the pane does. *)
(***************************************************************************)

\* startAction: an action with a question waits behind it.
StartAction(kind, at) == confirm' = Ask(kind, at)

\* The goroutine starts, and the pane follows it by ticks.
StartTransfer(kind, at) ==
    /\ transfer' = Ask(kind, at)
    /\ work' = work \cup {[kind |-> kind, at |-> at, done |-> FALSE]}
    /\ Send({Req("tick", NoAt)})

\* Enter with a value builds the action the prompt was armed for.
PromptSubmitted ==
    /\ prompt # Nothing
    /\ prompt' = Nothing
    /\ \/ /\ prompt.kind \in {"download", "tree", "upload"}
          /\ StartTransfer(prompt.kind, prompt.at)
       \/ /\ prompt.kind \in {"uploadFile", "tags"}
          /\ Send({Req(IF prompt.kind = "tags" THEN "saveTags" ELSE "uploadKey", prompt.at)})
          /\ UNCHANGED moving
    /\ UNCHANGED <<listing, loading, more, filter, pane, confirm>>

PromptCancelled ==
    /\ prompt # Nothing
    /\ prompt' = Nothing
    /\ UNCHANGED <<listing, loading, more, filter, pane, confirm, moving, wire>>

\* Any key but y and enter drops the question.
ConfirmRefused ==
    /\ prompt = Nothing /\ confirm # Nothing
    /\ confirm' = Nothing
    /\ UNCHANGED <<listing, loading, more, filter, pane, prompt, moving, wire>>

\* begin runs the action's pane update, then its command goes out.
ConfirmAccepted ==
    /\ prompt = Nothing /\ confirm # Nothing
    /\ confirm' = Nothing
    /\ insp' = [insp EXCEPT !.scrubbing = @ \/ confirm.kind = "scrub"]
    /\ Send({Req(confirm.kind, confirm.at)})
    /\ UNCHANGED <<listing, loading, more, filter, mode, prompt, moving>>

Free == prompt = Nothing /\ confirm = Nothing

(***************************************************************************)
(* The browser's keys.                                                     *)
(***************************************************************************)

Browsing == Free /\ mode = "browse" /\ filter # "typing"

\* The focused filter takes every key: esc clears it, enter keeps it applied.
FilterKey ==
    /\ Free /\ mode = "browse" /\ filter = "typing"
    /\ filter' \in {"off", "applied"}
    /\ UNCHANGED <<listing, loading, more, pane, asks, moving, wire>>

OpenFilter ==
    /\ Browsing
    /\ filter' = "typing"
    /\ UNCHANGED <<listing, loading, more, pane, asks, moving, wire>>

ClearFilter ==
    /\ Browsing /\ filter = "applied"
    /\ filter' = "off"
    /\ UNCHANGED <<listing, loading, more, pane, asks, moving, wire>>

\* A fresh load: descending, ascending, "r".
FreshLoad(p) ==
    /\ loading' = TRUE
    /\ Send({LoadObjects(p, 1)})
    /\ UNCHANGED <<listing, more, filter, pane, asks, moving>>

Descend(r) == Browsing /\ r.dir /\ FreshLoad(r.name)
Ascend == Browsing /\ prefix # "" /\ FreshLoad("")
ReloadKey == Browsing /\ FreshLoad(prefix)

\* The cursor reached the last row of a listing with a page to come.
ReachBottom ==
    /\ Browsing /\ next # 0 /\ ~more
    /\ more' = TRUE
    /\ Send({LoadObjects(prefix, next)})
    /\ UNCHANGED <<listing, loading, filter, pane, asks, moving>>

KeyOf(r) == <<prefix, r.name>>

OpenInspector(r) ==
    /\ Browsing /\ ~r.dir
    /\ mode' = "inspect"
    /\ insp' = [Closed EXCEPT !.key = KeyOf(r), !.loading = TRUE]
    /\ Send({Req("locations", KeyOf(r)), Req("tags", KeyOf(r))})
    /\ UNCHANGED <<listing, loading, more, filter, asks, moving>>

\* One transfer at a time: a key that would start another is refused.
TransferBusy == transfer # Nothing

ArmDownload(r) ==
    /\ Browsing /\ ~TransferBusy
    /\ prompt' = IF r.dir THEN Ask("tree", Dir(r.name)) ELSE Ask("download", KeyOf(r))
    /\ UNCHANGED <<listing, loading, more, filter, pane, confirm, moving, wire>>

ArmUpload ==
    /\ Uploads
    /\ Browsing /\ ~TransferBusy
    /\ prompt' = Ask("uploadFile", NoAt)
    /\ UNCHANGED <<listing, loading, more, filter, pane, confirm, moving, wire>>

\* A directory's keys are counted before the question is asked.
ArmDelete(r) ==
    /\ Browsing
    /\ IF r.dir
       THEN Send({Req("count", Dir(r.name))}) /\ UNCHANGED confirm
       ELSE StartAction("delete", KeyOf(r)) /\ UNCHANGED wire
    /\ UNCHANGED <<listing, loading, more, filter, pane, prompt, moving>>

(***************************************************************************)
(* The inspector's keys.                                                   *)
(***************************************************************************)

Inspecting == Free /\ mode = "inspect"

InspectBack ==
    /\ Inspecting
    /\ mode' = "browse"
    /\ UNCHANGED <<listing, loading, more, filter, insp, asks, moving, wire>>

InspectReload ==
    /\ Inspecting
    /\ insp' = [insp EXCEPT !.loading = TRUE]
    /\ Send({Req("locations", insp.key)})
    /\ UNCHANGED <<listing, loading, more, filter, mode, asks, moving>>

ArmScrubKey ==
    /\ Tags
    /\ Inspecting /\ ~insp.scrubbing
    /\ StartAction("scrub", insp.key)
    /\ UNCHANGED <<listing, loading, more, filter, pane, prompt, moving, wire>>

ArmEditTags ==
    /\ Tags
    /\ Inspecting
    /\ prompt' = Ask("tags", insp.key)
    /\ UNCHANGED <<listing, loading, more, filter, pane, confirm, moving, wire>>

\* Clearing asks, and only where there are tags to clear.
ArmClearTags ==
    /\ Tags
    /\ Inspecting /\ insp.tags # NoAt
    /\ StartAction("clearTags", insp.key)
    /\ UNCHANGED <<listing, loading, more, filter, pane, prompt, moving, wire>>

(***************************************************************************)
(* Messages.                                                               *)
(***************************************************************************)

Arrives(m, kind) == m \in wire /\ m.kind = kind

Rest(m) == wire' = wire \ {m}
RestAnd(m, reqs) == wire' = (wire \ {m}) \cup reqs

PageOf(m) == IF m.page <= Len(Pages[m.at[1]]) THEN Pages[m.at[1]][m.page] ELSE {}
EntriesFromPage(m) == {[name |-> r.name, dir |-> r.dir, from |-> m.at[1]] : r \in PageOf(m)}

\* A continuation appends to the listing on screen, a fresh page replaces it
\* and closes the filter.
ApplyPage(m) ==
    /\ Arrives(m, "page")
    /\ IF m.page = 1
       THEN prefix' = m.at[1] /\ rows' = EntriesFromPage(m) /\ filter' = "off"
       ELSE rows' = rows \cup EntriesFromPage(m) /\ UNCHANGED <<prefix, filter>>
    /\ next' = IF m.page < Len(Pages[m.at[1]]) THEN m.page + 1 ELSE 0
    /\ loading' = FALSE /\ more' = FALSE
    /\ Rest(m)
    /\ UNCHANGED <<pane, asks, moving>>

\* A failed load of either kind: errMsg.
PageFailed(m) ==
    /\ Failures /\ Arrives(m, "page")
    /\ loading' = FALSE
    /\ Rest(m)
    /\ UNCHANGED <<listing, more, filter, pane, asks, moving>>

\* Folded into whichever object the inspector is on.
ApplyLocations(m, ok) ==
    /\ Arrives(m, "locations") /\ (ok \/ Failures)
    /\ insp' = [insp EXCEPT !.loading = FALSE, !.locations = IF ok THEN m.at ELSE @]
    /\ Rest(m)
    /\ UNCHANGED <<listing, loading, more, filter, mode, asks, moving>>

ApplyTags(m, ok) ==
    /\ Arrives(m, "tags") /\ (ok \/ Failures)
    /\ insp' = [insp EXCEPT !.tags = IF ok THEN m.at ELSE NoAt]
    /\ Rest(m)
    /\ UNCHANGED <<listing, loading, more, filter, mode, asks, moving>>

\* The set the server stored is shown only while the inspector is on its key.
TagsSaved(m, ok) ==
    /\ (Arrives(m, "saveTags") \/ Arrives(m, "clearTags")) /\ (ok \/ Failures)
    /\ insp' = IF ok /\ insp.key = m.at
               THEN [insp EXCEPT !.tags = IF m.kind = "saveTags" THEN m.at ELSE NoAt]
               ELSE insp
    /\ Rest(m)
    /\ UNCHANGED <<listing, loading, more, filter, mode, asks, moving>>

\* The verdict is reported and the ledger on screen reloaded.
ApplyScrubKey(m, ok) ==
    /\ Arrives(m, "scrub") /\ (ok \/ Failures)
    /\ insp' = [insp EXCEPT !.scrubbing = FALSE, !.loading = @ \/ ok]
    /\ RestAnd(m, IF ok THEN {Req("locations", insp.key)} ELSE {})
    /\ UNCHANGED <<listing, loading, more, filter, mode, asks, moving>>

\* The count arms the question; a failed or empty count only reports.
ApplyPrefixCounted(m, found) ==
    /\ Arrives(m, "count")
    /\ IF found THEN StartAction("deletePrefix", m.at) ELSE UNCHANGED confirm
    /\ Rest(m)
    /\ UNCHANGED <<listing, loading, more, filter, pane, prompt, moving>>

\* A delete that went through reloads the listing on screen.
ReloadListing(m, ok) ==
    /\ (Arrives(m, "delete") \/ Arrives(m, "deletePrefix")) /\ (ok \/ Failures)
    /\ loading' = (loading \/ ok)
    /\ RestAnd(m, IF ok THEN {LoadObjects(prefix, 1)} ELSE {})
    /\ UNCHANGED <<listing, more, filter, pane, asks, moving>>

\* The key an upload writes: no other request is about it.
NewKey == <<prefix, "new">>

\* The second half of an upload: where the chosen file should land.
AskUploadKey(m) ==
    /\ Arrives(m, "uploadKey")
    /\ prompt' = Ask("upload", NewKey)
    /\ Rest(m)
    /\ UNCHANGED <<listing, loading, more, filter, pane, confirm, moving>>

\* The transfer's goroutine finishes.
Finish(w) ==
    /\ ~w.done
    /\ work' = (work \ {w}) \cup {[w EXCEPT !.done = TRUE]}
    /\ UNCHANGED <<listing, loading, more, filter, pane, asks, transfer, wire>>

IsDone == \E w \in work : w.kind = transfer.kind /\ w.at = transfer.at /\ w.done

\* The ticker lapses when nothing is moving.
OnTransferTick(m) ==
    /\ Arrives(m, "tick")
    /\ RestAnd(m, IF transfer = Nothing THEN {}
                  ELSE IF IsDone THEN {Req("transferDone", transfer.at)}
                  ELSE {m})
    /\ UNCHANGED <<listing, loading, more, filter, pane, asks, moving>>

\* The finished transfer is reported; an upload reloads the listing.
ApplyTransferDone(m, ok) ==
    /\ Arrives(m, "transferDone") /\ (ok \/ Failures)
    /\ transfer' = Nothing
    /\ work' = {w \in work : ~(w.done /\ w.at = m.at)}
    /\ LET reload == ok /\ m.at[2] = "new"
       IN /\ loading' = (loading \/ reload)
          /\ RestAnd(m, IF reload THEN {LoadObjects(prefix, 1)} ELSE {})
    /\ UNCHANGED <<listing, more, filter, pane, asks>>

PromptKey == PromptSubmitted \/ PromptCancelled
ConfirmKey == ConfirmAccepted \/ ConfirmRefused

BrowseKey ==
    \/ FilterKey \/ OpenFilter \/ ClearFilter
    \/ Ascend \/ ReloadKey \/ ReachBottom \/ ArmUpload
    \/ \E r \in rows : Descend(r) \/ OpenInspector(r) \/ ArmDownload(r) \/ ArmDelete(r)

InspectKey == InspectBack \/ InspectReload \/ ArmScrubKey \/ ArmEditTags \/ ArmClearTags

Key == PromptKey \/ ConfirmKey \/ BrowseKey \/ InspectKey

Message(m) ==
    \/ ApplyPage(m) \/ PageFailed(m) \/ AskUploadKey(m) \/ OnTransferTick(m)
    \/ \E ok \in BOOLEAN :
          \/ ApplyLocations(m, ok) \/ ApplyTags(m, ok) \/ TagsSaved(m, ok)
          \/ ApplyScrubKey(m, ok) \/ ApplyPrefixCounted(m, ok)
          \/ ReloadListing(m, ok) \/ ApplyTransferDone(m, ok)

Next == Key \/ (\E m \in wire : Message(m)) \/ (\E w \in work : Finish(w))

Spec == Init /\ [][Next]_vars

(***************************************************************************)
(* Properties.                                                             *)
(***************************************************************************)

Kinds == {"page", "locations", "tags", "saveTags", "clearTags", "scrub", "count",
          "delete", "deletePrefix", "uploadKey", "tick", "transferDone"}

TypeOK ==
    /\ prefix \in DOMAIN Pages
    /\ \A r \in rows : r.from \in DOMAIN Pages
    /\ loading \in BOOLEAN /\ more \in BOOLEAN /\ next \in 0..2
    /\ filter \in {"off", "typing", "applied"} /\ mode \in {"browse", "inspect"}
    /\ prompt.kind \in {"none", "download", "tree", "uploadFile", "upload", "tags"}
    /\ confirm.kind \in {"none", "delete", "deletePrefix", "scrub", "clearTags"}
    /\ transfer.kind \in {"none", "download", "tree", "upload"}
    /\ \A m \in wire : m.kind \in Kinds

Waiting(kind) == \E m \in wire : m.kind = kind

\* Everything the pane shows as in progress has a request whose answer will
\* turn it off: a load's spinner, the inspector's, "verifying...", and the
\* progress line of the transfer, whose ticks keep coming until it is reported.
IndicatorsBacked ==
    /\ loading => \E m \in wire : m.kind = "page" /\ m.page = 1
    /\ insp.loading => Waiting("locations")
    /\ insp.scrubbing => Waiting("scrub")
    /\ transfer # Nothing => Waiting("tick") \/ Waiting("transferDone")

Destructive == {"delete", "deletePrefix", "scrub", "clearTags"}

\* fileactions.go: every destructive action confirms first and names what it
\* will affect: such a request goes out only as the answer to a question about
\* exactly its target, although counts and answers arm questions of their own
\* while the operator works on something else.
ConfirmedFirst ==
  \A m \in wire' \ wire : m.kind \in Destructive =>
          confirm = Ask(m.kind, m.at) /\ confirm' = Nothing

\* A transfer the pane follows is reported in the end.
TransferReported == transfer # Nothing ~> transfer = Nothing
=============================================================================

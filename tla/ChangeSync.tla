----------------------------- MODULE ChangeSync -----------------------------
(***************************************************************************)
(* How a browser tab on a list page follows the documents of the database: *)
(* the change stream of server/change-sync.mjs, the version bookkeeping of *)
(* frontend/local-data.js, the refresh of frontend/change-sync.js and the  *)
(* loads and saves of the inventory and commerce modules.                  *)
(*                                                                         *)
(* Stream and reads are separate requests: a version can be announced      *)
(* before an older document arrives, and what is announced while the tab   *)
(* is busy has to be remembered.  An action is one task of the browser     *)
(* with the microtasks it queues, in their order.                          *)
(***************************************************************************)
EXTENDS Naturals, Sequences

CONSTANTS
  Cold,        \* the page has just been opened: its first reads are under way
               \* and the stream is not connected; else both have arrived
  AccountsPage,  \* the page shows inventory together with its orders
  MaxVersion,  \* bound on the versions others commit
  MaxSaves,    \* bound on saves of this tab
  MaxFaults    \* bound on lost answers, lost streams and rejected reads

VARIABLES
  version,  \* the documents' versions in the database
  stream,   \* the connection: what the server sent last, the frames under way
  tab,      \* the tab's memory
  saves,
  faults

vars == <<version, stream, tab, saves, faults>>

ASSUME ChangeSyncAssumption ==
  {Cold, AccountsPage} \subseteq BOOLEAN /\ MaxVersion \in Nat \ {0} /\ {MaxSaves, MaxFaults} \subseteq Nat

Docs == {"inventory", "commerce"}
Unknown == 0    \* a version the tab has not seen; the database's start at 1

Idle == [at |-> "none", got |-> Unknown]
Asked == [at |-> "asked", got |-> Unknown]
NoFlush == [on |-> FALSE, scopes |-> {}, waits |-> {}, failed |-> FALSE, changed |-> FALSE]
Offline == [up |-> FALSE, sent |-> [d \in Docs |-> Unknown], frames |-> << >>]

Frame == [first : BOOLEAN, versions : UNION {[D -> 1..(MaxVersion + MaxSaves)] : D \in SUBSET Docs}]

-----------------------------------------------------------------------------
(* The tab's bookkeeping: each operator gives the memory after a call.      *)

Newer(v, seen) == seen = Unknown \/ v > seen

WritesPending(t) == \E d \in Docs : t.save[d].at \in {"sent", "stored", "refused"}

(* A form, menu or dialog is open or the tab hidden, or a save under way.   *)
Blocked(t) == t.busy \/ WritesPending(t)

(* Listeners remember the documents and queue a flush.                      *)
Published(t, ds) ==
  IF ds = {} THEN t
  ELSE [t EXCEPT !.pending = @ \cup ds, !.flush.changed = TRUE, !.scheduled = TRUE]

Resumed(t) == [t EXCEPT !.scheduled = TRUE]

(* A first snapshot says nothing new of a document that was neither read    *)
(* nor announced before.                                                    *)
Changed(t, frame) ==
  {d \in DOMAIN frame.versions :
     LET v == frame.versions[d] IN
       /\ frame.first \/ t.server[d] # v
       /\ IF t.observed[d] # Unknown THEN v > t.observed[d] ELSE t.server[d] \notin {Unknown, v}}

Announced(t, frame) ==
  [d \in Docs |-> IF d \in DOMAIN frame.versions THEN frame.versions[d] ELSE t.server[d]]

Accepted(t, frame) ==
  Published([t EXCEPT !.server = Announced(t, frame)], Changed(t, frame))

Observed(t, d, v) ==
  LET seen == IF v >= t.observed[d] THEN v ELSE t.observed[d] IN
    Published([t EXCEPT !.observed[d] = seen], IF t.server[d] > seen THEN {d} ELSE {})

AppliedAnyway(t, d, v) == [t EXCEPT !.shown[d] = v]   \* mutant

Applied(t, d, v) == [t EXCEPT !.shown[d] = IF v < @ THEN @ ELSE v]

(* A load under way is shared by everybody who asks for the document.       *)
Loading(t, ds) ==
  [t EXCEPT !.load = [d \in Docs |-> IF d \in ds /\ @[d] = Idle THEN Asked ELSE @[d]]]

(* ... and its end is the end of every wait for it.                         *)
Waited(f, d, ok) == [f EXCEPT !.waits = @ \ {d}, !.failed = @ \/ (d \in f.waits /\ ~ok)]

LoadEnded(t, d, ok) ==
  [t EXCEPT !.load[d] = Idle,
            !.flush = Waited(t.flush, d, ok),
            !.save[d] = IF @.at = "shares" THEN Idle ELSE @]

News(t) == {d \in t.pending : t.server[d] # Unknown /\ Newer(t.server[d], t.observed[d])}

(* A page of accounts reads the inventory with the orders.                  *)
Reads(scopes) == scopes \cup (IF "commerce" \in scopes /\ AccountsPage THEN {"inventory"} ELSE {})

Flushing(scopes) ==
  [on |-> TRUE, scopes |-> scopes, waits |-> Reads(scopes), failed |-> FALSE, changed |-> FALSE]

FlushStarts(t) ==
  LET scopes == News(t) IN
    IF scopes = {} THEN [t EXCEPT !.pending = {}]
    ELSE Loading([t EXCEPT !.pending = {}, !.flush = Flushing(scopes)], Reads(scopes))

(* The queued flush, if there is one and the tab is free.                   *)
Flushed(t) ==
  LET run == t.scheduled /\ ~t.flush.on /\ t.pending # {} /\ ~Blocked(t)
      u == [t EXCEPT !.scheduled = FALSE]
  IN  IF run THEN FlushStarts(u) ELSE u

FlushOverForgets(t) ==   \* mutant
  LET u == [t EXCEPT !.notice = t.flush.failed, !.flush = NoFlush]
  IN  IF t.flush.changed /\ u.pending # {} THEN Flushed(Resumed(u)) ELSE u

FlushOverOnce(t) ==   \* mutant
  [t EXCEPT !.pending = IF t.flush.failed THEN @ \cup t.flush.scopes ELSE @,
            !.notice = t.flush.failed,
            !.flush = NoFlush]

(* At its end a flush that failed keeps its documents, and one that was     *)
(* overtaken by news starts over.                                           *)
FlushOver(t) ==
  LET u == [t EXCEPT !.pending = IF t.flush.failed THEN @ \cup t.flush.scopes ELSE @,
                     !.notice = t.flush.failed,
                     !.flush = NoFlush]
  IN  IF t.flush.changed /\ u.pending # {} THEN Flushed(Resumed(u)) ELSE u

(* A save's answer frees the tab once no other save is pending.             *)
SaveOver(t, d, next) ==
  LET u == [t EXCEPT !.save[d] = next] IN Flushed(IF WritesPending(u) THEN u ELSE Resumed(u))

-----------------------------------------------------------------------------
(* The server and its stream.                                               *)

ChangedVersions(previous, next) ==
  [d \in {e \in Docs : previous[e] # next[e]} |-> next[d]]

Commit(d) ==
  /\ version[d] < MaxVersion
  /\ version' = [version EXCEPT ![d] = @ + 1]
  /\ UNCHANGED <<stream, tab, saves, faults>>

Connect ==
  /\ ~stream.up
  /\ stream' = [up |-> TRUE, sent |-> version, frames |-> <<[first |-> TRUE, versions |-> version]>>]
  /\ UNCHANGED <<version, tab, saves, faults>>

Push ==
  /\ stream.up /\ stream.sent # version
  /\ stream' = [stream EXCEPT !.sent = version,
       !.frames = Append(@, [first |-> FALSE, versions |-> ChangedVersions(stream.sent, version)])]
  /\ UNCHANGED <<version, tab, saves, faults>>

(* A chunk brings one frame or several.                                     *)
AfterFrames(t, n) ==
  LET after[i \in 0..n] == IF i = 0 THEN t ELSE Accepted(after[i - 1], stream.frames[i]) IN after[n]

Deliver ==
  /\ \E n \in 1..Len(stream.frames) :
       /\ tab' = Flushed(AfterFrames(tab, n))
       /\ stream' = [stream EXCEPT !.frames = SubSeq(@, n + 1, Len(@))]
  /\ UNCHANGED <<version, saves, faults>>

Fault == faults < MaxFaults /\ faults' = faults + 1

Disconnect ==
  /\ stream.up /\ Fault
  /\ stream' = Offline
  /\ UNCHANGED <<version, tab, saves>>

-----------------------------------------------------------------------------
(* Reads.                                                                   *)

Serve(d) ==
  /\ tab.load[d].at = "asked"
  /\ tab' = [tab EXCEPT !.load[d] = [at |-> "answered", got |-> version[d]]]
  /\ UNCHANGED <<version, stream, saves, faults>>

(* The answer is observed, then the flush it may queue runs while the load  *)
(* is still on, and only then the answer is applied and the load over.      *)
Received(t, d, v) == LoadEnded(Applied(Flushed(Observed(t, d, v)), d, v), d, TRUE)

Receive(d) ==
  /\ tab.load[d].at = "answered"
  /\ tab' = Received(tab, d, tab.load[d].got)
  /\ UNCHANGED <<version, stream, saves, faults>>

LoadFails(d) ==
  /\ tab.load[d] # Idle /\ Fault
  /\ tab' = LoadEnded(tab, d, FALSE)
  /\ UNCHANGED <<version, stream, saves>>

FlushEnds ==
  /\ tab.flush.on /\ tab.flush.waits = {}
  /\ tab' = FlushOver(tab)
  /\ UNCHANGED <<version, stream, saves, faults>>

-----------------------------------------------------------------------------
(* Saves of this tab.                                                       *)

Save(d) ==
  /\ saves < MaxSaves /\ tab.shown[d] # Unknown /\ tab.save[d] = Idle
  /\ tab' = [tab EXCEPT !.save[d] = [at |-> "sent", got |-> tab.shown[d]]]
  /\ saves' = saves + 1
  /\ UNCHANGED <<version, stream, faults>>

SaveServed(d) ==
  /\ tab.save[d].at = "sent"
  /\ \/ /\ tab.save[d].got = version[d]
        /\ version' = [version EXCEPT ![d] = @ + 1]
        /\ tab' = [tab EXCEPT !.save[d] = [at |-> "stored", got |-> version[d] + 1]]
     \/ /\ tab.save[d].got # version[d]
        /\ tab' = [tab EXCEPT !.save[d] = [at |-> "refused", got |-> Unknown]]
        /\ UNCHANGED version
  /\ UNCHANGED <<stream, saves, faults>>

Stored(d) ==
  /\ tab.save[d].at = "stored"
  /\ LET v == tab.save[d].got IN tab' = Applied(SaveOver(Observed(tab, d, v), d, Idle), d, v)
  /\ UNCHANGED <<version, stream, saves, faults>>

(* A conflict: inventory is read anew through the shared load, commerce     *)
(* with a request of its own.                                               *)
Reread(d) == [at |-> IF d = "inventory" THEN "shares" ELSE "asks", got |-> Unknown]

Refused(d) ==
  /\ tab.save[d].at = "refused"
  /\ tab' = Loading(SaveOver(tab, d, Reread(d)), Docs \cap {"inventory"} \cap {d})
  /\ UNCHANGED <<version, stream, saves, faults>>

RereadServed ==
  /\ tab.save["commerce"].at = "asks"
  /\ tab' = [tab EXCEPT !.save["commerce"] = [at |-> "reads", got |-> version["commerce"]]]
  /\ UNCHANGED <<version, stream, saves, faults>>

RereadEnds ==
  /\ tab.save["commerce"].at = "reads"
  /\ LET v == tab.save["commerce"].got IN
       tab' = [Applied(Flushed(Observed(tab, "commerce", v)), "commerce", v)
                 EXCEPT !.save["commerce"] = Idle]
  /\ UNCHANGED <<version, stream, saves, faults>>

(* The request or its answer is lost, before or after the commit.           *)
SaveLost(d) ==
  /\ tab.save[d].at \in {"sent", "stored", "refused", "asks", "reads"} /\ Fault
  /\ tab' = IF WritesPending(tab) THEN SaveOver(tab, d, Idle) ELSE [tab EXCEPT !.save[d] = Idle]
  /\ UNCHANGED <<version, stream, saves>>

-----------------------------------------------------------------------------
(* What the user does.                                                      *)

Edit ==
  /\ ~tab.busy
  /\ tab' = [tab EXCEPT !.busy = TRUE]
  /\ UNCHANGED <<version, stream, saves, faults>>

StopEditing ==
  /\ tab.busy
  /\ tab' = Flushed(Resumed([tab EXCEPT !.busy = FALSE]))
  /\ UNCHANGED <<version, stream, saves, faults>>

(* The page is drawn anew, or the window comes to the front.                *)
Render ==
  /\ tab' = Flushed(Resumed(tab))
  /\ UNCHANGED <<version, stream, saves, faults>>

(* Opening an order reads the inventory again.                              *)
OpenOrder ==
  /\ tab' = Loading(tab, {"inventory"})
  /\ UNCHANGED <<version, stream, saves, faults>>

(* Another read was answered with 403: the query cache and what it observed *)
(* are dropped, what the server announced is not.                           *)
ClearQueries ==
  /\ Fault
  /\ tab' = [tab EXCEPT !.observed = [d \in Docs |-> Unknown]]
  /\ UNCHANGED <<version, stream, saves>>

-----------------------------------------------------------------------------
Init ==
  /\ version = [d \in Docs |-> 1]
  /\ stream = IF Cold THEN Offline ELSE [up |-> TRUE, sent |-> version, frames |-> << >>]
  /\ tab = [server |-> [d \in Docs |-> IF Cold THEN Unknown ELSE 1],
            observed |-> [d \in Docs |-> IF Cold THEN Unknown ELSE 1],
            shown |-> [d \in Docs |-> IF Cold THEN Unknown ELSE 1],
            pending |-> {}, scheduled |-> FALSE, flush |-> NoFlush, notice |-> FALSE,
            load |-> [d \in Docs |-> IF Cold THEN Asked ELSE Idle],
            save |-> [d \in Docs |-> Idle],
            busy |-> FALSE]
  /\ saves = 0
  /\ faults = 0

Next ==
  \/ \E d \in Docs : \/ Commit(d) \/ Serve(d) \/ Receive(d) \/ LoadFails(d)
                     \/ Save(d) \/ SaveServed(d) \/ Stored(d) \/ Refused(d) \/ SaveLost(d)
  \/ Connect \/ Push \/ Deliver \/ Disconnect \/ FlushEnds
  \/ RereadServed \/ RereadEnds
  \/ Edit \/ StopEditing \/ Render \/ OpenOrder \/ ClearQueries

Spec == Init /\ [][Next]_vars

(* Requests are answered, the stream is opened again and pushes, and users  *)
(* finish what they edit; nobody has to come back to the page.              *)
FairSpec ==
  /\ Spec
  /\ WF_vars(Connect) /\ WF_vars(Push) /\ WF_vars(Deliver) /\ WF_vars(FlushEnds)
  /\ WF_vars(RereadServed) /\ WF_vars(RereadEnds) /\ WF_vars(StopEditing)
  /\ \A d \in Docs : /\ WF_vars(Serve(d)) /\ WF_vars(Receive(d))
                     /\ WF_vars(SaveServed(d)) /\ WF_vars(Stored(d)) /\ WF_vars(Refused(d))

-----------------------------------------------------------------------------
Versions == 1..(MaxVersion + MaxSaves)

(* Types of all state.  A flush waits only for loads under way, and a queued *)
(* flush is run before the next task.                                        *)
TypeOK ==
  /\ version \in [Docs -> Versions]
  /\ stream.up \in BOOLEAN /\ stream.sent \in [Docs -> Versions \cup {Unknown}]
  /\ \A i \in DOMAIN stream.frames : stream.frames[i] \in Frame
  /\ {tab.server, tab.observed, tab.shown} \subseteq [Docs -> Versions \cup {Unknown}]
  /\ tab.pending \subseteq Docs /\ ~tab.scheduled
  /\ {tab.notice, tab.busy, tab.flush.on, tab.flush.failed, tab.flush.changed} \subseteq BOOLEAN
  /\ tab.flush.scopes \subseteq Docs
  /\ tab.flush.waits \subseteq {d \in Docs : tab.load[d] # Idle}
  /\ \A d \in Docs : /\ tab.load[d].at \in {"none", "asked", "answered"}
                     /\ tab.save[d].at \in {"none", "sent", "stored", "refused", "shares", "asks", "reads"}
                     /\ tab.save[d].at = "shares" => tab.load[d] # Idle
  /\ saves \in 0..MaxSaves /\ faults \in 0..MaxFaults

(* A list never shows an older document after a newer one, whatever order    *)
(* the answers of loads, rereads and saves come in (the guards of            *)
(* applyCommittedInventory and acceptLocalCommerce).                         *)
ShownNeverGoesBack == [][\A d \in Docs : tab'.shown[d] >= tab.shown[d]]_vars

(* A version the server announced and the list does not show is on the list  *)
(* of things to read or being read by a flush: a failed, shared, overtaken   *)
(* or blocked refresh forgets nothing (the sets of change-sync.js).          *)
NewsIsRemembered ==
  \A d \in Docs : tab.server[d] > tab.shown[d] =>
    d \in tab.pending \/ (tab.flush.on /\ d \in tab.flush.scopes)

(* The list catches up with the database, or the tab has said that it did    *)
(* not and will try again when the user comes back to it.                    *)
CatchesUp ==
  \A d \in Docs : <>[](tab.shown[d] = version[d] \/ (tab.notice /\ d \in tab.pending))

-----------------------------------------------------------------------------
(* The inductive invariant.  Its parts speak of a tab t and of the versions  *)
(* its list is going to show when the task under way has ended: an answer    *)
(* is observed and may start a flush before it is applied.                   *)

Flush == [on : BOOLEAN, scopes : SUBSET Docs, waits : SUBSET Docs, failed : BOOLEAN, changed : BOOLEAN]
Load == [at : {"none", "asked", "answered"}, got : Nat]
Saving == [at : {"none", "sent", "stored", "refused", "shares", "asks", "reads"}, got : Nat]
Tab == [server : [Docs -> Nat], observed : [Docs -> Nat], shown : [Docs -> Nat],
        pending : SUBSET Docs, scheduled : BOOLEAN, flush : Flush, notice : BOOLEAN,
        load : [Docs -> Load], save : [Docs -> Saving], busy : BOOLEAN]
AnyFrame ==
  LET V == Nat \ {0} IN
    [first : BOOLEAN, versions : [Docs -> V] \cup [{"inventory"} -> V] \cup [{"commerce"} -> V] \cup [{} -> V]]

Stream == [up : BOOLEAN, sent : [Docs -> Nat], frames : Seq(AnyFrame)]

OldAnswer(t, d) == t.load[d].at = "answered" /\ t.load[d].got < t.server[d]
Settled(t) == t.flush.scopes \ t.flush.waits   \* the documents a flush has done with

(* The document is to be read, or being read by a flush.  One the flush has  *)
(* done with was announced again, unless its read failed; and without such   *)
(* news no answer older than what the flush was started for is under way.    *)
(* Where a flush may start at once it does: a document that is still pending *)
(* is not about to be answered with an old version.                          *)
Remembered(t, d) ==
  /\ d \in t.pending \/ (t.flush.on /\ d \in t.flush.scopes)
  /\ t.flush.on /\ ~t.flush.failed /\ d \in Settled(t) => d \in t.pending
  /\ t.flush.on /\ ~t.flush.changed /\ d \in Settled(t) => ~OldAnswer(t, d)
  /\ d \in t.pending /\ OldAnswer(t, d) => t.scheduled \/ t.flush.on \/ Blocked(t)

Consistent(t, shown) ==
  /\ \A d \in Docs : t.server[d] # Unknown /\ t.observed[d] <= shown[d]
  /\ \A d \in Docs : t.server[d] > shown[d] => Remembered(t, d)
  /\ t.flush.on /\ t.pending # {} => t.flush.changed

(* What was announced is in the database.                                    *)
Committed(versions) == \A d \in DOMAIN versions : versions[d] <= version[d]

AnnouncedOK ==
  /\ version \in [Docs -> Nat \ {0}] /\ stream \in Stream
  /\ Committed(tab.server)
  /\ \A i \in DOMAIN stream.frames : Committed(stream.frames[i].versions)

(* A page just opened knows nothing yet: what it remembers is for the others. *)
IInv ==
  /\ tab \in Tab /\ ~tab.scheduled /\ AnnouncedOK
  /\ ~Cold => Consistent(tab, tab.shown)
=============================================================================

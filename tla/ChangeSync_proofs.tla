------------------------- MODULE ChangeSync_proofs -------------------------
(***************************************************************************)
(* Proofs about ChangeSync: a list never goes back to an older document,   *)
(* and a tab whose first reads have arrived forgets no announced version.  *)
(*                                                                         *)
(* The operators of the bookkeeping are nested in each other as the calls  *)
(* are; so each has a lemma that says what it keeps of a tab's memory, and *)
(* an action's step is the chain of the lemmas of its calls.               *)
(***************************************************************************)
EXTENDS ChangeSync, TLAPS, SequenceTheorems, WellFoundedInduction

(* What the documents' listeners have in common: u is t after news of ds.    *)
Told(t, u, ds) ==
  /\ u.shown = t.shown /\ u.load = t.load /\ u.save = t.save /\ u.busy = t.busy
  /\ u.flush.on = t.flush.on /\ u.flush.scopes = t.flush.scopes
  /\ u.flush.waits = t.flush.waits /\ u.flush.failed = t.flush.failed
  /\ u.pending = t.pending \cup ds
  /\ ds # {} => u.scheduled /\ u.flush.changed
  /\ ds = {} => u.scheduled = t.scheduled
  /\ t.scheduled => u.scheduled
  /\ t.flush.changed => u.flush.changed
  /\ u.flush.changed => ds # {} \/ t.flush.changed

(* Publishing changes what is pending and announced, and nothing else.       *)
LEMMA PublishedTells ==
  ASSUME NEW t \in Tab, NEW ds \in SUBSET Docs
  PROVE  /\ Published(t, ds) \in Tab
         /\ Published(t, ds).server = t.server /\ Published(t, ds).observed = t.observed
         /\ Told(t, Published(t, ds), ds)
  <1> DEFINE u == Published(t, ds)
  <1>1. CASE ds = {}
    <2>1. u = t  BY <1>1 DEF Published
    <2> QED  BY <2>1, <1>1 DEF Told
  <1>2. CASE ds # {}
    <2>1. u = [t EXCEPT !.pending = @ \cup ds, !.flush.changed = TRUE, !.scheduled = TRUE]
      BY <1>2 DEF Published
    <2> DEFINE f == [t.flush EXCEPT !.changed = TRUE]
    <2>2. /\ t.pending \cup ds \in SUBSET Docs /\ f \in Flush
          /\ f.on = t.flush.on /\ f.scopes = t.flush.scopes /\ f.waits = t.flush.waits
          /\ f.failed = t.flush.failed /\ f.changed = TRUE
      BY DEF Tab, Flush
    <2>3. u = [t EXCEPT !.pending = t.pending \cup ds, !.flush = f, !.scheduled = TRUE]
      BY <2>1 DEF Tab
    <2> HIDE DEF f
    <2>4. /\ u \in Tab /\ u.flush = f /\ u.pending = t.pending \cup ds /\ u.scheduled = TRUE
          /\ u.server = t.server /\ u.observed = t.observed /\ u.shown = t.shown
          /\ u.load = t.load /\ u.save = t.save /\ u.busy = t.busy
      <3> HIDE DEF u
      <3> QED  BY <2>2, <2>3 DEF Tab
    <2> HIDE DEF u
    <2>5. Told(t, u, ds)  BY <2>2, <2>4, <1>2 DEF Told
    <2> QED  BY <2>4, <2>5 DEF u
  <1> QED  BY <1>1, <1>2

(* News keep a memory consistent when they are of every document that is     *)
(* behind and was not behind before.                                         *)
LEMMA ToldKeeps ==
  ASSUME NEW t \in Tab, NEW u \in Tab, NEW ds \in SUBSET Docs, Told(t, u, ds),
         NEW old \in [Docs -> Nat], NEW new \in [Docs -> Nat],
         Consistent(t, old),
         \A d \in Docs : u.server[d] # Unknown /\ u.observed[d] <= new[d],
         \A d \in Docs : u.server[d] > new[d] /\ d \notin ds =>
                           u.server[d] = t.server[d] /\ t.server[d] > old[d]
  PROVE  Consistent(u, new)
  <1>1. ASSUME NEW d \in Docs, u.server[d] > new[d]
        PROVE  Remembered(u, d)
    <2>1. CASE d \in ds
      BY <2>1 DEF Told, Remembered
    <2>2. CASE d \notin ds
      <3>1. Remembered(t, d) /\ u.server[d] = t.server[d]
        BY <1>1, <2>2 DEF Consistent
      <3>2. d \in u.pending <=> d \in t.pending
        BY <2>2 DEF Told
      <3>3. Blocked(u) = Blocked(t) /\ OldAnswer(u, d) = OldAnswer(t, d) /\ Settled(u) = Settled(t)
        BY <3>1 DEF Told, Blocked, WritesPending, OldAnswer, Settled
      <3> QED  BY <3>1, <3>2, <3>3 DEF Told, Remembered
    <2> QED  BY <2>1, <2>2
  <1>2. u.flush.on /\ u.pending # {} => u.flush.changed
    BY DEF Told, Consistent
  <1> QED  BY <1>1, <1>2 DEF Consistent
(* A frame is accepted: whatever it brings that is news is pending.          *)
LEMMA AcceptedKeeps ==
  ASSUME NEW t \in Tab, NEW frame \in AnyFrame
  PROVE  /\ Accepted(t, frame) \in Tab
         /\ Accepted(t, frame).shown = t.shown
         /\ \A d \in Docs : Accepted(t, frame).server[d] =
                              IF d \in DOMAIN frame.versions THEN frame.versions[d] ELSE t.server[d]
         /\ \A sh \in [Docs -> Nat] : Consistent(t, sh) => Consistent(Accepted(t, frame), sh)
  <1> DEFINE fv == frame.versions
             sv == Announced(t, frame)
             w == [t EXCEPT !.server = sv]
             ds == Changed(t, frame)
             u == Accepted(t, frame)
  <1>1. /\ DOMAIN fv \subseteq Docs /\ (\A d \in DOMAIN fv : fv[d] \in Nat \ {0})
        /\ frame.first \in BOOLEAN
    BY DEF AnyFrame, Docs
  <1>2. /\ sv \in [Docs -> Nat]
        /\ \A d \in Docs : sv[d] = IF d \in DOMAIN fv THEN fv[d] ELSE t.server[d]
    BY <1>1 DEF Tab, Announced
  <1>3. ds \in SUBSET Docs
    BY <1>1 DEF Changed
  <1>4. u = Published(w, ds)
    BY DEF Accepted, Tab
  <1> HIDE DEF sv
  <1>5. /\ w \in Tab /\ w.server = sv /\ w.observed = t.observed /\ w.shown = t.shown
        /\ w.pending = t.pending /\ w.scheduled = t.scheduled /\ w.flush = t.flush
        /\ w.load = t.load /\ w.save = t.save /\ w.busy = t.busy
    BY <1>2 DEF Tab
  <1> HIDE DEF w, ds, u
  <1>6. u \in Tab /\ u.server = sv /\ u.observed = t.observed /\ Told(w, u, ds)
    BY <1>3, <1>4, <1>5, PublishedTells
  <1>7. Told(t, u, ds)
    BY <1>5, <1>6 DEF Told
  <1>8. ASSUME NEW sh \in [Docs -> Nat], Consistent(t, sh)
        PROVE  Consistent(u, sh)
    <2>1. \A d \in Docs : u.server[d] # Unknown /\ u.observed[d] <= sh[d]
      BY <1>1, <1>2, <1>6, <1>8 DEF Consistent, Unknown
    <2>2. ASSUME NEW d \in Docs, u.server[d] > sh[d], d \notin ds
          PROVE  u.server[d] = t.server[d]
      <3>1. CASE d \notin DOMAIN fv
        BY <3>1, <1>2, <1>6
      <3>2. CASE d \in DOMAIN fv
        <4>1. sv[d] = fv[d] /\ fv[d] \in Nat /\ fv[d] > sh[d] /\ t.observed[d] <= sh[d] /\ t.server[d] # Unknown
          BY <3>2, <2>2, <1>1, <1>2, <1>6, <1>8 DEF Consistent
        <4>2. t.observed[d] \in Nat /\ t.server[d] \in Nat /\ sh[d] \in Nat
          BY DEF Tab
        <4>3. fv[d] > t.observed[d]
          BY <4>1, <4>2
        <4>4. ~((frame.first \/ t.server[d] # fv[d])
                  /\ IF t.observed[d] # Unknown THEN fv[d] > t.observed[d] ELSE t.server[d] \notin {Unknown, fv[d]})
          BY <3>2, <2>2 DEF ds, Changed
        <4>5. t.server[d] = fv[d] \/ t.observed[d] # Unknown
          BY <4>1, <4>4
        <4>6. t.server[d] = fv[d]
          BY <4>3, <4>4, <4>5, <4>1
        <4> QED  BY <4>6, <4>1, <1>6
      <3> QED  BY <3>1, <3>2
    <2>3. \A d \in Docs : u.server[d] > sh[d] /\ d \notin ds => u.server[d] = t.server[d] /\ t.server[d] > sh[d]
      BY <2>2
    <2> QED  BY <1>3, <1>6, <1>7, <1>8, <2>1, <2>3, ToldKeeps
  <1>9. u.shown = t.shown
    BY <1>7 DEF Told
  <1> QED  BY <1>2, <1>6, <1>8, <1>9 DEF u

Later(a, b) == IF b < a THEN a ELSE b

(* An answer is observed: what the server announced beyond it is pending.    *)
LEMMA ObservedKeeps ==
  ASSUME NEW t \in Tab, NEW d \in Docs, NEW v \in Nat
  PROVE  LET u == Observed(t, d, v) IN
         /\ u \in Tab /\ u.server = t.server /\ u.shown = t.shown
         /\ u.load = t.load /\ u.save = t.save /\ u.busy = t.busy /\ u.flush.on = t.flush.on
         /\ \A sh \in [Docs -> Nat] : Consistent(t, sh) =>
              LET new == [sh EXCEPT ![d] = Later(sh[d], v)] IN
                /\ Consistent(u, new)
                /\ u.server[d] > new[d] => d \in u.pending
  <1> DEFINE seen == IF v >= t.observed[d] THEN v ELSE t.observed[d]
             ob == [t.observed EXCEPT ![d] = seen]
             w == [t EXCEPT !.observed = ob]
             ds == IF t.server[d] > seen THEN {d} ELSE {}
             u == Observed(t, d, v)
  <1>1. seen \in Nat /\ seen >= v /\ seen >= t.observed[d] /\ (seen = v \/ seen = t.observed[d])
    BY DEF Tab
  <1>2. u = Published(w, ds)
    BY DEF Observed, Tab
  <1> HIDE DEF seen
  <1>3. ob \in [Docs -> Nat] /\ ob[d] = seen /\ \A e \in Docs \ {d} : ob[e] = t.observed[e]
    BY <1>1 DEF Tab
  <1> HIDE DEF ob
  <1>4. /\ w \in Tab /\ w.server = t.server /\ w.observed = ob /\ w.shown = t.shown
        /\ w.pending = t.pending /\ w.scheduled = t.scheduled /\ w.flush = t.flush
        /\ w.load = t.load /\ w.save = t.save /\ w.busy = t.busy
    BY <1>3 DEF Tab
  <1>5. ds \in SUBSET Docs
    OBVIOUS
  <1> HIDE DEF w, u
  <1>6. u \in Tab /\ u.server = t.server /\ u.observed = ob /\ Told(w, u, ds)
    <2> HIDE DEF ds
    <2> QED  BY <1>2, <1>4, <1>5, PublishedTells
  <1>7. Told(t, u, ds)
    <2> HIDE DEF ds
    <2> QED  BY <1>4, <1>6 DEF Told
  <1>8. ASSUME NEW sh \in [Docs -> Nat], Consistent(t, sh)
        PROVE  LET new == [sh EXCEPT ![d] = Later(sh[d], v)] IN
                /\ Consistent(u, new)
                /\ u.server[d] > new[d] => d \in u.pending
    <2> DEFINE new == [sh EXCEPT ![d] = Later(sh[d], v)]
    <2>0. /\ Later(sh[d], v) \in Nat /\ Later(sh[d], v) >= sh[d] /\ Later(sh[d], v) >= v
          /\ Later(sh[d], v) \in {sh[d], v}
      BY DEF Later
    <2>1. /\ new \in [Docs -> Nat] /\ new[d] = Later(sh[d], v) /\ \A e \in Docs \ {d} : new[e] = sh[e]
      BY <2>0
    <2> HIDE DEF new
    <2>2. t.observed[d] \in Nat /\ sh[d] \in Nat /\ t.observed[d] <= sh[d] /\ t.server[d] \in Nat
      BY <1>8 DEF Tab, Consistent
    <2>3. seen <= new[d]
      BY <2>0, <2>1, <2>2, <1>1
    <2>4. \A e \in Docs : u.server[e] # Unknown /\ u.observed[e] <= new[e]
      BY <2>1, <2>3, <1>3, <1>6, <1>8 DEF Consistent
    <2>5. u.server[d] > new[d] => d \in ds
      BY <2>1, <2>2, <2>3, <2>0, <1>1, <1>6
    <2>6. \A e \in Docs : u.server[e] > new[e] /\ e \notin ds => u.server[e] = t.server[e] /\ t.server[e] > sh[e]
      <3> HIDE DEF ds
      <3> QED  BY <2>1, <2>5, <1>6
    <2>7. Consistent(u, new)
      <3> HIDE DEF ds
      <3> QED  BY <1>5, <1>6, <1>7, <1>8, <2>1, <2>4, <2>6, ToldKeeps
    <2>8. u.server[d] > new[d] => d \in u.pending
      <3> HIDE DEF ds
      <3> QED  BY <2>5, <1>7 DEF Told
    <2> QED  BY <2>7, <2>8 DEF new
  <1> QED  BY <1>6, <1>7, <1>8 DEF u, Told
Due(t) == t.scheduled \/ t.flush.on \/ Blocked(t)   \* no flush is missed by waiting

(* What neither announces nor flushes keeps a memory consistent when it      *)
(* brings no old answer and frees nothing without queueing the flush.        *)
LEMMA QuietKeeps ==
  ASSUME NEW t \in Tab, NEW u \in Tab, NEW sh \in [Docs -> Nat], Consistent(t, sh),
         u.server = t.server, u.pending = t.pending, u.flush = t.flush,
         \A d \in Docs : u.observed[d] <= sh[d],
         \A d \in Docs : OldAnswer(u, d) => OldAnswer(t, d),
         Due(t) => Due(u)
  PROVE  Consistent(u, sh)
  <1>1. ASSUME NEW d \in Docs, u.server[d] > sh[d]
        PROVE  Remembered(u, d)
    <2>1. Remembered(t, d)
      BY <1>1 DEF Consistent
    <2> QED  BY <2>1 DEF Remembered, Settled, Due
  <1> QED  BY <1>1 DEF Consistent

(* A load that starts has no answer yet.                                     *)
LEMMA LoadingKeeps ==
  ASSUME NEW t \in Tab, NEW ds \in SUBSET Docs
  PROVE  LET u == Loading(t, ds) IN
         /\ u \in Tab
         /\ u.server = t.server /\ u.observed = t.observed /\ u.shown = t.shown
         /\ u.pending = t.pending /\ u.scheduled = t.scheduled /\ u.flush = t.flush
         /\ u.save = t.save /\ u.busy = t.busy
         /\ \A d \in Docs : OldAnswer(u, d) => OldAnswer(t, d)
         /\ \A sh \in [Docs -> Nat] : Consistent(t, sh) => Consistent(u, sh)
  <1> DEFINE ld == [d \in Docs |-> IF d \in ds /\ t.load[d] = Idle THEN Asked ELSE t.load[d]]
             u == Loading(t, ds)
  <1>1. u = [t EXCEPT !.load = ld]
    BY DEF Loading, Tab
  <1>2. ld \in [Docs -> Load] /\ \A d \in Docs : ld[d].at = "answered" => ld[d] = t.load[d]
    BY DEF Tab, Load, Asked, Unknown
  <1> HIDE DEF ld, u
  <1>3. /\ u \in Tab /\ u.load = ld
        /\ u.server = t.server /\ u.observed = t.observed /\ u.shown = t.shown
        /\ u.pending = t.pending /\ u.scheduled = t.scheduled /\ u.flush = t.flush
        /\ u.save = t.save /\ u.busy = t.busy
    BY <1>1, <1>2 DEF Tab
  <1>4. \A d \in Docs : OldAnswer(u, d) => OldAnswer(t, d)
    BY <1>2, <1>3 DEF OldAnswer
  <1>5. Due(t) => Due(u)
    BY <1>3 DEF Due, Blocked, WritesPending
  <1>6. ASSUME NEW sh \in [Docs -> Nat], Consistent(t, sh)
        PROVE  Consistent(u, sh)
    <2>1. \A d \in Docs : u.observed[d] <= sh[d]
      BY <1>3, <1>6 DEF Consistent
    <2> QED  BY <1>3, <1>4, <1>5, <1>6, <2>1, QuietKeeps
  <1> QED  BY <1>3, <1>4, <1>6 DEF u

(* The flush is queued.                                                      *)
LEMMA ResumedKeeps ==
  ASSUME NEW t \in Tab
  PROVE  /\ Resumed(t) \in Tab /\ Resumed(t).shown = t.shown
         /\ Resumed(t).server = t.server /\ Resumed(t).scheduled
         /\ \A sh \in [Docs -> Nat] : Consistent(t, sh) => Consistent(Resumed(t), sh)
  <1> DEFINE u == Resumed(t)
  <1>1. /\ u \in Tab /\ u.scheduled /\ u.shown = t.shown
        /\ u.server = t.server /\ u.observed = t.observed
        /\ u.pending = t.pending /\ u.flush = t.flush /\ u.load = t.load
    BY DEF Resumed, Tab
  <1> HIDE DEF u
  <1>2. ASSUME NEW sh \in [Docs -> Nat], Consistent(t, sh)
        PROVE  Consistent(u, sh)
    <2>1. Due(u) /\ \A d \in Docs : u.observed[d] <= sh[d] /\ (OldAnswer(u, d) => OldAnswer(t, d))
      BY <1>1, <1>2 DEF Due, Consistent, OldAnswer
    <2> QED  BY <1>1, <1>2, <2>1, QuietKeeps
  <1> QED  BY <1>1, <1>2 DEF u

AllPending(t, sh) ==
  \A d \in Docs : /\ t.server[d] # Unknown /\ t.observed[d] <= sh[d]
                  /\ t.server[d] > sh[d] => d \in t.pending

(* A flush that starts reads every document that is behind and pending, and  *)
(* has done with none of them.                                               *)
LEMMA FlushStartsKeeps ==
  ASSUME NEW t \in Tab, ~t.flush.on
  PROVE  LET u == FlushStarts(t) IN
         /\ u \in Tab
         /\ u.server = t.server /\ u.observed = t.observed /\ u.shown = t.shown
         /\ u.scheduled = t.scheduled /\ u.save = t.save /\ u.busy = t.busy
         /\ \A sh \in [Docs -> Nat] : AllPending(t, sh) => Consistent(u, sh)
  <1> DEFINE scopes == News(t)
             f == Flushing(scopes)
             u == FlushStarts(t)
  <1>1. scopes \subseteq Docs /\ Reads(scopes) \subseteq Docs /\ scopes \subseteq Reads(scopes)
    BY DEF News, Reads, Tab, Docs
  <1>2. ASSUME NEW sh \in [Docs -> Nat], AllPending(t, sh), NEW d \in Docs, t.server[d] > sh[d]
        PROVE  d \in scopes
    <2>1. d \in t.pending
      BY <1>2 DEF AllPending
    <2>2. t.server[d] # Unknown /\ t.observed[d] <= sh[d]
      BY <1>2 DEF AllPending
    <2>3. t.server[d] > t.observed[d]
      BY <1>2, <2>2 DEF Tab
    <2> QED  BY <2>1, <2>2, <2>3 DEF News, Newer
  <1>3. CASE scopes = {}
    <2>1. u = [t EXCEPT !.pending = {}]
      BY <1>3 DEF FlushStarts
    <2> HIDE DEF u, scopes
    <2>2. /\ u \in Tab /\ u.pending = {} /\ u.flush = t.flush
          /\ u.server = t.server /\ u.observed = t.observed /\ u.shown = t.shown
          /\ u.scheduled = t.scheduled /\ u.save = t.save /\ u.busy = t.busy
      BY <2>1 DEF Tab
    <2>3. ASSUME NEW sh \in [Docs -> Nat], AllPending(t, sh)
          PROVE  Consistent(u, sh)
      <3>1. \A d \in Docs : ~(t.server[d] > sh[d])
        BY <1>2, <1>3, <2>3
      <3> QED  BY <2>2, <2>3, <3>1 DEF Consistent, AllPending
    <2> QED  BY <2>2, <2>3 DEF u
  <1>4. CASE scopes # {}
    <2> DEFINE w == [t EXCEPT !.pending = {}, !.flush = f]
    <2>1. u = Loading(w, Reads(scopes))
      BY <1>4 DEF FlushStarts
    <2>2. f \in Flush /\ f.on /\ f.scopes = scopes /\ f.waits = Reads(scopes) /\ ~f.changed
      BY <1>1 DEF Flush, Flushing
    <2> HIDE DEF f, scopes, u
    <2>3. /\ w \in Tab /\ w.pending = {} /\ w.flush = f
          /\ w.server = t.server /\ w.observed = t.observed /\ w.shown = t.shown
          /\ w.scheduled = t.scheduled /\ w.save = t.save /\ w.busy = t.busy
      BY <2>2 DEF Tab
    <2> HIDE DEF w
    <2>4. ASSUME NEW sh \in [Docs -> Nat], AllPending(t, sh)
          PROVE  Consistent(w, sh)
      <3>1. \A d \in Docs : w.server[d] # Unknown /\ w.observed[d] <= sh[d]
        BY <2>3, <2>4 DEF AllPending
      <3>2. Settled(w) = {}
        BY <1>1, <2>2, <2>3 DEF Settled
      <3>3. ASSUME NEW d \in Docs, w.server[d] > sh[d]
            PROVE  Remembered(w, d)
        <4>1. d \in scopes
          BY <1>2, <2>3, <2>4, <3>3
        <4> QED  BY <4>1, <2>2, <2>3, <3>2 DEF Remembered
      <3> QED  BY <2>3, <3>1, <3>3 DEF Consistent
    <2>5. /\ u \in Tab
          /\ u.server = w.server /\ u.observed = w.observed /\ u.shown = w.shown
          /\ u.scheduled = w.scheduled /\ u.save = w.save /\ u.busy = w.busy
          /\ \A sh \in [Docs -> Nat] : Consistent(w, sh) => Consistent(u, sh)
      BY <1>1, <2>1, <2>3, LoadingKeeps
    <2>6. \A sh \in [Docs -> Nat] : AllPending(t, sh) => Consistent(u, sh)
      BY <2>4, <2>5
    <2> QED  BY <2>3, <2>5, <2>6 DEF u
  <1> QED  BY <1>3, <1>4

(* The queued flush: it does not start while another is on or the tab is     *)
(* blocked, and what it leaves pending then was not to be started.           *)
LEMMA FlushedKeeps ==
  ASSUME NEW t \in Tab
  PROVE  LET u == Flushed(t) IN
         /\ u \in Tab /\ ~u.scheduled
         /\ u.server = t.server /\ u.observed = t.observed /\ u.shown = t.shown
         /\ u.save = t.save /\ u.busy = t.busy
         /\ t.flush.on \/ Blocked(t) => u.pending = t.pending
         /\ \A sh \in [Docs -> Nat] : Consistent(t, sh) => Consistent(u, sh)
  <1> DEFINE w == [t EXCEPT !.scheduled = FALSE]
             run == t.scheduled /\ ~t.flush.on /\ t.pending # {} /\ ~Blocked(t)
             u == Flushed(t)
  <1>1. /\ w \in Tab /\ ~w.scheduled
        /\ w.server = t.server /\ w.observed = t.observed /\ w.shown = t.shown
        /\ w.pending = t.pending /\ w.flush = t.flush /\ w.load = t.load
        /\ w.save = t.save /\ w.busy = t.busy
    BY DEF Tab
  <1>2. u = IF run THEN FlushStarts(w) ELSE w
    BY DEF Flushed
  <1>3. CASE run
    <2> HIDE DEF w, u
    <2>1. ASSUME NEW sh \in [Docs -> Nat], Consistent(t, sh)
          PROVE  AllPending(w, sh)
      BY <1>1, <1>3, <2>1 DEF Consistent, Remembered, AllPending
    <2>2. u = FlushStarts(w) /\ ~w.flush.on
      BY <1>1, <1>2, <1>3
    <2>3. /\ u \in Tab
          /\ u.server = w.server /\ u.observed = w.observed /\ u.shown = w.shown
          /\ u.scheduled = w.scheduled /\ u.save = w.save /\ u.busy = w.busy
          /\ \A sh \in [Docs -> Nat] : AllPending(w, sh) => Consistent(u, sh)
      BY <1>1, <2>2, FlushStartsKeeps
    <2>4. \A sh \in [Docs -> Nat] : Consistent(t, sh) => Consistent(u, sh)
      BY <2>1, <2>3
    <2> QED  BY <1>1, <1>3, <2>3, <2>4 DEF u
  <1>4. CASE ~run
    <2> HIDE DEF w, u
    <2>1. u = w
      BY <1>2, <1>4
    <2>2. ASSUME NEW sh \in [Docs -> Nat], Consistent(t, sh)
          PROVE  Consistent(w, sh)
      <3>1. ASSUME NEW d \in Docs, w.server[d] > sh[d]
            PROVE  Remembered(w, d)
        <4>1. Remembered(t, d)
          BY <1>1, <2>2, <3>1 DEF Consistent
        <4>2. Blocked(w) = Blocked(t) /\ OldAnswer(w, d) = OldAnswer(t, d) /\ Settled(w) = Settled(t)
          BY <1>1 DEF Blocked, WritesPending, OldAnswer, Settled
        <4> QED  BY <4>1, <4>2, <1>1, <1>4 DEF Remembered
      <3> QED  BY <1>1, <2>2, <3>1 DEF Consistent
    <2> QED  BY <1>1, <2>1, <2>2 DEF u
  <1> QED  BY <1>3, <1>4
(* An answer is applied unless a newer one was.                              *)
LEMMA AppliedKeeps ==
  ASSUME NEW t \in Tab, NEW d \in Docs, NEW v \in Nat
  PROVE  LET u == Applied(t, d, v)
             new == [t.shown EXCEPT ![d] = Later(t.shown[d], v)] IN
         /\ u \in Tab /\ u.shown = new
         /\ u.server = t.server /\ u.observed = t.observed /\ u.pending = t.pending
         /\ u.scheduled = t.scheduled /\ u.flush = t.flush /\ u.load = t.load
         /\ u.save = t.save /\ u.busy = t.busy
         /\ \A e \in Docs : u.shown[e] >= t.shown[e]
         /\ Consistent(t, new) => Consistent(u, u.shown)
  <1> DEFINE new == [t.shown EXCEPT ![d] = Later(t.shown[d], v)]
             u == Applied(t, d, v)
  <1>1. Later(t.shown[d], v) \in Nat /\ Later(t.shown[d], v) >= t.shown[d]
    BY DEF Later, Tab
  <1>2. new \in [Docs -> Nat] /\ \A e \in Docs : new[e] >= t.shown[e]
    BY <1>1 DEF Tab
  <1>3. u = [t EXCEPT !.shown = new]
    BY DEF Applied, Later, Tab
  <1> HIDE DEF new, u
  <1>4. /\ u \in Tab /\ u.shown = new
        /\ u.server = t.server /\ u.observed = t.observed /\ u.pending = t.pending
        /\ u.scheduled = t.scheduled /\ u.flush = t.flush /\ u.load = t.load
        /\ u.save = t.save /\ u.busy = t.busy
    BY <1>2, <1>3 DEF Tab
  <1>5. ASSUME Consistent(t, new) PROVE Consistent(u, new)
    <2>1. /\ \A e \in Docs : u.observed[e] <= new[e]
          /\ \A e \in Docs : OldAnswer(u, e) => OldAnswer(t, e)
          /\ Due(t) => Due(u)
      BY <1>4, <1>5 DEF Consistent, OldAnswer, Due, Blocked, WritesPending
    <2> QED  BY <1>2, <1>4, <1>5, <2>1, QuietKeeps
  <1> QED  BY <1>2, <1>4, <1>5 DEF u, new

(* A load is over: the flush has done with the document, and the only ones   *)
(* it may not have done with for good are pending, or it has failed.         *)
LEMMA LoadEndedKeeps ==
  ASSUME NEW t \in Tab, NEW d \in Docs, NEW ok \in BOOLEAN
  PROVE  LET u == LoadEnded(t, d, ok) IN
         /\ u \in Tab /\ u.server = t.server /\ u.shown = t.shown
         /\ u.scheduled = t.scheduled
         /\ \A sh \in [Docs -> Nat] :
              Consistent(t, sh) /\ (ok /\ t.server[d] > sh[d] => d \in t.pending) => Consistent(u, sh)
  <1> DEFINE u == LoadEnded(t, d, ok)
             f == Waited(t.flush, d, ok)
             ld == [t.load EXCEPT ![d] = Idle]
             sv == [t.save EXCEPT ![d] = IF t.save[d].at = "shares" THEN Idle ELSE t.save[d]]
  <1>1. u = [t EXCEPT !.load = ld, !.flush = f, !.save = sv]
    BY DEF LoadEnded, Tab
  <1>2. f \in Flush /\ ld \in [Docs -> Load] /\ sv \in [Docs -> Saving]
    BY DEF Tab, Flush, Load, Saving, Idle, Unknown, Waited
  <1>3. \A e \in Docs : /\ ld[e].at = "answered" => e # d /\ ld[e] = t.load[e]
                        /\ sv[e].at \in {"sent", "stored", "refused"} <=> t.save[e].at \in {"sent", "stored", "refused"}
    BY DEF Tab, Load, Saving, Idle, Unknown
  <1>4. /\ f.on = t.flush.on /\ f.scopes = t.flush.scopes /\ f.waits = t.flush.waits \ {d}
        /\ f.failed = (t.flush.failed \/ (d \in t.flush.waits /\ ~ok)) /\ f.changed = t.flush.changed
    BY DEF Waited, Tab, Flush
  <1> HIDE DEF u, f, ld, sv
  <1>5. /\ u \in Tab /\ u.load = ld /\ u.flush = f /\ u.save = sv
        /\ u.server = t.server /\ u.observed = t.observed /\ u.shown = t.shown
        /\ u.pending = t.pending /\ u.scheduled = t.scheduled /\ u.busy = t.busy
    BY <1>1, <1>2 DEF Tab
  <1>6. ASSUME NEW sh \in [Docs -> Nat], Consistent(t, sh), ok /\ t.server[d] > sh[d] => d \in t.pending
        PROVE  Consistent(u, sh)
    <2>1. Blocked(u) = Blocked(t)
      BY <1>3, <1>5 DEF Blocked, WritesPending
    <2>2. \A e \in Docs : OldAnswer(u, e) => e # d /\ OldAnswer(t, e)
      BY <1>3, <1>5 DEF OldAnswer
    <2>3. ASSUME NEW e \in Docs, u.server[e] > sh[e]
          PROVE  Remembered(u, e)
      <3>1. Remembered(t, e)
        BY <1>5, <1>6, <2>3 DEF Consistent
      <3>2. CASE e # d
        <4>1. e \in Settled(u) <=> e \in Settled(t)
          BY <3>2, <1>4, <1>5 DEF Settled
        <4> QED  BY <3>1, <4>1, <2>1, <2>2, <1>4, <1>5 DEF Remembered
      <3>3. CASE e = d
        <4>1. ~OldAnswer(u, d)
          BY <2>2
        <4>2. d \in t.pending \/ (t.flush.on /\ d \in t.flush.scopes)
          BY <3>1, <3>3 DEF Remembered
        <4>3. ~f.failed /\ f.on /\ d \in t.flush.scopes => d \in t.pending
          <5>1. CASE d \in t.flush.waits
            BY <5>1, <1>4, <1>5, <1>6, <2>3, <3>3
          <5>2. CASE d \notin t.flush.waits
            BY <5>2, <1>4, <3>1, <3>3 DEF Remembered, Settled
          <5> QED  BY <5>1, <5>2
        <4>4. d \in Settled(u) => d \in t.flush.scopes
          BY <1>4, <1>5 DEF Settled
        <4> QED  BY <3>3, <4>1, <4>2, <4>3, <4>4, <1>4, <1>5 DEF Remembered
      <3> QED  BY <3>2, <3>3
    <2> QED  BY <1>4, <1>5, <1>6, <2>3 DEF Consistent
  <1> QED  BY <1>5, <1>6 DEF u

(* At its end a flush leaves what is still behind pending, and starts over   *)
(* when it was overtaken.                                                    *)
LEMMA FlushOverKeeps ==
  ASSUME NEW t \in Tab, ~t.scheduled, t.flush.on, t.flush.waits = {}
  PROVE  LET u == FlushOver(t) IN
         /\ u \in Tab /\ ~u.scheduled /\ u.server = t.server /\ u.shown = t.shown
         /\ \A sh \in [Docs -> Nat] : Consistent(t, sh) => Consistent(u, sh)
  <1> DEFINE pending == IF t.flush.failed THEN t.pending \cup t.flush.scopes ELSE t.pending
             w == [t EXCEPT !.pending = pending, !.notice = t.flush.failed, !.flush = NoFlush]
             u == FlushOver(t)
             again == t.flush.changed /\ w.pending # {}
  <1>1. u = IF again THEN Flushed(Resumed(w)) ELSE w
    BY DEF FlushOver, Tab
  <1>2. pending \in SUBSET Docs /\ NoFlush \in Flush /\ ~NoFlush.on /\ t.flush.failed \in BOOLEAN
    BY DEF Tab, Flush, NoFlush
  <1>3. /\ t.pending \subseteq pending /\ (t.flush.failed => t.flush.scopes \subseteq pending)
        /\ ~t.flush.failed => pending = t.pending
    OBVIOUS
  <1> HIDE DEF pending
  <1>4. /\ w \in Tab /\ w.pending = pending /\ w.flush = NoFlush
        /\ w.server = t.server /\ w.observed = t.observed /\ w.shown = t.shown
        /\ w.scheduled = t.scheduled /\ w.load = t.load /\ w.save = t.save /\ w.busy = t.busy
    BY <1>2 DEF Tab
  <1> HIDE DEF w, u
  <1>5. ASSUME NEW sh \in [Docs -> Nat], Consistent(t, sh), NEW d \in Docs, t.server[d] > sh[d]
        PROVE  /\ d \in pending
               /\ ~again => ~OldAnswer(t, d)
    <2>1. Remembered(t, d) /\ (t.pending # {} => t.flush.changed)
      BY <1>5 DEF Consistent
    <2>2. d \in t.flush.scopes => d \in Settled(t)
      BY DEF Settled
    <2>3. d \in pending
      BY <1>3, <2>1, <2>2 DEF Remembered
    <2>4. ASSUME ~again PROVE ~OldAnswer(t, d)
      <3>1. ~t.flush.changed /\ t.pending = {}
        BY <1>4, <2>1, <2>3, <2>4
      <3> QED  BY <2>1, <2>2, <3>1 DEF Remembered
    <2> QED  BY <2>3, <2>4
  <1>6. CASE again
    <2> HIDE DEF again
    <2>1. /\ Resumed(w) \in Tab /\ Resumed(w).shown = w.shown /\ Resumed(w).server = w.server
          /\ Resumed(w).scheduled
      BY <1>4, ResumedKeeps
    <2>2. /\ Resumed(w).pending = w.pending /\ Resumed(w).observed = w.observed
          /\ Resumed(w).flush = w.flush
      BY <1>4 DEF Resumed, Tab
    <2>3. /\ u \in Tab /\ ~u.scheduled /\ u.server = t.server /\ u.shown = t.shown
          /\ \A sh \in [Docs -> Nat] : Consistent(Resumed(w), sh) => Consistent(u, sh)
      BY <1>1, <1>4, <1>6, <2>1, FlushedKeeps
    <2>4. ASSUME NEW sh \in [Docs -> Nat], Consistent(t, sh)
          PROVE  Consistent(Resumed(w), sh)
      <3>1. ASSUME NEW d \in Docs, Resumed(w).server[d] > sh[d]
            PROVE  Remembered(Resumed(w), d)
        BY <1>2, <1>4, <1>5, <2>1, <2>2, <2>4, <3>1 DEF Remembered
      <3> QED  BY <1>2, <1>4, <2>1, <2>2, <2>4, <3>1 DEF Consistent
    <2> QED  BY <2>3, <2>4 DEF u
  <1>7. CASE ~again
    <2>1. u = w
      BY <1>1, <1>7
    <2>2. ASSUME NEW sh \in [Docs -> Nat], Consistent(t, sh)
          PROVE  Consistent(w, sh)
      <3>1. ASSUME NEW d \in Docs, w.server[d] > sh[d]
            PROVE  Remembered(w, d)
        <4>1. d \in pending /\ ~OldAnswer(t, d)
          BY <1>4, <1>5, <1>7, <2>2, <3>1
        <4>2. OldAnswer(w, d) = OldAnswer(t, d)
          BY <1>4 DEF OldAnswer
        <4> QED  BY <4>1, <4>2, <1>2, <1>4 DEF Remembered
      <3> QED  BY <1>2, <1>4, <2>2, <3>1 DEF Consistent
    <2> QED  BY <1>4, <2>1, <2>2 DEF u
  <1> QED  BY <1>6, <1>7

(* A save changes what blocks the tab: one that starts or ends a wait, and   *)
(* one whose end frees the tab queues the flush.                             *)
LEMMA SaveOverKeeps ==
  ASSUME NEW t \in Tab, NEW d \in Docs, NEW next \in Saving
  PROVE  LET u == SaveOver(t, d, next) IN
         /\ u \in Tab /\ ~u.scheduled
         /\ u.server = t.server /\ u.observed = t.observed /\ u.shown = t.shown
         /\ \A sh \in [Docs -> Nat] : Consistent(t, sh) => Consistent(u, sh)
  <1> DEFINE w == [t EXCEPT !.save[d] = next]
             r == IF WritesPending(w) THEN w ELSE Resumed(w)
             u == SaveOver(t, d, next)
  <1>1. u = Flushed(r)
    BY DEF SaveOver
  <1>2. /\ w \in Tab /\ w.save = [t.save EXCEPT ![d] = next]
        /\ w.server = t.server /\ w.observed = t.observed /\ w.shown = t.shown
        /\ w.pending = t.pending /\ w.scheduled = t.scheduled /\ w.flush = t.flush
        /\ w.load = t.load /\ w.busy = t.busy
    BY DEF Tab
  <1> HIDE DEF w
  <1>3. /\ r \in Tab
        /\ r.server = t.server /\ r.observed = t.observed /\ r.shown = t.shown
        /\ r.pending = t.pending /\ r.flush = t.flush /\ r.load = t.load
        /\ Due(r)
    <2>1. CASE WritesPending(w)
      BY <1>2, <2>1 DEF Due, Blocked
    <2>2. CASE ~WritesPending(w)
      BY <1>2, <2>2 DEF Due, Resumed, Tab
    <2> QED  BY <2>1, <2>2
  <1> HIDE DEF r, u
  <1>4. ASSUME NEW sh \in [Docs -> Nat], Consistent(t, sh)
        PROVE  Consistent(r, sh)
    <2>1. \A e \in Docs : r.observed[e] <= sh[e] /\ (OldAnswer(r, e) => OldAnswer(t, e))
      BY <1>3, <1>4 DEF Consistent, OldAnswer
    <2> QED  BY <1>3, <1>4, <2>1, QuietKeeps
  <1>5. /\ u \in Tab /\ ~u.scheduled
        /\ u.server = r.server /\ u.observed = r.observed /\ u.shown = r.shown
        /\ \A sh \in [Docs -> Nat] : Consistent(r, sh) => Consistent(u, sh)
    BY <1>1, <1>3, FlushedKeeps
  <1> QED  BY <1>3, <1>4, <1>5 DEF u
-----------------------------------------------------------------------------
(* The frames of a chunk, one after the other.                               *)

(* A set of numbers that is not empty has a least one: the induction over   *)
(* the frames of a chunk.                                                    *)
LEMMA LeastNumber ==
  ASSUME NEW S \in SUBSET Nat, S # {}
  PROVE  \E m \in S : \A k \in S : m <= k
  <1>1. \E m \in S : \A k \in S : ~(<<k, m>> \in OpToRel(<, Nat))
    BY NatLessThanWellFounded, WFMin
  <1>2. PICK m \in S : \A k \in S : ~(<<k, m>> \in OpToRel(<, Nat))
    BY <1>1
  <1>3. ASSUME NEW k \in S PROVE m <= k
    <2>1. ~(k < m)
      BY <1>2 DEF OpToRel
    <2> QED  BY <2>1
  <1> QED  BY <1>3

FrameBody(t, f, n) == [i \in 0..n |-> IF i = 0 THEN t ELSE Accepted(f[i - 1], stream.frames[i])]

(* The memories after each of the first n frames exist.                      *)
LEMMA FoldExists ==
  ASSUME NEW t, NEW n \in Nat
  PROVE  \E f : f = FrameBody(t, f, n)
  <1> DEFINE S == {m \in Nat : ~(\E f : f = FrameBody(t, f, m))}
  <1>1. SUFFICES S = {}
    BY <1>1
  <1>2. SUFFICES ASSUME S # {} PROVE FALSE
    BY <1>2
  <1>3. PICK m \in S : \A k \in S : m <= k
    <2> HIDE DEF S
    <2>1. S \in SUBSET Nat  BY DEF S
    <2> QED  BY <1>2, <2>1, LeastNumber
  <1>4. m \in Nat /\ ~(\E f : f = FrameBody(t, f, m))
    BY <1>3
  <1>5. CASE m = 0
    <2> DEFINE f == [i \in 0..m |-> t]
    <2>1. f = FrameBody(t, f, m)
      BY <1>5 DEF FrameBody
    <2> QED  BY <2>1, <1>4
  <1>6. CASE m # 0
    <2>1. m - 1 \in Nat /\ m - 1 \notin S
      BY <1>3, <1>4, <1>6
    <2>2. PICK f : f = FrameBody(t, f, m - 1)
      BY <2>1
    <2> DEFINE g == [i \in 0..m |-> IF i = m THEN Accepted(f[m - 1], stream.frames[m]) ELSE f[i]]
    <2>3. \A i \in 0..(m - 1) : f[i] = IF i = 0 THEN t ELSE Accepted(f[i - 1], stream.frames[i])
      BY <2>2 DEF FrameBody
    <2>4. ASSUME NEW i \in 0..m
          PROVE  g[i] = IF i = 0 THEN t ELSE Accepted(g[i - 1], stream.frames[i])
      <3>1. CASE i = 0
        BY <3>1, <1>6, <2>3, <1>4
      <3>2. CASE i # 0 /\ i # m
        <4>1. i - 1 \in 0..m /\ i - 1 # m /\ i \in 0..(m - 1)
          BY <3>2, <1>4
        <4>2. g[i] = f[i] /\ g[i - 1] = f[i - 1]
          BY <3>2, <4>1
        <4> QED  BY <3>2, <4>1, <4>2, <2>3
      <3>3. CASE i = m
        <4>1. m - 1 \in 0..m /\ m - 1 # m
          BY <1>4, <1>6
        <4>2. g[m - 1] = f[m - 1] /\ g[m] = Accepted(f[m - 1], stream.frames[m])
          BY <4>1
        <4> QED  BY <3>3, <4>2, <1>6
      <3> QED  BY <3>1, <3>2, <3>3
    <2>5. g = FrameBody(t, g, m)
      <3>1. g = [i \in 0..m |-> g[i]]
        OBVIOUS
      <3> HIDE DEF g
      <3> QED  BY <3>1, <2>4 DEF FrameBody
    <2> QED  BY <2>5, <1>4
  <1> QED  BY <1>5, <1>6

(* A memory a tab can come to from t without loads or saves.                 *)
Keeps(t, u) ==
  /\ u \in Tab /\ u.shown = t.shown
  /\ \A d \in Docs : u.server[d] <= version[d]
  /\ \A sh \in [Docs -> Nat] : Consistent(t, sh) => Consistent(u, sh)

(* The frames of a chunk leave what each of them leaves.                     *)
LEMMA FramesKeep ==
  ASSUME NEW t \in Tab, AnnouncedOK, \A d \in Docs : t.server[d] <= version[d],
         NEW n \in 1..Len(stream.frames)
  PROVE  Keeps(t, AfterFrames(t, n))
  <1> DEFINE after == CHOOSE f : f = FrameBody(t, f, n)
  <1>0. n \in Nat /\ Len(stream.frames) \in Nat /\ \A i \in 1..n : i \in DOMAIN stream.frames
    BY DEF AnnouncedOK, Stream
  <1>1. after = FrameBody(t, after, n)
    BY <1>0, FoldExists
  <1>2. AfterFrames(t, n) = after[n]
    BY DEF AfterFrames, FrameBody
  <1> HIDE DEF after
  <1>3. after[0] = t /\ \A i \in 1..n : after[i] = Accepted(after[i - 1], stream.frames[i])
    BY <1>0, <1>1 DEF FrameBody
  <1> DEFINE S == {i \in 0..n : ~Keeps(t, after[i])}
  <1>4. SUFFICES S = {}
    BY <1>0, <1>2, <1>4
  <1>5. SUFFICES ASSUME S # {} PROVE FALSE
    BY <1>5
  <1>6. PICK m \in S : \A k \in S : m <= k
    <2>1. S \in SUBSET Nat
      BY <1>0
    <2> HIDE DEF S
    <2> QED  BY <1>5, <2>1, LeastNumber
  <1>7. m # 0
    BY <1>3, <1>6 DEF Keeps
  <1>8. m \in 1..n /\ m - 1 \in 0..n /\ m - 1 \notin S
    BY <1>0, <1>6, <1>7
  <1>9. Keeps(t, after[m - 1]) /\ ~Keeps(t, after[m])
    BY <1>6, <1>8
  <1> DEFINE w == after[m - 1]
             frame == stream.frames[m]
  <1>10. /\ frame \in AnyFrame /\ Committed(frame.versions)
    BY <1>0, <1>8, ElementOfSeq DEF AnnouncedOK, Stream
  <1>11. after[m] = Accepted(w, frame)
    BY <1>3, <1>8
  <1>12. w \in Tab /\ w.shown = t.shown /\ (\A d \in Docs : w.server[d] <= version[d])
         /\ \A sh \in [Docs -> Nat] : Consistent(t, sh) => Consistent(w, sh)
    BY <1>9 DEF Keeps
  <1> HIDE DEF w, frame
  <1>13. Keeps(t, Accepted(w, frame))
    <2>1. /\ Accepted(w, frame) \in Tab
          /\ Accepted(w, frame).shown = w.shown
          /\ \A d \in Docs : Accepted(w, frame).server[d] =
                               IF d \in DOMAIN frame.versions THEN frame.versions[d] ELSE w.server[d]
          /\ \A sh \in [Docs -> Nat] : Consistent(w, sh) => Consistent(Accepted(w, frame), sh)
      BY <1>10, <1>12, AcceptedKeeps
    <2>2. \A d \in Docs : Accepted(w, frame).server[d] <= version[d]
      BY <2>1, <1>10, <1>12 DEF Committed
    <2> QED  BY <2>1, <2>2, <1>12 DEF Keeps
  <1> QED  BY <1>9, <1>11, <1>13
-----------------------------------------------------------------------------
(* The tasks of the tab.                                                     *)

(* What a task makes of the memory t when nothing is announced in it.        *)
Moves(t, u) ==
  /\ u \in Tab /\ ~u.scheduled /\ u.server = t.server
  /\ \A d \in Docs : u.shown[d] >= t.shown[d]
  /\ Consistent(t, t.shown) => Consistent(u, u.shown)

(* The answer of a load.  When it is old, another flush is on or the tab is  *)
(* blocked, so that no flush takes it for an answer of its own.              *)
LEMMA ReceivedMoves ==
  ASSUME NEW t \in Tab, ~t.scheduled, NEW d \in Docs, t.load[d].at = "answered"
  PROVE  Moves(t, Received(t, d, t.load[d].got))
  <1> DEFINE v == t.load[d].got
             new == [t.shown EXCEPT ![d] = Later(t.shown[d], v)]
             o == Observed(t, d, v)
             f == Flushed(o)
             a == Applied(f, d, v)
             u == LoadEnded(a, d, TRUE)
  <1>0. Received(t, d, v) = u
    BY DEF Received
  <1>1. v \in Nat /\ t.shown \in [Docs -> Nat] /\ TRUE \in BOOLEAN
    BY DEF Tab, Load
  <1>2. Later(t.shown[d], v) \in Nat /\ Later(t.shown[d], v) >= t.shown[d] /\ Later(t.shown[d], v) >= v
    BY <1>1 DEF Later
  <1>3. /\ new \in [Docs -> Nat] /\ new[d] >= t.shown[d] /\ new[d] >= v
        /\ \A e \in Docs : new[e] >= t.shown[e]
    BY <1>1, <1>2
  <1>4. /\ o \in Tab /\ o.server = t.server /\ o.shown = t.shown
        /\ o.save = t.save /\ o.busy = t.busy /\ o.flush.on = t.flush.on
        /\ Consistent(t, t.shown) => Consistent(o, new) /\ (o.server[d] > new[d] => d \in o.pending)
    BY <1>1, ObservedKeeps
  <1> HIDE DEF o, new
  <1>5. /\ f \in Tab /\ ~f.scheduled /\ f.server = o.server /\ f.shown = o.shown
        /\ o.flush.on \/ Blocked(o) => f.pending = o.pending
        /\ Consistent(o, new) => Consistent(f, new)
    BY <1>3, <1>4, FlushedKeeps
  <1> HIDE DEF f
  <1>6. /\ a \in Tab /\ ~a.scheduled /\ a.server = f.server /\ a.pending = f.pending /\ a.shown = new
        /\ Consistent(f, new) => Consistent(a, new)
    BY <1>1, <1>4, <1>5, AppliedKeeps DEF new
  <1> HIDE DEF a
  <1>7. /\ u \in Tab /\ ~u.scheduled /\ u.server = a.server /\ u.shown = a.shown
        /\ Consistent(a, new) /\ (a.server[d] > new[d] => d \in a.pending) => Consistent(u, new)
    BY <1>1, <1>3, <1>6, LoadEndedKeeps
  <1> HIDE DEF u
  <1>8. ASSUME Consistent(t, t.shown)
        PROVE  Consistent(u, u.shown)
    <2>1. ASSUME t.server[d] > new[d]
          PROVE  t.flush.on \/ Blocked(t)
      <3>1. t.server[d] > t.shown[d] /\ t.server[d] > v
        BY <1>1, <1>3, <2>1 DEF Tab
      <3>2. OldAnswer(t, d) /\ Remembered(t, d)
        BY <1>8, <3>1 DEF OldAnswer, Consistent
      <3> QED  BY <3>2 DEF Remembered
    <2>2. t.flush.on \/ Blocked(t) => o.flush.on \/ Blocked(o)
      BY <1>4 DEF Blocked, WritesPending
    <2>3. a.server[d] > new[d] => d \in a.pending
      BY <1>4, <1>5, <1>6, <1>8, <2>1, <2>2
    <2> QED  BY <1>4, <1>5, <1>6, <1>7, <1>8, <2>3
  <1>9. \A e \in Docs : u.shown[e] >= t.shown[e]
    BY <1>3, <1>6, <1>7
  <1> QED  BY <1>0, <1>4, <1>5, <1>6, <1>7, <1>8, <1>9 DEF Moves

(* The answer of a save.                                                     *)
LEMMA StoredMoves ==
  ASSUME NEW t \in Tab, ~t.scheduled, NEW d \in Docs, NEW v \in Nat
  PROVE  Moves(t, Applied(SaveOver(Observed(t, d, v), d, Idle), d, v))
  <1> DEFINE new == [t.shown EXCEPT ![d] = Later(t.shown[d], v)]
             o == Observed(t, d, v)
             f == SaveOver(o, d, Idle)
             u == Applied(f, d, v)
  <1>0. Applied(SaveOver(Observed(t, d, v), d, Idle), d, v) = u
    OBVIOUS
  <1>1. t.shown \in [Docs -> Nat] /\ Idle \in Saving
    BY DEF Tab, Saving, Idle, Unknown
  <1>2. Later(t.shown[d], v) \in Nat
    BY <1>1 DEF Later
  <1>3. new \in [Docs -> Nat]
    BY <1>1, <1>2
  <1>4. /\ o \in Tab /\ o.server = t.server /\ o.shown = t.shown
        /\ Consistent(t, t.shown) => Consistent(o, new)
    BY <1>1, ObservedKeeps
  <1> HIDE DEF o, new
  <1>5. /\ f \in Tab /\ ~f.scheduled /\ f.server = o.server /\ f.shown = o.shown
        /\ Consistent(o, new) => Consistent(f, new)
    BY <1>1, <1>3, <1>4, SaveOverKeeps
  <1> HIDE DEF f
  <1>6. /\ u \in Tab /\ ~u.scheduled /\ u.server = f.server
        /\ \A e \in Docs : u.shown[e] >= f.shown[e]
        /\ Consistent(f, new) => Consistent(u, u.shown)
    BY <1>4, <1>5, AppliedKeeps DEF new
  <1> HIDE DEF u
  <1> QED  BY <1>0, <1>4, <1>5, <1>6 DEF Moves

(* The end of a wait that does not block the tab.                            *)
LEMMA UnblockedMoves ==
  ASSUME NEW t \in Tab, NEW u \in Tab, t.scheduled = u.scheduled, u.server = t.server,
         u.observed = t.observed, u.shown = t.shown, u.pending = t.pending, u.flush = t.flush,
         \A d \in Docs : OldAnswer(u, d) => OldAnswer(t, d),
         Blocked(t) => Blocked(u)
  PROVE  \A sh \in [Docs -> Nat] : Consistent(t, sh) => Consistent(u, sh)
  <1> SUFFICES ASSUME NEW sh \in [Docs -> Nat], Consistent(t, sh)
               PROVE  Consistent(u, sh)
    OBVIOUS
  <1>1. Due(t) => Due(u)
    BY DEF Due
  <1>2. \A d \in Docs : u.observed[d] <= sh[d]
    BY DEF Consistent
  <1> QED  BY <1>1, <1>2, QuietKeeps

Waiting == {"sent", "stored", "refused"}   \* a save that blocks the tab

(* A save's record changes and frees nothing.                                *)
LEMMA SavingKeeps ==
  ASSUME NEW t \in Tab, NEW d \in Docs, NEW x \in Saving,
         x.at \in Waiting \/ t.save[d].at \notin Waiting
  PROVE  LET u == [t EXCEPT !.save[d] = x] IN
         /\ u \in Tab /\ u.scheduled = t.scheduled /\ u.server = t.server /\ u.shown = t.shown
         /\ \A sh \in [Docs -> Nat] : Consistent(t, sh) => Consistent(u, sh)
  <1> DEFINE sv == [t.save EXCEPT ![d] = x]
             u == [t EXCEPT !.save[d] = x]
  <1>1. sv \in [Docs -> Saving] /\ sv[d] = x /\ \A e \in Docs \ {d} : sv[e] = t.save[e]
    BY DEF Tab
  <1>2. u = [t EXCEPT !.save = sv]
    BY DEF Tab
  <1> HIDE DEF sv, u
  <1>3. /\ u \in Tab /\ u.save = sv /\ t.scheduled = u.scheduled /\ u.server = t.server
        /\ u.observed = t.observed /\ u.shown = t.shown /\ u.pending = t.pending
        /\ u.flush = t.flush /\ u.load = t.load /\ u.busy = t.busy
    BY <1>1, <1>2 DEF Tab
  <1>4. \A e \in Docs : OldAnswer(u, e) => OldAnswer(t, e)
    BY <1>3 DEF OldAnswer
  <1>5. Blocked(t) => Blocked(u)
    BY <1>1, <1>3 DEF Blocked, WritesPending, Waiting
  <1>6. \A sh \in [Docs -> Nat] : Consistent(t, sh) => Consistent(u, sh)
    BY <1>3, <1>4, <1>5, UnblockedMoves
  <1> QED  BY <1>3, <1>6 DEF u

(* The answer of the commerce module's own reread.                           *)
LEMMA RereadMoves ==
  ASSUME NEW t \in Tab, ~t.scheduled, NEW d \in Docs, NEW v \in Nat, t.save[d].at = "reads"
  PROVE  Moves(t, [Applied(Flushed(Observed(t, d, v)), d, v) EXCEPT !.save[d] = Idle])
  <1> DEFINE new == [t.shown EXCEPT ![d] = Later(t.shown[d], v)]
             o == Observed(t, d, v)
             f == Flushed(o)
             a == Applied(f, d, v)
             u == [a EXCEPT !.save[d] = Idle]
  <1>0. [Applied(Flushed(Observed(t, d, v)), d, v) EXCEPT !.save[d] = Idle] = u
    OBVIOUS
  <1>1. t.shown \in [Docs -> Nat] /\ Idle \in Saving
    BY DEF Tab, Saving, Idle, Unknown
  <1>2. Later(t.shown[d], v) \in Nat
    BY <1>1 DEF Later
  <1>3. new \in [Docs -> Nat]
    BY <1>1, <1>2
  <1>4. /\ o \in Tab /\ o.server = t.server /\ o.shown = t.shown /\ o.save = t.save
        /\ Consistent(t, t.shown) => Consistent(o, new)
    BY <1>1, ObservedKeeps
  <1> HIDE DEF o, new
  <1>5. /\ f \in Tab /\ ~f.scheduled /\ f.server = o.server /\ f.shown = o.shown /\ f.save = o.save
        /\ Consistent(o, new) => Consistent(f, new)
    BY <1>3, <1>4, FlushedKeeps
  <1> HIDE DEF f
  <1>6. /\ a \in Tab /\ ~a.scheduled /\ a.server = f.server /\ a.save = f.save
        /\ \A e \in Docs : a.shown[e] >= f.shown[e]
        /\ Consistent(f, new) => Consistent(a, a.shown)
    BY <1>4, <1>5, AppliedKeeps DEF new
  <1> HIDE DEF a
  <1>7. a \in Tab /\ a.save[d].at \notin Waiting /\ a.shown \in [Docs -> Nat]
    BY <1>4, <1>5, <1>6 DEF Waiting, Tab
  <1>8. /\ u \in Tab /\ u.scheduled = a.scheduled /\ u.server = a.server /\ u.shown = a.shown
        /\ Consistent(a, a.shown) => Consistent(u, a.shown)
    BY <1>1, <1>7, SavingKeeps
  <1> HIDE DEF u
  <1> QED  BY <1>0, <1>4, <1>5, <1>6, <1>8 DEF Moves

(* A task that ends with the queued flush may have freed the tab.            *)
LEMMA FreedMoves ==
  ASSUME NEW t \in Tab, NEW w \in Tab,
         w.server = t.server, w.observed = t.observed, w.shown = t.shown,
         w.pending = t.pending, w.flush = t.flush, w.load = t.load
  PROVE  Moves(t, Flushed(Resumed(w)))
  <1> DEFINE r == Resumed(w)
             u == Flushed(r)
  <1>1. /\ r \in Tab /\ r.scheduled
        /\ r.server = t.server /\ r.observed = t.observed /\ r.shown = t.shown
        /\ r.pending = t.pending /\ r.flush = t.flush /\ r.load = t.load
    BY DEF Resumed, Tab
  <1> HIDE DEF r
  <1>2. t.shown \in [Docs -> Nat]
    BY DEF Tab
  <1>3. ASSUME Consistent(t, t.shown)
        PROVE  Consistent(r, t.shown)
    <2>1. Due(r) /\ \A d \in Docs : r.observed[d] <= t.shown[d] /\ (OldAnswer(r, d) => OldAnswer(t, d))
      BY <1>1, <1>3 DEF Due, OldAnswer, Consistent
    <2> QED  BY <1>1, <1>2, <1>3, <2>1, QuietKeeps
  <1>4. /\ u \in Tab /\ ~u.scheduled /\ u.server = r.server /\ u.shown = r.shown
        /\ Consistent(r, t.shown) => Consistent(u, t.shown)
    BY <1>1, <1>2, FlushedKeeps
  <1> HIDE DEF u
  <1>5. \A d \in Docs : u.shown[d] >= t.shown[d]
    BY <1>1, <1>2, <1>4
  <1>6. Moves(t, u)
    BY <1>1, <1>3, <1>4, <1>5 DEF Moves
  <1> QED  BY <1>6 DEF u, r

(* A task that shows nothing else.                                           *)
LEMMA SameMoves ==
  ASSUME NEW t \in Tab, NEW u \in Tab, ~u.scheduled, u.server = t.server, u.shown = t.shown,
         \A sh \in [Docs -> Nat] : Consistent(t, sh) => Consistent(u, sh)
  PROVE  Moves(t, u)
  <1>1. t.shown \in [Docs -> Nat]
    BY DEF Tab
  <1> QED  BY <1>1 DEF Moves
(* A read is served with the document as it is, which nothing announced can  *)
(* be newer than.                                                            *)
LEMMA ServeMoves ==
  ASSUME IInv, NEW d \in Docs, Serve(d)
  PROVE  Moves(tab, tab')
  <1> DEFINE x == [at |-> "answered", got |-> version[d]]
             ld == [tab.load EXCEPT ![d] = x]
             u == [tab EXCEPT !.load[d] = x]
  <1>1. tab' = u /\ tab \in Tab /\ ~tab.scheduled
    BY DEF Serve, IInv
  <1>2. version[d] \in Nat /\ tab.server[d] \in Nat /\ tab.server[d] <= version[d]
    BY DEF IInv, AnnouncedOK, Committed, Tab
  <1>3. x \in Load /\ x.got = version[d]
    BY <1>2 DEF Load
  <1> HIDE DEF x
  <1>4. ld \in [Docs -> Load] /\ ld[d] = x /\ \A e \in Docs \ {d} : ld[e] = tab.load[e]
    BY <1>1, <1>3 DEF Tab
  <1>5. u = [tab EXCEPT !.load = ld]
    BY <1>1 DEF Tab
  <1> HIDE DEF ld, u
  <1>6. /\ u \in Tab /\ u.load = ld /\ ~u.scheduled /\ tab.scheduled = u.scheduled
        /\ u.server = tab.server /\ u.observed = tab.observed /\ u.shown = tab.shown
        /\ u.pending = tab.pending /\ u.flush = tab.flush /\ u.save = tab.save /\ u.busy = tab.busy
    BY <1>1, <1>4, <1>5 DEF Tab
  <1>7. \A e \in Docs : OldAnswer(u, e) => OldAnswer(tab, e)
    BY <1>2, <1>3, <1>4, <1>6 DEF OldAnswer
  <1>8. Blocked(tab) => Blocked(u)
    BY <1>6 DEF Blocked, WritesPending
  <1>9. \A sh \in [Docs -> Nat] : Consistent(tab, sh) => Consistent(u, sh)
    BY <1>1, <1>6, <1>7, <1>8, UnblockedMoves
  <1> QED  BY <1>1, <1>6, <1>9, SameMoves

(* What a document's loads and saves make of the memory.                     *)
LEMMA RequestMoves ==
  ASSUME IInv, NEW d \in Docs,
         Receive(d) \/ LoadFails(d) \/ Save(d) \/ Stored(d) \/ Refused(d) \/ SaveLost(d)
  PROVE  Moves(tab, tab')
  <1>0. /\ tab \in Tab /\ ~tab.scheduled /\ tab.shown \in [Docs -> Nat]
        /\ tab.load[d] \in Load /\ tab.save[d] \in Saving /\ tab.shown[d] \in Nat
        /\ Idle \in Saving /\ FALSE \in BOOLEAN
    BY DEF IInv, Tab, Saving, Idle, Unknown
  <1>1. CASE Receive(d)
    BY <1>0, <1>1, ReceivedMoves DEF Receive
  <1>2. CASE LoadFails(d)
    <2>1. tab' = LoadEnded(tab, d, FALSE)
      BY <1>2 DEF LoadFails
    <2>2. /\ tab' \in Tab /\ tab'.server = tab.server /\ tab'.shown = tab.shown
          /\ tab'.scheduled = tab.scheduled
          /\ \A sh \in [Docs -> Nat] : Consistent(tab, sh) => Consistent(tab', sh)
      BY <1>0, <2>1, LoadEndedKeeps
    <2> QED  BY <1>0, <2>2, SameMoves
  <1>3. CASE Save(d)
    <2> DEFINE x == [at |-> "sent", got |-> tab.shown[d]]
    <2>1. tab' = [tab EXCEPT !.save[d] = x] /\ x \in Saving /\ x.at \in Waiting
      BY <1>0, <1>3 DEF Save, Saving, Waiting
    <2> HIDE DEF x
    <2>2. /\ tab' \in Tab /\ tab'.scheduled = tab.scheduled
          /\ tab'.server = tab.server /\ tab'.shown = tab.shown
          /\ \A sh \in [Docs -> Nat] : Consistent(tab, sh) => Consistent(tab', sh)
      BY <1>0, <2>1, SavingKeeps
    <2> QED  BY <1>0, <2>2, SameMoves
  <1>4. CASE Stored(d)
    <2>1. tab.save[d].got \in Nat
      BY <1>0 DEF Saving
    <2> QED  BY <1>0, <1>4, <2>1, StoredMoves DEF Stored
  <1>5. CASE Refused(d)
    <2> DEFINE x == Reread(d)
               w == SaveOver(tab, d, x)
               ds == Docs \cap {"inventory"} \cap {d}
    <2>1. x \in Saving /\ ds \in SUBSET Docs
      BY DEF Reread, Saving, Unknown
    <2>2. tab' = Loading(w, ds)
      BY <1>5 DEF Refused
    <2> HIDE DEF x, ds
    <2>3. /\ w \in Tab /\ ~w.scheduled /\ w.server = tab.server /\ w.shown = tab.shown
          /\ \A sh \in [Docs -> Nat] : Consistent(tab, sh) => Consistent(w, sh)
      BY <1>0, <2>1, SaveOverKeeps
    <2> HIDE DEF w
    <2>4. /\ tab' \in Tab /\ ~tab'.scheduled /\ tab'.server = tab.server /\ tab'.shown = tab.shown
          /\ \A sh \in [Docs -> Nat] : Consistent(w, sh) => Consistent(tab', sh)
      BY <2>1, <2>2, <2>3, LoadingKeeps
    <2> QED  BY <1>0, <2>3, <2>4, SameMoves
  <1>6. CASE SaveLost(d)
    <2>1. CASE WritesPending(tab)
      <3>1. tab' = SaveOver(tab, d, Idle)
        BY <1>6, <2>1 DEF SaveLost
      <3>2. /\ tab' \in Tab /\ ~tab'.scheduled /\ tab'.server = tab.server /\ tab'.shown = tab.shown
            /\ \A sh \in [Docs -> Nat] : Consistent(tab, sh) => Consistent(tab', sh)
        BY <1>0, <3>1, SaveOverKeeps
      <3> QED  BY <1>0, <3>2, SameMoves
    <2>2. CASE ~WritesPending(tab)
      <3>1. tab' = [tab EXCEPT !.save[d] = Idle]
        BY <1>6, <2>2 DEF SaveLost
      <3>2. tab.save[d].at \notin Waiting
        BY <2>2 DEF WritesPending, Waiting
      <3>3. /\ tab' \in Tab /\ tab'.scheduled = tab.scheduled
            /\ tab'.server = tab.server /\ tab'.shown = tab.shown
            /\ \A sh \in [Docs -> Nat] : Consistent(tab, sh) => Consistent(tab', sh)
        BY <1>0, <3>1, <3>2, SavingKeeps
      <3> QED  BY <1>0, <3>3, SameMoves
    <2> QED  BY <2>1, <2>2
  <1> QED  BY <1>1, <1>2, <1>3, <1>4, <1>5, <1>6

(* What the flush, the user and the commerce module's reread make of it.     *)
LEMMA PageMoves ==
  ASSUME IInv,
         FlushEnds \/ RereadServed \/ RereadEnds \/ Edit \/ StopEditing \/ Render \/ OpenOrder
           \/ ClearQueries
  PROVE  Moves(tab, tab')
  <1>0. /\ tab \in Tab /\ ~tab.scheduled /\ tab.shown \in [Docs -> Nat] /\ "commerce" \in Docs
        /\ version["commerce"] \in Nat /\ tab.save["commerce"] \in Saving
    BY DEF IInv, Tab, Docs, AnnouncedOK
  <1>1. CASE FlushEnds
    <2>1. /\ tab' \in Tab /\ ~tab'.scheduled /\ tab'.server = tab.server /\ tab'.shown = tab.shown
          /\ \A sh \in [Docs -> Nat] : Consistent(tab, sh) => Consistent(tab', sh)
      BY <1>0, <1>1, FlushOverKeeps DEF FlushEnds
    <2> QED  BY <1>0, <2>1, SameMoves
  <1>2. CASE RereadServed
    <2> DEFINE x == [at |-> "reads", got |-> version["commerce"]]
    <2>1. /\ tab' = [tab EXCEPT !.save["commerce"] = x] /\ x \in Saving
          /\ tab.save["commerce"].at \notin Waiting
      BY <1>0, <1>2 DEF RereadServed, Saving, Waiting
    <2> HIDE DEF x
    <2>2. /\ tab' \in Tab /\ tab'.scheduled = tab.scheduled
          /\ tab'.server = tab.server /\ tab'.shown = tab.shown
          /\ \A sh \in [Docs -> Nat] : Consistent(tab, sh) => Consistent(tab', sh)
      BY <1>0, <2>1, SavingKeeps
    <2> QED  BY <1>0, <2>2, SameMoves
  <1>3. CASE RereadEnds
    <2>1. tab.save["commerce"].got \in Nat
      BY <1>0 DEF Saving
    <2> QED  BY <1>0, <1>3, <2>1, RereadMoves DEF RereadEnds
  <1>4. CASE Edit
    <2>1. /\ tab' \in Tab /\ tab'.scheduled = tab.scheduled /\ tab'.server = tab.server
          /\ tab'.observed = tab.observed /\ tab'.shown = tab.shown /\ tab'.pending = tab.pending
          /\ tab'.flush = tab.flush /\ tab'.load = tab.load /\ tab'.busy
      BY <1>0, <1>4 DEF Edit, Tab
    <2>2. /\ \A d \in Docs : OldAnswer(tab', d) => OldAnswer(tab, d)
          /\ Blocked(tab) => Blocked(tab')
      BY <2>1 DEF OldAnswer, Blocked
    <2>3. \A sh \in [Docs -> Nat] : Consistent(tab, sh) => Consistent(tab', sh)
      BY <1>0, <2>1, <2>2, UnblockedMoves
    <2> QED  BY <1>0, <2>1, <2>3, SameMoves
  <1>5. CASE StopEditing
    <2> DEFINE w == [tab EXCEPT !.busy = FALSE]
    <2>1. /\ w \in Tab /\ w.server = tab.server /\ w.observed = tab.observed /\ w.shown = tab.shown
          /\ w.pending = tab.pending /\ w.flush = tab.flush /\ w.load = tab.load
      BY <1>0 DEF Tab
    <2>2. tab' = Flushed(Resumed(w))
      BY <1>5 DEF StopEditing
    <2> HIDE DEF w
    <2> QED  BY <1>0, <2>1, <2>2, FreedMoves
  <1>6. CASE Render
    BY <1>0, <1>6, FreedMoves DEF Render
  <1>7. CASE OpenOrder
    <2>1. tab' = Loading(tab, {"inventory"}) /\ {"inventory"} \in SUBSET Docs
      BY <1>7 DEF OpenOrder, Docs
    <2>2. /\ tab' \in Tab /\ tab'.scheduled = tab.scheduled
          /\ tab'.server = tab.server /\ tab'.shown = tab.shown
          /\ \A sh \in [Docs -> Nat] : Consistent(tab, sh) => Consistent(tab', sh)
      BY <1>0, <2>1, LoadingKeeps
    <2> QED  BY <1>0, <2>2, SameMoves
  <1>8. CASE ClearQueries
    <2> DEFINE none == [d \in Docs |-> Unknown]
    <2>1. none \in [Docs -> Nat] /\ \A d \in Docs : none[d] = 0
      BY DEF Unknown
    <2>2. tab' = [tab EXCEPT !.observed = none]
      BY <1>8 DEF ClearQueries
    <2> HIDE DEF none
    <2>3. /\ tab' \in Tab /\ tab'.scheduled = tab.scheduled /\ tab'.server = tab.server
          /\ tab'.observed = none /\ tab'.shown = tab.shown /\ tab'.pending = tab.pending
          /\ tab'.flush = tab.flush /\ tab'.load = tab.load /\ tab'.busy = tab.busy
          /\ tab'.save = tab.save
      BY <1>0, <2>1, <2>2 DEF Tab
    <2>4. ASSUME NEW sh \in [Docs -> Nat], Consistent(tab, sh)
          PROVE  Consistent(tab', sh)
      <3>1. \A d \in Docs : tab'.observed[d] <= sh[d]
        BY <2>1, <2>3
      <3>2. \A d \in Docs : OldAnswer(tab', d) => OldAnswer(tab, d)
        BY <2>3 DEF OldAnswer
      <3>3. Due(tab) => Due(tab')
        BY <2>3 DEF Due, Blocked, WritesPending
      <3> QED  BY <1>0, <2>3, <2>4, <3>1, <3>2, <3>3, QuietKeeps
    <2> QED  BY <1>0, <2>3, <2>4, SameMoves
  <1> QED  BY <1>1, <1>2, <1>3, <1>4, <1>5, <1>6, <1>7, <1>8
-----------------------------------------------------------------------------
(* The steps of the system.                                                  *)

(* A frame speaks of documents and versions.                                 *)
LEMMA FrameVersions ==
  ASSUME NEW frame \in AnyFrame
  PROVE  DOMAIN frame.versions \subseteq Docs /\ \A d \in DOMAIN frame.versions : frame.versions[d] \in Nat
  BY DEF AnyFrame, Docs

(* Versions only grow, so that what was announced stays stored.              *)
LEMMA StaysAnnounced ==
  ASSUME IInv, version' \in [Docs -> Nat \ {0}], \A d \in Docs : version[d] <= version'[d],
         stream' = stream, tab'.server = tab.server
  PROVE  AnnouncedOK'
  <1>1. ASSUME NEW i \in DOMAIN stream.frames, NEW d \in DOMAIN stream.frames[i].versions
        PROVE  stream.frames[i].versions[d] <= version'[d]
    <2>1. stream.frames[i] \in AnyFrame
      BY ElementOfSeq DEF IInv, AnnouncedOK, Stream
    <2>2. d \in Docs /\ stream.frames[i].versions[d] \in Nat
      BY <2>1, FrameVersions
    <2>3. stream.frames[i].versions[d] <= version[d] /\ version[d] \in Nat
      BY <2>2 DEF IInv, AnnouncedOK, Committed
    <2> QED  BY <2>2, <2>3
  <1>2. ASSUME NEW d \in Docs
        PROVE  tab.server[d] <= version'[d]
    <2>1. tab.server[d] \in Nat /\ version[d] \in Nat /\ version'[d] \in Nat /\ tab.server[d] <= version[d]
      BY DEF IInv, AnnouncedOK, Committed, Tab
    <2> QED  BY <2>1
  <1>3. DOMAIN tab.server = Docs
    BY DEF IInv, Tab
  <1> QED  BY <1>1, <1>2, <1>3 DEF IInv, AnnouncedOK, Committed

(* A save that is served is stored as a new version or refused.              *)
LEMMA SaveServedStep ==
  ASSUME IInv, NEW d \in Docs, SaveServed(d)
  PROVE  Moves(tab, tab') /\ AnnouncedOK'
  <1>0. tab \in Tab /\ ~tab.scheduled /\ version \in [Docs -> Nat \ {0}] /\ version[d] + 1 \in Nat \ {0}
    BY DEF IInv, AnnouncedOK
  <1>1. PICK x \in Saving : x.at \in Waiting /\ tab' = [tab EXCEPT !.save[d] = x]
    <2>1. CASE tab' = [tab EXCEPT !.save[d] = [at |-> "stored", got |-> version[d] + 1]]
      BY <1>0, <2>1 DEF Saving, Waiting
    <2>2. CASE tab' = [tab EXCEPT !.save[d] = [at |-> "refused", got |-> Unknown]]
      BY <2>2 DEF Saving, Waiting, Unknown
    <2> QED  BY <2>1, <2>2 DEF SaveServed
  <1>2. /\ tab' \in Tab /\ tab'.scheduled = tab.scheduled
        /\ tab'.server = tab.server /\ tab'.shown = tab.shown
        /\ \A sh \in [Docs -> Nat] : Consistent(tab, sh) => Consistent(tab', sh)
    BY <1>0, <1>1, SavingKeeps
  <1>3. version' \in [Docs -> Nat \ {0}] /\ \A e \in Docs : version[e] <= version'[e]
    <2>1. CASE version' = [version EXCEPT ![d] = version[d] + 1]
      BY <1>0, <2>1
    <2>2. CASE version' = version
      BY <1>0, <2>2
    <2> QED  BY <2>1, <2>2 DEF SaveServed
  <1>4. stream' = stream
    BY DEF SaveServed
  <1> QED  BY <1>0, <1>2, <1>3, <1>4, SameMoves, StaysAnnounced

(* What the server sends is what is stored.                                  *)
LEMMA StreamStep ==
  ASSUME IInv, Connect \/ Push \/ Disconnect
  PROVE  tab' = tab /\ AnnouncedOK'
  <1>0. /\ version \in [Docs -> Nat \ {0}] /\ version \in [Docs -> Nat]
        /\ stream \in Stream /\ stream.sent \in [Docs -> Nat] /\ stream.frames \in Seq(AnyFrame)
        /\ \A i \in DOMAIN stream.frames : Committed(stream.frames[i].versions)
        /\ Committed(tab.server)
    BY DEF IInv, AnnouncedOK, Stream
  <1>1. CASE Connect
    <2> DEFINE frame == [first |-> TRUE, versions |-> version]
    <2>1. frame \in AnyFrame /\ Committed(frame.versions)
      BY <1>0 DEF AnyFrame, Committed
    <2>2. stream' = [up |-> TRUE, sent |-> version, frames |-> <<frame>>] /\ version' = version /\ tab' = tab
      BY <1>1 DEF Connect
    <2> HIDE DEF frame
    <2>3. <<frame>> \in Seq(AnyFrame) /\ \A i \in DOMAIN <<frame>> : <<frame>>[i] = frame
      BY <2>1
    <2>4. stream' \in Stream /\ stream'.frames = <<frame>>
      BY <1>0, <2>2, <2>3 DEF Stream
    <2> QED  BY <1>0, <2>1, <2>2, <2>3, <2>4 DEF AnnouncedOK, Committed
  <1>2. CASE Push
    <2> DEFINE changed == ChangedVersions(stream.sent, version)
               frame == [first |-> FALSE, versions |-> changed]
               D == {e \in Docs : stream.sent[e] # version[e]}
    <2>1. changed = [d \in D |-> version[d]]
      BY DEF ChangedVersions
    <2>2. changed \in [D -> Nat \ {0}] /\ Committed(changed)
      BY <1>0, <2>1 DEF Committed
    <2>3. D \in {Docs, {"inventory"}, {"commerce"}, {}}
      BY DEF Docs
    <2> HIDE DEF changed, D
    <2>4. frame \in AnyFrame /\ Committed(frame.versions)
      BY <2>2, <2>3 DEF AnyFrame
    <2>5. stream' = [stream EXCEPT !.sent = version, !.frames = Append(stream.frames, frame)]
          /\ version' = version /\ tab' = tab
      BY <1>2 DEF Push, changed
    <2> HIDE DEF frame
    <2>6. Append(stream.frames, frame) \in Seq(AnyFrame)
          /\ \A i \in DOMAIN Append(stream.frames, frame) :
               Committed(Append(stream.frames, frame)[i].versions)
      <3>1. /\ Append(stream.frames, frame) \in Seq(AnyFrame)
            /\ Len(Append(stream.frames, frame)) = Len(stream.frames) + 1
            /\ \A i \in 1..Len(stream.frames) : Append(stream.frames, frame)[i] = stream.frames[i]
            /\ Append(stream.frames, frame)[Len(stream.frames) + 1] = frame
        BY <1>0, <2>4, AppendProperties
      <3>2. /\ DOMAIN Append(stream.frames, frame) = 1..(Len(stream.frames) + 1)
            /\ DOMAIN stream.frames = 1..Len(stream.frames) /\ Len(stream.frames) \in Nat
        BY <1>0, <3>1
      <3> QED  BY <1>0, <2>4, <3>1, <3>2
    <2> DEFINE more == Append(stream.frames, frame)
    <2>7. stream' = [stream EXCEPT !.sent = version, !.frames = more] /\ more \in Seq(AnyFrame)
      BY <2>5, <2>6
    <2> HIDE DEF more
    <2>8. stream' \in Stream /\ stream'.frames = more
      BY <1>0, <2>7 DEF Stream
    <2> QED  BY <1>0, <2>5, <2>6, <2>8 DEF AnnouncedOK, Committed, more
  <1>3. CASE Disconnect
    <2>1. stream' = Offline /\ version' = version /\ tab' = tab
      BY <1>3 DEF Disconnect
    <2>2. << >> \in Seq(AnyFrame) /\ DOMAIN << >> = {}
      OBVIOUS
    <2>3. stream' \in Stream /\ stream'.frames = << >>
      BY <2>1, <2>2 DEF Offline, Unknown, Stream
    <2> QED  BY <1>0, <2>1, <2>2, <2>3 DEF AnnouncedOK, Committed
  <1> QED  BY <1>1, <1>2, <1>3

(* A chunk is delivered: its frames are accepted, then the flush runs.       *)
LEMMA DeliverStep ==
  ASSUME IInv, Deliver
  PROVE  /\ tab' \in Tab /\ ~tab'.scheduled /\ tab'.shown = tab.shown
         /\ Consistent(tab, tab.shown) => Consistent(tab', tab'.shown)
         /\ AnnouncedOK'
  <1>0. /\ tab \in Tab /\ tab.shown \in [Docs -> Nat] /\ AnnouncedOK
        /\ \A d \in Docs : tab.server[d] <= version[d]
    BY DEF IInv, Tab, AnnouncedOK, Committed
  <1>1. PICK n \in 1..Len(stream.frames) :
          /\ tab' = Flushed(AfterFrames(tab, n))
          /\ stream' = [stream EXCEPT !.frames = SubSeq(@, n + 1, Len(@))]
    BY DEF Deliver
  <1> DEFINE w == AfterFrames(tab, n)
             s == stream.frames
             rest == SubSeq(s, n + 1, Len(s))
  <1>2. /\ w \in Tab /\ w.shown = tab.shown
        /\ \A d \in Docs : w.server[d] <= version[d]
        /\ Consistent(tab, tab.shown) => Consistent(w, tab.shown)
    BY <1>0, FramesKeep DEF Keeps
  <1>3. tab' = Flushed(w)
    BY <1>1
  <1> HIDE DEF w
  <1>4. /\ tab' \in Tab /\ ~tab'.scheduled /\ tab'.shown = w.shown /\ tab'.server = w.server
        /\ Consistent(w, tab.shown) => Consistent(tab', tab.shown)
    BY <1>0, <1>2, <1>3, FlushedKeeps
  <1>5. /\ s \in Seq(AnyFrame) /\ Len(s) \in Nat /\ DOMAIN s = 1..Len(s) /\ n \in Nat
        /\ \A i \in 1..Len(s) : s[i] \in AnyFrame /\ Committed(s[i].versions)
    BY <1>0, ElementOfSeq DEF AnnouncedOK, Stream
  <1>6. rest \in Seq(AnyFrame) /\ \A i \in DOMAIN rest : Committed(rest[i].versions)
    <2>1. n + 1 \in Int /\ Len(s) \in Int /\ \A i \in (n + 1)..Len(s) : s[i] \in AnyFrame
      BY <1>5
    <2>2. /\ rest \in Seq(AnyFrame)
          /\ Len(rest) = IF n + 1 <= Len(s) THEN Len(s) - (n + 1) + 1 ELSE 0
          /\ \A i \in 1..(Len(s) - (n + 1) + 1) : rest[i] = s[(n + 1) + i - 1]
      BY <2>1, SubSeqProperties
    <2> HIDE DEF rest
    <2>3. ASSUME NEW i \in DOMAIN rest
          PROVE  Committed(rest[i].versions)
      <3>1. i \in 1..Len(rest)
        BY <2>2
      <3> DEFINE l == Len(s)
                 r == Len(rest)
      <3>2. l \in Nat /\ n \in Nat /\ r = (IF n + 1 <= l THEN l - (n + 1) + 1 ELSE 0) /\ i \in 1..r
        BY <1>5, <2>2, <3>1
      <3>3. i \in 1..(l - (n + 1) + 1) /\ (n + 1) + i - 1 \in 1..l
        <4> HIDE DEF l, r
        <4> QED  BY <3>2
      <3> QED  BY <1>5, <2>2, <3>3
    <2> QED  BY <2>2, <2>3
  <1>7. stream' \in Stream /\ stream'.frames = rest /\ version' = version
    <2>1. stream' = [stream EXCEPT !.frames = rest]
      BY <1>0, <1>1 DEF AnnouncedOK, Stream
    <2> HIDE DEF rest
    <2> QED  BY <1>0, <1>6, <2>1 DEF AnnouncedOK, Stream, Deliver
  <1>8. Committed(tab'.server)
    <2>1. DOMAIN tab'.server = Docs
      BY <1>4 DEF Tab
    <2> QED  BY <1>2, <1>4, <2>1 DEF Committed
  <1>9. AnnouncedOK'
    <2> HIDE DEF rest
    <2> QED  BY <1>0, <1>6, <1>7, <1>8 DEF AnnouncedOK, Committed
  <1> QED  BY <1>2, <1>4, <1>9

(* No step takes a list back.                                                *)
Onward == \A d \in Docs : tab'.shown[d] >= tab.shown[d]

(* Every step keeps the inductive invariant.                                 *)
LEMMA InvariantStep ==
  ASSUME IInv, [Next]_vars
  PROVE  IInv' /\ Onward
  <1>0. /\ tab \in Tab /\ ~tab.scheduled /\ tab.shown \in [Docs -> Nat]
        /\ version \in [Docs -> Nat \ {0}] /\ \A d \in Docs : version[d] \in Nat /\ version[d] + 1 \in Nat \ {0}
    BY DEF IInv, Tab, AnnouncedOK
  <1>1. ASSUME Moves(tab, tab'), AnnouncedOK'
        PROVE  IInv' /\ Onward
    BY <1>1 DEF Moves, IInv, Onward
  <1>2. ASSUME Moves(tab, tab'), UNCHANGED <<version, stream>>
        PROVE  IInv' /\ Onward
    <2>1. AnnouncedOK'
      BY <1>0, <1>2, StaysAnnounced DEF Moves
    <2> QED  BY <1>1, <1>2, <2>1
  <1>3. ASSUME tab' = tab, AnnouncedOK'
        PROVE  IInv' /\ Onward
    BY <1>0, <1>3 DEF IInv, Onward
  <1>4. ASSUME NEW d \in Docs, Commit(d)
        PROVE  IInv' /\ Onward
    <2>1. /\ version' \in [Docs -> Nat \ {0}] /\ \A e \in Docs : version[e] <= version'[e]
          /\ stream' = stream /\ tab' = tab
      BY <1>0, <1>4 DEF Commit
    <2> QED  BY <1>3, <2>1, StaysAnnounced
  <1>5. ASSUME NEW d \in Docs, Serve(d)
        PROVE  IInv' /\ Onward
    BY <1>2, <1>5, ServeMoves DEF Serve
  <1>6. ASSUME NEW d \in Docs,
               Receive(d) \/ LoadFails(d) \/ Save(d) \/ Stored(d) \/ Refused(d) \/ SaveLost(d)
        PROVE  IInv' /\ Onward
    <2>1. UNCHANGED <<version, stream>>
      BY <1>6 DEF Receive, LoadFails, Save, Stored, Refused, SaveLost
    <2> QED  BY <1>2, <1>6, <2>1, RequestMoves
  <1>7. ASSUME NEW d \in Docs, SaveServed(d)
        PROVE  IInv' /\ Onward
    BY <1>1, <1>7, SaveServedStep
  <1>8. CASE Connect \/ Push \/ Disconnect
    BY <1>3, <1>8, StreamStep
  <1>9. CASE Deliver
    <2>1. /\ tab' \in Tab /\ ~tab'.scheduled /\ tab'.shown = tab.shown
          /\ Consistent(tab, tab.shown) => Consistent(tab', tab'.shown)
          /\ AnnouncedOK'
      BY <1>9, DeliverStep
    <2> QED  BY <1>0, <2>1 DEF IInv, Onward
  <1>10. CASE FlushEnds \/ RereadServed \/ RereadEnds \/ Edit \/ StopEditing \/ Render \/ OpenOrder
                \/ ClearQueries
    <2>1. UNCHANGED <<version, stream>>
      BY <1>10 DEF FlushEnds, RereadServed, RereadEnds, Edit, StopEditing, Render, OpenOrder, ClearQueries
    <2> QED  BY <1>2, <1>10, <2>1, PageMoves
  <1>11. CASE UNCHANGED vars
    <2>1. AnnouncedOK'
      BY <1>0, <1>11, StaysAnnounced DEF vars
    <2> QED  BY <1>3, <1>11, <2>1 DEF vars
  <1> QED  BY <1>4, <1>5, <1>6, <1>7, <1>8, <1>9, <1>10, <1>11 DEF Next

(* The invariant holds when the page is opened, and once it has read all.    *)
LEMMA InvariantInit == Init => IInv
  <1> SUFFICES ASSUME Init PROVE IInv
    OBVIOUS
  <1>1. version \in [Docs -> Nat \ {0}] /\ \A d \in Docs : version[d] = 1
    BY DEF Init
  <1>2. stream \in Stream /\ stream.frames = << >>
    <2>1. version \in [Docs -> Nat] /\ << >> \in Seq(AnyFrame)
      BY <1>1
    <2> QED  BY <2>1 DEF Init, Offline, Unknown, Stream
  <1>3. tab \in Tab /\ ~tab.scheduled /\ \A d \in Docs : tab.server[d] \in {0, 1}
    BY DEF Init, Tab, Flush, NoFlush, Load, Saving, Idle, Asked, Unknown
  <1>4. AnnouncedOK
    <2>1. << >> \in Seq(AnyFrame) /\ DOMAIN << >> = {}
      OBVIOUS
    <2>2. DOMAIN tab.server = Docs
      BY <1>3 DEF Tab
    <2> QED  BY <1>1, <1>2, <1>3, <2>1, <2>2 DEF AnnouncedOK, Committed
  <1>5. ~Cold => Consistent(tab, tab.shown)
    <2>1. ~Cold => \A d \in Docs : tab.server[d] = 1 /\ tab.observed[d] = 1 /\ tab.shown[d] = 1
      BY DEF Init
    <2>2. ~tab.flush.on
      BY DEF Init, NoFlush
    <2> QED  BY <2>1, <2>2 DEF Consistent, Unknown
  <1> QED  BY <1>3, <1>4, <1>5 DEF IInv

(* Whatever happens, the inductive invariant holds: what was announced is in *)
(* the database, and a memory that has read everything once is consistent.   *)
THEOREM Invariance == Spec => []IInv
  <1>1. Init => IInv  BY InvariantInit
  <1>2. IInv /\ [Next]_vars => IInv'  BY InvariantStep
  <1> QED  BY <1>1, <1>2, PTL DEF Spec

(* A list never shows an older document after a newer one: the guards of     *)
(* applyCommittedInventory and acceptLocalCommerce, in whatever order the    *)
(* answers of loads, rereads and saves come.                                 *)
THEOREM NeverBack == Spec => ShownNeverGoesBack
  <1>1. IInv /\ [Next]_vars => [\A d \in Docs : tab'.shown[d] >= tab.shown[d]]_vars
    BY InvariantStep DEF Onward
  <1> QED  BY <1>1, Invariance, PTL DEF Spec, ShownNeverGoesBack

(* Once the first reads have arrived, a version the server announced and the *)
(* list does not show is pending or being read by a flush: no failed,        *)
(* shared, overtaken or blocked refresh of change-sync.js forgets it.        *)
THEOREM NothingIsForgotten ==
  ASSUME ~Cold
  PROVE  Spec => []NewsIsRemembered
  <1>1. IInv => NewsIsRemembered
    BY DEF IInv, Consistent, Remembered, NewsIsRemembered
  <1> QED  BY <1>1, Invariance, PTL

=============================================================================

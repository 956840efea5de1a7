------------------------- MODULE ConfigCache_proofs -------------------------
(***************************************************************************)
(* Proofs about ConfigCache for any set of calls and any bounds.  None of  *)
(* its invariants but OneThreadAsks is inductive.  For OutageIsNotUnset it *)
(* takes that the row stays and that no read carries "missing" to the      *)
(* cache.  For FreshEntryIsCurrent it takes what the version of a read in  *)
(* progress says about the value it is going to remember: as long as the   *)
(* version is the sentinel's and nobody is writing, the value is the one   *)
(* the stores hold.                                                        *)
(***************************************************************************)
EXTENDS ConfigCache, TLAPS

Setting == {"incr", "forget", "setdb"}
Deleting == {"delredis", "deldb", "delincr", "delforget"}
AskingSteps == {"version", "note", "known"}
Steps == {"idle", "hit", "redis", "db", "restore", "store"} \cup AskingSteps \cup Setting \cup Deleting

Known == Values \cup {Missing}
Heard == Known \cup {Failed}
Call == [pc : Steps, on : Places, version : Nat, value : Heard, miss : BOOLEAN]
Entry == [value : Heard, tag : Nat]
Pod == [connected : BOOLEAN, reconnected : BOOLEAN, entry : Entry, version : Nat,
        due : BOOLEAN, refreshing : BOOLEAN, missed : BOOLEAN]

TypeOK ==
  /\ redis \in [value : Known, version : Nat]
  /\ db \in Known
  /\ reach \subseteq Places
  /\ pod \in Pod
  /\ thread \in [Threads -> Call]
  /\ sets \in 0..MaxSets /\ faults \in Nat
  /\ deleted \in BOOLEAN /\ existed \in BOOLEAN /\ crossed \in BOOLEAN

\* The setting is in the database until somebody deletes it.
Stays == existed /\ ~deleted
RowKept == Stays => db # Missing
PodKept == Stays => ~pod.missed /\ pod.entry.value # Missing
CallKept(t) ==
  /\ thread[t].pc \in Setting \cup {"restore"} => thread[t].value \in Values
  /\ thread[t].pc \in Deleting => deleted
  /\ Stays /\ thread[t].pc = "store" => thread[t].value # Missing

\* Nothing has failed and no write has crossed another: what FreshEntryIsCurrent is about.
Calm == faults = 0 /\ ~crossed
Connected == Calm => reach = Places /\ pod.connected /\ ~pod.reconnected

\* No version is from the future, so the INCR of a write outdates them all.
VersionsSeen == Calm => pod.version <= redis.version /\ pod.entry.tag <= redis.version

EntryRight ==
  Calm /\ ~Writing /\ pod.entry # NoEntry /\ pod.entry.tag = redis.version =>
    pod.entry.value = Effective

\* A name remembered as missing that is in the database again is in Redis too,
\* until a delete that has yet to reach the database.
MissedRight ==
  Calm /\ pod.missed /\ redis.value = Missing /\ db # Missing =>
    \E t \in Threads : thread[t].pc = "deldb"

\* A read under the version of now is about to remember what the stores hold.
CallRight(t) ==
  Calm =>
    /\ thread[t].version <= redis.version
    /\ thread[t].pc = "db" => thread[t].miss
    /\ ~Writing /\ thread[t].version = redis.version =>
         /\ thread[t].pc = "db" => Effective = db
         /\ thread[t].pc \in {"restore", "store"} /\ thread[t].value # Failed =>
              thread[t].value = Effective

PodRight == Connected /\ VersionsSeen /\ EntryRight /\ MissedRight

IInv ==
  /\ TypeOK
  /\ RowKept /\ PodKept
  /\ \A t \in Threads : CallKept(t) /\ CallRight(t)
  /\ PodRight
  /\ OneThreadAsks

-----------------------------------------------------------------------------
(* What a step does to the calls.                                          *)

\* No value is one of the two ways of having none.
LEMMA ValuesAreValues ==
  /\ Missing \notin Values /\ Failed \notin Values /\ Missing # Failed
  /\ 1 \in Values
  /\ sets \in 0..MaxSets /\ sets < MaxSets => sets + 2 \in Values /\ sets + 1 \in 0..MaxSets
  /\ Missing \in Known /\ Missing \in Heard /\ Failed \in Heard /\ Known \subseteq Heard
  /\ \A v \in Known : v = Missing \/ v \in Values
  BY ConfigAssumption DEF Missing, Failed, Values, Known, Heard

Others(t) == \A u \in Threads \ {t} : thread'[u] = thread[u]

\* A step that only moves a call on.
LEMMA GotoEffect ==
  ASSUME thread \in [Threads -> Call], NEW t \in Threads, NEW label \in Steps, Goto(t, label)
  PROVE  /\ thread' \in [Threads -> Call] /\ Others(t)
         /\ thread'[t].pc = label /\ thread'[t].on = thread[t].on
         /\ thread'[t].version = thread[t].version /\ thread'[t].value = thread[t].value
         /\ thread'[t].miss = thread[t].miss
  BY DEF Goto, Call, Others

\* A step in which a read has its answer.
LEMMA GotEffect ==
  ASSUME thread \in [Threads -> Call], NEW t \in Threads, NEW label \in Steps,
         NEW value \in Heard, NEW miss \in BOOLEAN, Got(t, label, value, miss)
  PROVE  /\ thread' \in [Threads -> Call] /\ Others(t)
         /\ thread'[t].pc = label /\ thread'[t].value = value /\ thread'[t].miss = miss
         /\ thread'[t].version = thread[t].version /\ thread'[t].on = thread[t].on
  BY DEF Got, Call, Others

\* A step that begins a call.
LEMMA EnterEffect ==
  ASSUME thread \in [Threads -> Call], NEW t \in Threads, NEW p \in Places, NEW label \in Steps,
         NEW version \in Nat, NEW value \in Heard, Enter(t, p, label, version, value)
  PROVE  /\ thread' \in [Threads -> Call] /\ Others(t)
         /\ thread'[t].pc = label /\ thread'[t].on = p
         /\ thread'[t].version = version /\ thread'[t].value = value
  BY DEF Enter, Call, Others

\* A step that ends a call.
LEMMA ReturnEffect ==
  ASSUME thread \in [Threads -> Call], NEW t \in Threads, Return(t)
  PROVE  /\ thread' \in [Threads -> Call] /\ Others(t)
         /\ thread'[t].pc = "idle" /\ thread'[t].version = NoVersion
  <1>1. Idle \in Call
    BY ValuesAreValues DEF Idle, Call, Steps, Places, NoVersion
  <1>2. QED
    BY <1>1 DEF Return, Others, Idle

\* A call that neither begins nor ends asking leaves OneThreadAsks alone.
LEMMA AskingAsBefore ==
  ASSUME OneThreadAsks, NEW t \in Threads, Others(t), pod'.refreshing = pod.refreshing,
         thread'[t].pc \in AskingSteps <=> thread[t].pc \in AskingSteps
  PROVE  OneThreadAsks'
  <1>1. \A u \in Threads : thread'[u].pc \in AskingSteps <=> thread[u].pc \in AskingSteps
    BY DEF Others
  <1>2. QED
    BY <1>1 DEF OneThreadAsks, AskingSteps

\* Calls a step does not touch stay right if what the stores hold does not change
\* for them, or if the version tells them that it did.
LEMMA OthersStayRight ==
  ASSUME IInv, NEW S \in SUBSET Threads, \A u \in S : thread'[u] = thread[u],
         existed' = existed, deleted => deleted',
         Calm' => /\ Calm
                  /\ redis.version \in Nat /\ redis'.version \in Nat
                  /\ redis.version <= redis'.version
                  /\ \/ Writing'
                     \/ redis.version < redis'.version
                     \/ /\ ~Writing /\ Effective' = Effective
                        /\ Effective = db => Effective' = db'
  PROVE  \A u \in S : CallKept(u)' /\ CallRight(u)'
  <1> SUFFICES ASSUME NEW u \in S PROVE CallKept(u)' /\ CallRight(u)'
    OBVIOUS
  <1>1. u \in Threads /\ thread'[u] = thread[u] /\ CallKept(u) /\ CallRight(u) /\ thread[u].version \in Nat
    BY DEF IInv, TypeOK, Call
  <1>2. CallKept(u)'
    <2>1. Stays' => Stays
      BY DEF Stays
    <2>2. QED
      BY <1>1, <2>1 DEF CallKept
  <1>3. CallRight(u)'
    <2>1. SUFFICES ASSUME Calm'
                   PROVE  /\ thread'[u].version <= redis'.version
                          /\ thread'[u].pc = "db" => thread'[u].miss
                          /\ ~Writing' /\ thread'[u].version = redis'.version =>
                               /\ thread'[u].pc = "db" => Effective' = db'
                               /\ thread'[u].pc \in {"restore", "store"} /\ thread'[u].value # Failed =>
                                    thread'[u].value = Effective'
      BY DEF CallRight
    <2>2. thread[u].version <= redis.version /\ redis.version <= redis'.version
      BY <1>1, <2>1 DEF CallRight
    <2>3. thread[u].pc = "db" => thread[u].miss
      BY <1>1, <2>1 DEF CallRight
    <2>4. ASSUME ~Writing', thread[u].version = redis'.version
          PROVE  /\ thread[u].pc = "db" => Effective' = db'
                 /\ thread[u].pc \in {"restore", "store"} /\ thread[u].value # Failed =>
                      thread[u].value = Effective'
      <3>1. redis.version = redis'.version
        BY <1>1, <2>1, <2>2, <2>4
      <3>2. ~Writing /\ Effective' = Effective /\ (Effective = db => Effective' = db')
        BY <2>1, <2>4, <3>1
      <3>3. QED
        BY <1>1, <2>1, <2>4, <3>1, <3>2 DEF CallRight
    <2>5. QED
      BY <1>1, <2>1, <2>2, <2>3, <2>4
  <1>4. QED
    BY <1>2, <1>3

\* Whether anyone is writing is a matter of the calls that move.
LEMMA WritingAsBefore ==
  ASSUME NEW t \in Threads, Others(t),
         thread[t].pc \notin {"incr", "deldb", "delincr"},
         thread'[t].pc \notin {"incr", "deldb", "delincr"}
  PROVE  Writing' <=> Writing
  BY DEF Writing, Others

-----------------------------------------------------------------------------
(* Steps that leave the stores alone.                                      *)

\* One call's step, with no write in progress before or after it.
LeavesStores(t) ==
  /\ Others(t)
  /\ UNCHANGED <<stores, reach, sets, deleted, existed, crossed>>
  /\ faults' \in Nat /\ (faults' = 0 => faults = 0)
  /\ thread[t].pc \notin {"incr", "deldb", "delincr"}
  /\ thread'[t].pc \notin {"incr", "deldb", "delincr"}

\* Nothing the invariant speaks of is different but the call and the pod.
LEMMA StoresAsBefore ==
  ASSUME NEW t \in Threads, LeavesStores(t)
  PROVE  /\ Writing' <=> Writing
         /\ Effective' = Effective /\ redis' = redis /\ db' = db /\ reach' = reach
         /\ Stays' <=> Stays
         /\ deleted' = deleted
         /\ Calm' => Calm
  <1>1. Writing' <=> Writing
    BY WritingAsBefore DEF LeavesStores
  <1>2. QED
    BY <1>1 DEF LeavesStores, stores, Effective, Stays, Calm

\* What the pod may do with what it remembers.
LEMMA PodStaysRight ==
  ASSUME IInv, NEW t \in Threads, LeavesStores(t), TypeOK',
         Calm => pod'.connected /\ ~pod'.reconnected /\ pod'.version <= redis.version,
         pod'.missed => pod.missed \/ db = Missing,
         \/ pod'.entry \in {pod.entry, NoEntry}
         \/ /\ Stays => pod'.entry.value # Missing
            /\ Calm => pod'.entry.tag <= redis.version
            /\ Calm /\ ~Writing /\ pod'.entry.tag = redis.version => pod'.entry.value = Effective
  PROVE  PodKept' /\ PodRight'
  <1>1. /\ Writing' <=> Writing
        /\ Effective' = Effective /\ redis' = redis /\ db' = db /\ reach' = reach
        /\ Stays' <=> Stays
        /\ Calm' => Calm
    BY StoresAsBefore
  <1>2. NoEntry.value = Failed /\ NoEntry.tag = 0 /\ Failed # Missing /\ redis.version \in Nat
    BY ValuesAreValues DEF NoEntry, NoVersion, IInv, TypeOK
  <1>3. PodKept'
    BY <1>1, <1>2 DEF IInv, PodKept, RowKept
  <1>4. Connected'
    BY <1>1 DEF IInv, PodRight, Connected
  <1>5. VersionsSeen'
    BY <1>1, <1>2 DEF IInv, PodRight, VersionsSeen
  <1>6. EntryRight'
    BY <1>1 DEF IInv, PodRight, EntryRight
  <1>7. MissedRight'
    <2>1. SUFFICES ASSUME Calm', pod'.missed, redis'.value = Missing, db' # Missing
                   PROVE  \E u \in Threads : thread'[u].pc = "deldb"
      BY DEF MissedRight
    <2>2. \E u \in Threads : thread[u].pc = "deldb"
      BY <1>1, <2>1 DEF IInv, PodRight, MissedRight
    <2>3. QED
      BY <2>2 DEF LeavesStores, Others
  <1>8. QED
    BY <1>3, <1>4, <1>5, <1>6, <1>7 DEF PodRight

\* It remains to look at the call that moved.
LEMMA CallStep ==
  ASSUME IInv, NEW t \in Threads, LeavesStores(t), TypeOK', PodKept', PodRight',
         OneThreadAsks', CallKept(t)', CallRight(t)'
  PROVE  IInv'
  <1>1. /\ Writing' <=> Writing
        /\ Effective' = Effective /\ redis' = redis /\ db' = db
        /\ Stays' <=> Stays
        /\ Calm' => Calm
    BY StoresAsBefore
  <1>2. \A u \in Threads \ {t} : CallKept(u)' /\ CallRight(u)'
    <2>1. \A u \in Threads \ {t} : thread'[u] = thread[u]
      BY DEF LeavesStores, Others
    <2>2. existed' = existed /\ (deleted => deleted')
      BY DEF LeavesStores
    <2>3. Calm' => /\ Calm
                   /\ redis.version \in Nat /\ redis'.version \in Nat
                   /\ redis.version <= redis'.version
                   /\ \/ Writing'
                      \/ redis.version < redis'.version
                      \/ /\ ~Writing /\ Effective' = Effective
                         /\ Effective = db => Effective' = db'
      BY <1>1 DEF IInv, TypeOK
    <2> DEFINE rest == Threads \ {t}
    <2>4. rest \in SUBSET Threads /\ \A u \in rest : thread'[u] = thread[u]
      BY <2>1
    <2> HIDE DEF rest
    <2>5. \A u \in rest : CallKept(u)' /\ CallRight(u)'
      BY <2>2, <2>3, <2>4, OthersStayRight
    <2>6. QED
      BY <2>5 DEF rest
  <1>3. RowKept'
    BY <1>1 DEF IInv, RowKept
  <1>4. QED
    BY <1>2, <1>3 DEF IInv

\* What _ensure_connection leaves of the manager.
LEMMA EnsuredPod ==
  ASSUME IInv, NEW m \in Ensured
  PROVE  /\ m \in Pod
         /\ m.entry = pod.entry /\ m.version = pod.version /\ m.due = pod.due
         /\ m.refreshing = pod.refreshing /\ m.missed = pod.missed
         /\ pod.connected => m = pod
  <1>1. pod \in Pod
    BY DEF IInv, TypeOK
  <1>2. QED
    BY <1>1 DEF Ensured, Pod

\* _known_version at the start of a read.
LEMMA ReadStartStep == ASSUME IInv, NEW t \in Threads, ReadStart(t) PROVE IInv'
  <1> DEFINE now == IF pod.reconnected
                    THEN [pod EXCEPT !.reconnected = FALSE, !.entry = NoEntry, !.due = TRUE]
                    ELSE pod
             asks == now.due /\ ~now.refreshing
  <1>1. /\ thread[t].pc = "idle"
        /\ pod' = [now EXCEPT !.refreshing = @ \/ asks]
        /\ Enter(t, "here", IF asks THEN "version" ELSE "hit", now.version, Failed)
        /\ UNCHANGED <<stores, reach, history>>
    BY DEF ReadStart
  <1>2. TypeOK
    BY DEF IInv
  <1>3. NoEntry \in Entry
    BY ValuesAreValues DEF NoEntry, Entry, NoVersion
  <1>4. /\ now \in Pod /\ now.version = pod.version /\ now.missed = pod.missed
        /\ now.connected = pod.connected /\ ~now.reconnected
        /\ now.refreshing = pod.refreshing /\ now.entry \in {pod.entry, NoEntry}
    BY <1>2, <1>3 DEF TypeOK, Pod
  <1> HIDE DEF now
  <1>5. /\ pod' \in Pod /\ pod'.version = pod.version /\ pod'.missed = pod.missed
        /\ pod'.connected = pod.connected /\ ~pod'.reconnected
        /\ pod'.refreshing = (pod.refreshing \/ asks) /\ pod'.entry \in {pod.entry, NoEntry}
    BY <1>1, <1>4 DEF Pod
  <1>6. /\ thread' \in [Threads -> Call] /\ Others(t)
        /\ thread'[t].pc = (IF asks THEN "version" ELSE "hit")
        /\ thread'[t].version = pod.version
    <2>1. (IF asks THEN "version" ELSE "hit") \in Steps /\ now.version \in Nat /\ "here" \in Places
      BY <1>4 DEF Steps, AskingSteps, Pod, Places
    <2>2. QED
      BY <1>1, <1>2, <1>4, <2>1, EnterEffect, ValuesAreValues DEF TypeOK
  <1>7. TypeOK'
    BY <1>1, <1>2, <1>5, <1>6 DEF TypeOK, stores, history
  <1>8. LeavesStores(t)
    BY <1>1, <1>2, <1>6 DEF LeavesStores, stores, history, TypeOK
  <1>9. PodKept' /\ PodRight'
    BY <1>5, <1>7, <1>8, PodStaysRight DEF IInv, PodRight, Connected, VersionsSeen
  <1>10. CallKept(t)'
    BY <1>6 DEF CallKept, Setting, Deleting
  <1>11. CallRight(t)'
    <2>1. redis' = redis /\ (Calm' => Calm)
      BY <1>8, StoresAsBefore
    <2>2. QED
      BY <1>6, <2>1 DEF IInv, PodRight, VersionsSeen, CallRight
  <1>12. OneThreadAsks'
    <2>1. CASE asks
      <3>1. ~pod.refreshing /\ pod'.refreshing
        BY <1>4, <1>5, <2>1
      <3>2. \A u \in Threads : thread[u].pc \notin AskingSteps
        BY <3>1 DEF IInv, OneThreadAsks, AskingSteps
      <3>3. \A u \in Threads : thread'[u].pc \in AskingSteps <=> u = t
        BY <1>6, <2>1, <3>2 DEF Others, AskingSteps
      <3>4. QED
        BY <3>1, <3>3 DEF OneThreadAsks, AskingSteps
    <2>2. CASE ~asks
      <3>1. /\ pod'.refreshing = pod.refreshing /\ thread'[t].pc \notin AskingSteps
            /\ thread[t].pc \notin AskingSteps
        BY <1>1, <1>2, <1>5, <1>6, <2>2 DEF AskingSteps, TypeOK, Pod
      <3>2. QED
        BY <1>6, <3>1, AskingAsBefore DEF IInv
    <2>3. QED
      BY <2>1, <2>2
  <1>13. QED
    BY <1>7, <1>8, <1>9, <1>10, <1>11, <1>12, CallStep

\* The GET of probe_config_version.
LEMMA ReadVersionStep == ASSUME IInv, NEW t \in Threads, ReadVersion(t) PROVE IInv'
  <1>1. PICK m \in Ensured :
          /\ pod' = m
          /\ IF m.connected /\ Reachable
             THEN thread' = [thread EXCEPT ![t].pc = "note", ![t].version = redis.version]
             ELSE Goto(t, "known")
    BY DEF ReadVersion
  <1>2. thread[t].pc = "version" /\ UNCHANGED <<stores, reach, history>> /\ TypeOK
    BY DEF ReadVersion, IInv
  <1>3. /\ pod' \in Pod
        /\ pod'.entry = pod.entry /\ pod'.version = pod.version
        /\ pod'.refreshing = pod.refreshing /\ pod'.missed = pod.missed
        /\ pod.connected => pod' = pod
    BY <1>1, EnsuredPod
  <1>4. /\ thread' \in [Threads -> Call] /\ Others(t)
        /\ thread'[t].pc \in {"note", "known"}
        /\ thread'[t].version \in {thread[t].version, redis.version}
    <2>1. CASE thread' = [thread EXCEPT ![t].pc = "note", ![t].version = redis.version]
      <3>1. "note" \in Steps /\ redis.version \in Nat /\ thread \in [Threads -> Call]
        BY <1>2 DEF TypeOK, Steps, AskingSteps
      <3> DEFINE noted == [thread[t] EXCEPT !.pc = "note", !.version = redis.version]
      <3>2. noted \in Call /\ noted.pc = "note" /\ noted.version = redis.version
        BY <3>1 DEF Call
      <3>3. thread' = [thread EXCEPT ![t] = noted]
        BY <2>1
      <3> HIDE DEF noted
      <3>4. QED
        BY <3>1, <3>2, <3>3 DEF Others
    <2>2. CASE Goto(t, "known")
      <3>1. "known" \in Steps
        BY DEF Steps, AskingSteps
      <3>2. QED
        BY <1>2, <2>2, <3>1, GotoEffect DEF TypeOK
    <2>3. QED
      BY <1>1, <2>1, <2>2
  <1>5. TypeOK'
    BY <1>2, <1>3, <1>4 DEF TypeOK, stores, history
  <1>6. LeavesStores(t)
    BY <1>2, <1>4 DEF LeavesStores, stores, history, TypeOK
  <1>7. PodKept' /\ PodRight'
    BY <1>3, <1>5, <1>6, PodStaysRight DEF IInv, PodRight, Connected, VersionsSeen
  <1>8. CallKept(t)'
    BY <1>4 DEF CallKept, Setting, Deleting
  <1>9. CallRight(t)'
    <2>1. redis' = redis /\ (Calm' => Calm) /\ redis.version \in Nat
      BY <1>2, <1>6, StoresAsBefore DEF TypeOK
    <2>2. QED
      BY <1>4, <2>1 DEF IInv, CallRight
  <1>10. OneThreadAsks'
    BY <1>2, <1>3, <1>4, AskingAsBefore DEF IInv, AskingSteps
  <1>11. QED
    BY <1>5, <1>6, <1>7, <1>8, <1>9, <1>10, CallStep

\* _note_version.
LEMMA ReadNoteStep == ASSUME IInv, NEW t \in Threads, ReadNote(t) PROVE IInv'
  <1>1. /\ thread[t].pc = "note"
        /\ pod' = [pod EXCEPT !.entry = IF thread[t].version = NoVersion \/ thread[t].version # pod.version
                                        THEN NoEntry ELSE @,
                              !.version = thread[t].version,
                              !.due = FALSE]
        /\ Goto(t, "known")
        /\ UNCHANGED <<stores, reach, history>>
    BY DEF ReadNote
  <1>2. TypeOK
    BY DEF IInv
  <1>3. NoEntry \in Entry /\ thread[t].version \in Nat
    BY <1>2, ValuesAreValues DEF NoEntry, Entry, NoVersion, TypeOK, Call
  <1>4. /\ pod' \in Pod /\ pod'.version = thread[t].version /\ pod'.missed = pod.missed
        /\ pod'.connected = pod.connected /\ pod'.reconnected = pod.reconnected
        /\ pod'.refreshing = pod.refreshing /\ pod'.entry \in {pod.entry, NoEntry}
    BY <1>1, <1>2, <1>3 DEF TypeOK, Pod
  <1>5. /\ thread' \in [Threads -> Call] /\ Others(t)
        /\ thread'[t].pc = "known" /\ thread'[t].version = thread[t].version
    BY <1>1, <1>2, GotoEffect DEF TypeOK, Steps, AskingSteps
  <1>6. TypeOK'
    BY <1>1, <1>2, <1>4, <1>5 DEF TypeOK, stores, history
  <1>7. LeavesStores(t)
    BY <1>1, <1>2, <1>5 DEF LeavesStores, stores, history, TypeOK
  <1>8. PodKept' /\ PodRight'
    <2>1. Calm => pod'.connected /\ ~pod'.reconnected /\ pod'.version <= redis.version
      BY <1>4 DEF IInv, PodRight, Connected, CallRight
    <2>2. QED
      BY <1>4, <1>6, <1>7, <2>1, PodStaysRight
  <1>9. CallKept(t)'
    BY <1>5 DEF CallKept, Setting, Deleting
  <1>10. CallRight(t)'
    <2>1. redis' = redis /\ (Calm' => Calm)
      BY <1>7, StoresAsBefore
    <2>2. QED
      BY <1>5, <2>1 DEF IInv, CallRight
  <1>11. OneThreadAsks'
    BY <1>1, <1>4, <1>5, AskingAsBefore DEF IInv, AskingSteps
  <1>12. QED
    BY <1>6, <1>7, <1>8, <1>9, <1>10, <1>11, CallStep

\* The end of asking: whoever asked was the only one.
LEMMA ReadKnownStep == ASSUME IInv, NEW t \in Threads, ReadKnown(t) PROVE IInv'
  <1>1. /\ thread[t].pc = "known"
        /\ pod' = [pod EXCEPT !.refreshing = FALSE, !.due = FALSE]
        /\ thread' = [thread EXCEPT ![t].pc = "hit", ![t].version = pod.version]
        /\ UNCHANGED <<stores, reach, history>>
    BY DEF ReadKnown
  <1>2. TypeOK
    BY DEF IInv
  <1>3. /\ pod' \in Pod /\ pod'.version = pod.version /\ pod'.missed = pod.missed
        /\ pod'.connected = pod.connected /\ pod'.reconnected = pod.reconnected
        /\ ~pod'.refreshing /\ pod'.entry = pod.entry
    BY <1>1, <1>2 DEF TypeOK, Pod
  <1>4. /\ thread' \in [Threads -> Call] /\ Others(t)
        /\ thread'[t].pc = "hit" /\ thread'[t].version = pod.version
    <2>1. "hit" \in Steps /\ pod.version \in Nat
      BY <1>2 DEF TypeOK, Pod, Steps
    <2>2. QED
      BY <1>1, <1>2, <2>1 DEF TypeOK, Call, Others
  <1>5. TypeOK'
    BY <1>1, <1>2, <1>3, <1>4 DEF TypeOK, stores, history
  <1>6. LeavesStores(t)
    BY <1>1, <1>2, <1>4 DEF LeavesStores, stores, history, TypeOK
  <1>7. PodKept' /\ PodRight'
    BY <1>3, <1>5, <1>6, PodStaysRight DEF IInv, PodRight, Connected, VersionsSeen
  <1>8. CallKept(t)'
    BY <1>4 DEF CallKept, Setting, Deleting
  <1>9. CallRight(t)'
    <2>1. redis' = redis /\ (Calm' => Calm)
      BY <1>6, StoresAsBefore
    <2>2. QED
      BY <1>4, <2>1 DEF IInv, PodRight, VersionsSeen, CallRight
  <1>10. OneThreadAsks'
    <2>1. \A u \in Threads : thread[u].pc \in AskingSteps => u = t
      BY <1>1 DEF IInv, OneThreadAsks, AskingSteps
    <2>2. \A u \in Threads : thread'[u].pc \notin AskingSteps
      BY <1>4, <2>1 DEF Others, AskingSteps
    <2>3. QED
      BY <1>3, <2>2 DEF OneThreadAsks, AskingSteps
  <1>11. QED
    BY <1>5, <1>6, <1>7, <1>8, <1>9, <1>10, CallStep

\* The look into the cache.
LEMMA ReadHitStep == ASSUME IInv, NEW t \in Threads, ReadHit(t) PROVE IInv'
  <1>1. /\ thread[t].pc = "hit"
        /\ \/ Return(t) /\ UNCHANGED pod
           \/ /\ Goto(t, "redis")
              /\ pod' \in {pod, [pod EXCEPT !.entry = NoEntry]}
        /\ UNCHANGED <<stores, reach, history>>
    BY DEF ReadHit
  <1>2. TypeOK
    BY DEF IInv
  <1>3. NoEntry \in Entry
    BY ValuesAreValues DEF NoEntry, Entry, NoVersion
  <1>4. /\ pod' \in Pod /\ pod'.version = pod.version /\ pod'.missed = pod.missed
        /\ pod'.connected = pod.connected /\ pod'.reconnected = pod.reconnected
        /\ pod'.refreshing = pod.refreshing /\ pod'.entry \in {pod.entry, NoEntry}
    BY <1>1, <1>2, <1>3 DEF TypeOK, Pod
  <1>5. /\ thread' \in [Threads -> Call] /\ Others(t)
        /\ thread'[t].pc \in {"idle", "redis"}
        /\ thread'[t].version \in {NoVersion, thread[t].version}
    BY <1>1, <1>2, GotoEffect, ReturnEffect DEF TypeOK, Steps
  <1>6. TypeOK'
    BY <1>1, <1>2, <1>4, <1>5 DEF TypeOK, stores, history
  <1>7. LeavesStores(t)
    BY <1>1, <1>2, <1>5 DEF LeavesStores, stores, history, TypeOK
  <1>8. PodKept' /\ PodRight'
    BY <1>4, <1>6, <1>7, PodStaysRight DEF IInv, PodRight, Connected, VersionsSeen
  <1>9. CallKept(t)'
    BY <1>5 DEF CallKept, Setting, Deleting
  <1>10. CallRight(t)'
    <2>1. redis' = redis /\ (Calm' => Calm) /\ redis.version \in Nat
      BY <1>2, <1>7, StoresAsBefore DEF TypeOK
    <2>2. QED
      BY <1>5, <2>1 DEF IInv, CallRight, NoVersion
  <1>11. OneThreadAsks'
    BY <1>1, <1>4, <1>5, AskingAsBefore DEF IInv, AskingSteps
  <1>12. QED
    BY <1>6, <1>7, <1>8, <1>9, <1>10, <1>11, CallStep

\* _probe_redis_value.
LEMMA ReadRedisStep == ASSUME IInv, NEW t \in Threads, ReadRedis(t) PROVE IInv'
  <1>1. PICK m \in Ensured :
          LET answers == m.connected /\ Reachable
              miss == answers /\ redis.value = Missing
          IN  /\ pod' = m
              /\ IF answers /\ ~miss
                 THEN Got(t, "store", redis.value, FALSE)
                 ELSE Got(t, IF m.missed THEN "store" ELSE "db",
                          IF miss THEN Missing ELSE Failed, miss)
    BY DEF ReadRedis
  <1> DEFINE answers == m.connected /\ Reachable
             miss == answers /\ redis.value = Missing
  <1>2. thread[t].pc = "redis" /\ UNCHANGED <<stores, reach, history>> /\ TypeOK
    BY DEF ReadRedis, IInv
  <1>3. /\ pod' \in Pod
        /\ pod'.entry = pod.entry /\ pod'.version = pod.version
        /\ pod'.refreshing = pod.refreshing /\ pod'.missed = pod.missed /\ m.missed = pod.missed
        /\ pod.connected => pod' = pod
    BY <1>1, EnsuredPod
  <1>4. /\ thread' \in [Threads -> Call] /\ Others(t)
        /\ thread'[t].version = thread[t].version
        /\ \/ /\ answers /\ redis.value # Missing
              /\ thread'[t].pc = "store" /\ thread'[t].value = redis.value
           \/ /\ miss
              /\ thread'[t].pc = (IF pod.missed THEN "store" ELSE "db")
              /\ thread'[t].value = Missing /\ thread'[t].miss
           \/ /\ ~answers
              /\ thread'[t].pc = (IF pod.missed THEN "store" ELSE "db")
              /\ thread'[t].value = Failed
    <2>1. CASE answers /\ ~miss
      <3>1. redis.value \in Heard /\ "store" \in Steps /\ FALSE \in BOOLEAN
        BY <1>2, ValuesAreValues DEF TypeOK, Steps
      <3>2. Got(t, "store", redis.value, FALSE)
        BY <1>1, <2>1
      <3>3. QED
        BY <1>2, <2>1, <3>1, <3>2, GotEffect DEF TypeOK
    <2>2. CASE ~(answers /\ ~miss)
      <3>1. /\ (IF pod.missed THEN "store" ELSE "db") \in Steps
            /\ (IF miss THEN Missing ELSE Failed) \in Heard /\ miss \in BOOLEAN
        BY ValuesAreValues DEF Steps
      <3>2. Got(t, IF pod.missed THEN "store" ELSE "db", IF miss THEN Missing ELSE Failed, miss)
        BY <1>1, <1>3, <2>2
      <3> HIDE DEF answers, miss
      <3>3. /\ thread' \in [Threads -> Call] /\ Others(t)
            /\ thread'[t].version = thread[t].version
            /\ thread'[t].pc = (IF pod.missed THEN "store" ELSE "db")
            /\ thread'[t].value = (IF miss THEN Missing ELSE Failed) /\ thread'[t].miss = miss
        BY <1>2, <3>1, <3>2, GotEffect DEF TypeOK
      <3>4. QED
        BY <2>2, <3>3 DEF miss
    <2>3. QED
      BY <2>1, <2>2
  <1>5. TypeOK'
    BY <1>2, <1>3, <1>4 DEF TypeOK, stores, history
  <1>6. LeavesStores(t)
    <2>1. thread'[t].pc \in {"store", "db"}
      BY <1>4
    <2>2. QED
      BY <1>2, <1>4, <2>1 DEF LeavesStores, stores, history, TypeOK
  <1>7. PodKept' /\ PodRight'
    BY <1>3, <1>5, <1>6, PodStaysRight DEF IInv, PodRight, Connected, VersionsSeen
  <1>8. CallKept(t)'
    <2>1. thread'[t].pc \in {"store", "db"}
      BY <1>4
    <2>2. Stays' /\ thread'[t].pc = "store" => thread'[t].value # Missing
      <3>1. SUFFICES ASSUME Stays', thread'[t].pc = "store", thread'[t].value = Missing PROVE FALSE
        OBVIOUS
      <3>2. ~pod.missed
        BY <1>6, <3>1, StoresAsBefore DEF IInv, PodKept
      <3>3. QED
        BY <1>4, <3>1, <3>2, ValuesAreValues
    <2>3. QED
      BY <2>1, <2>2 DEF CallKept, Setting, Deleting
  <1>9. CallRight(t)'
    <2>1. /\ redis' = redis /\ db' = db /\ (Calm' => Calm)
          /\ Effective' = Effective /\ (Writing' <=> Writing)
      BY <1>6, StoresAsBefore
    <2>2. SUFFICES ASSUME Calm'
                   PROVE  /\ thread'[t].version <= redis.version
                          /\ thread'[t].pc = "db" => thread'[t].miss
                          /\ ~Writing => /\ thread'[t].pc = "db" => Effective = db
                                         /\ thread'[t].pc \in {"restore", "store"} =>
                                              thread'[t].value = Effective
      BY <2>1 DEF CallRight
    <2>3. Calm /\ answers
      BY <2>1, <2>2, <1>1, <1>3 DEF IInv, PodRight, Connected, Reachable, Places
    <2>4. thread'[t].version <= redis.version
      BY <1>4, <2>3 DEF IInv, CallRight
    <2> HIDE DEF answers
    <2>5. thread'[t].pc = "db" => thread'[t].miss /\ redis.value = Missing
      BY <1>4, <2>3 DEF miss
    <2>6. thread'[t].pc = "db" => Effective = db
      BY <2>5 DEF Effective
    <2>7. ASSUME ~Writing, thread'[t].pc \in {"restore", "store"}
          PROVE  thread'[t].value = Effective
      <3>1. CASE redis.value # Missing
        BY <1>4, <2>3, <2>7, <3>1 DEF Effective, miss
      <3>2. CASE redis.value = Missing
        <4>1. pod.missed /\ thread'[t].value = Missing
          BY <1>4, <2>3, <2>7, <3>2
        <4>2. db = Missing
          BY <2>3, <2>7, <3>2, <4>1 DEF IInv, PodRight, MissedRight, Writing
        <4>3. QED
          BY <3>2, <4>1, <4>2 DEF Effective
      <3>3. QED
        BY <3>1, <3>2
    <2>8. QED
      BY <2>4, <2>5, <2>6, <2>7
  <1>10. OneThreadAsks'
    <2>1. thread'[t].pc \in {"store", "db"}
      BY <1>4
    <2>2. QED
      BY <1>2, <1>3, <1>4, <2>1, AskingAsBefore DEF IInv, AskingSteps
  <1>11. QED
    BY <1>5, <1>6, <1>7, <1>8, <1>9, <1>10, CallStep

\* _probe_db_row: the row may be gone only if somebody deleted it, and a failed
\* query is not such a row.
LEMMA ReadDbStep == ASSUME IInv, NEW t \in Threads, ReadDb(t) PROVE IInv'
  <1>1. /\ thread[t].pc = "db"
        /\ UNCHANGED <<stores, reach, sets, deleted, existed, crossed>>
        /\ faults' = faults \/ faults' = faults + 1
    BY DEF ReadDb, DbAnswers, NoFault, Fault
  <1>2. TypeOK /\ CallRight(t)
    BY DEF IInv
  <1>3. thread[t].miss \in BOOLEAN
    BY <1>2 DEF TypeOK, Call
  <1>4. /\ thread' \in [Threads -> Call] /\ Others(t)
        /\ thread'[t].version = thread[t].version
        /\ \/ /\ faults' = faults /\ (pod' = [pod EXCEPT !.missed = (db = Missing)])
              /\ thread'[t].pc = (IF db # Missing /\ thread[t].miss THEN "restore" ELSE "store")
              /\ thread'[t].value = (IF db = Missing /\ ~thread[t].miss THEN Failed ELSE db)
           \/ /\ faults' = faults + 1 /\ pod' = [pod EXCEPT !.missed = FALSE]
              /\ thread'[t].pc = "store" /\ thread'[t].value = Failed
    <2>1. CASE DbAnswers(t)
      <3> DEFINE label == IF db # Missing /\ thread[t].miss THEN "restore" ELSE "store"
                 value == IF db = Missing /\ ~thread[t].miss THEN Failed ELSE db
      <3>1. label \in Steps /\ value \in Heard
        BY <1>2, ValuesAreValues DEF Steps, TypeOK
      <3>2. /\ Got(t, label, value, thread[t].miss)
            /\ faults' = faults /\ pod' = [pod EXCEPT !.missed = (db = Missing)]
        BY <2>1 DEF DbAnswers, NoFault
      <3> HIDE DEF label, value
      <3>3. /\ thread' \in [Threads -> Call] /\ Others(t)
            /\ thread'[t].version = thread[t].version
            /\ thread'[t].pc = label /\ thread'[t].value = value
        BY <1>2, <1>3, <3>1, <3>2, GotEffect DEF TypeOK
      <3>4. QED
        BY <3>2, <3>3 DEF label, value
    <2>2. CASE Fault /\ Got(t, "store", Failed, FALSE) /\ pod' = [pod EXCEPT !.missed = FALSE]
      <3>1. "store" \in Steps /\ Failed \in Heard /\ FALSE \in BOOLEAN
        BY ValuesAreValues DEF Steps
      <3>2. /\ thread' \in [Threads -> Call] /\ Others(t)
            /\ thread'[t].version = thread[t].version
            /\ thread'[t].pc = "store" /\ thread'[t].value = Failed
        <4>1. Got(t, "store", Failed, FALSE) /\ thread \in [Threads -> Call]
          BY <1>2, <2>2 DEF TypeOK
        <4>2. QED
          BY <3>1, <4>1, GotEffect
      <3>3. faults' = faults + 1
        BY <2>2 DEF Fault
      <3>4. QED
        BY <2>2, <3>2, <3>3
    <2>3. QED
      BY <2>1, <2>2 DEF ReadDb
  <1>5. /\ pod' \in Pod /\ pod'.version = pod.version
        /\ pod'.connected = pod.connected /\ pod'.reconnected = pod.reconnected
        /\ pod'.refreshing = pod.refreshing /\ pod'.entry = pod.entry
        /\ pod'.missed => db = Missing
    BY <1>2, <1>4 DEF TypeOK, Pod
  <1>6. TypeOK'
    BY <1>1, <1>2, <1>4, <1>5 DEF TypeOK, stores
  <1>7. thread'[t].pc \in {"restore", "store"}
    BY <1>4
  <1>8. LeavesStores(t)
    <2>1. faults' \in Nat /\ (faults' = 0 => faults = 0)
      BY <1>1, <1>2 DEF TypeOK
    <2>2. QED
      BY <1>1, <1>4, <1>7, <2>1 DEF LeavesStores
  <1>9. PodKept' /\ PodRight'
    BY <1>5, <1>6, <1>8, PodStaysRight DEF IInv, PodRight, Connected, VersionsSeen
  <1>10. CallKept(t)'
    <2>1. thread'[t].pc = "restore" => thread'[t].value \in Values
      BY <1>2, <1>4, ValuesAreValues DEF TypeOK
    <2>2. Stays' /\ thread'[t].pc = "store" => thread'[t].value # Missing
      <3>1. Stays' => db # Missing
        BY <1>8, StoresAsBefore DEF IInv, RowKept
      <3>2. QED
        BY <1>4, <3>1, ValuesAreValues
    <2>3. QED
      BY <1>7, <2>1, <2>2 DEF CallKept, Setting, Deleting
  <1>11. CallRight(t)'
    <2>1. /\ redis' = redis /\ db' = db /\ (Calm' => Calm)
          /\ Effective' = Effective /\ (Writing' <=> Writing)
      BY <1>8, StoresAsBefore
    <2>2. ASSUME Calm' PROVE thread[t].miss /\ thread'[t].version <= redis.version /\ thread'[t].value = db
      <3>1. Calm /\ thread[t].miss /\ thread[t].version <= redis.version
        BY <1>1, <1>2, <2>1, <2>2 DEF CallRight
      <3>2. faults' = faults
        BY <1>2, <2>2, <1>4 DEF Calm, TypeOK
      <3>3. QED
        BY <1>2, <1>4, <3>1, <3>2 DEF TypeOK
    <2>3. QED
      BY <1>1, <1>2, <1>4, <1>7, <2>1, <2>2 DEF CallRight
  <1>12. OneThreadAsks'
    BY <1>1, <1>5, <1>7, <1>8, AskingAsBefore DEF IInv, AskingSteps, LeavesStores
  <1>13. QED
    BY <1>6, <1>8, <1>9, <1>10, <1>11, <1>12, CallStep

\* A value is remembered under the version known before the stores were read, if
\* the pod still goes by that version.
LEMMA ReadStoreStep == ASSUME IInv, NEW t \in Threads, ReadStore(t) PROVE IInv'
  <1>1. /\ thread[t].pc = "store"
        /\ \/ /\ thread[t].value # Failed
              /\ pod' = [pod EXCEPT !.entry = [value |-> thread[t].value, tag |-> thread[t].version]]
           \/ pod' = pod
        /\ Return(t)
        /\ UNCHANGED <<stores, reach, history>>
    BY DEF ReadStore, Store
  <1>2. TypeOK /\ CallKept(t) /\ CallRight(t)
    BY DEF IInv
  <1>3. thread[t].value \in Heard /\ thread[t].version \in Nat
    BY <1>2 DEF TypeOK, Call
  <1>4. /\ pod' \in Pod /\ pod'.version = pod.version /\ pod'.missed = pod.missed
        /\ pod'.connected = pod.connected /\ pod'.reconnected = pod.reconnected
        /\ pod'.refreshing = pod.refreshing
        /\ \/ /\ thread[t].value # Failed
              /\ pod'.entry.value = thread[t].value /\ pod'.entry.tag = thread[t].version
           \/ pod'.entry = pod.entry
    BY <1>1, <1>2, <1>3 DEF TypeOK, Pod, Entry
  <1>5. /\ thread' \in [Threads -> Call] /\ Others(t)
        /\ thread'[t].pc = "idle" /\ thread'[t].version = NoVersion
    BY <1>1, <1>2, ReturnEffect DEF TypeOK
  <1>6. TypeOK'
    BY <1>1, <1>2, <1>4, <1>5 DEF TypeOK, stores, history
  <1>7. LeavesStores(t)
    BY <1>1, <1>2, <1>5 DEF LeavesStores, stores, history, TypeOK
  <1>8. PodKept' /\ PodRight'
    <2>1. Calm => pod'.connected /\ ~pod'.reconnected /\ pod'.version <= redis.version
      BY <1>4 DEF IInv, PodRight, Connected, VersionsSeen
    <2>2. CASE pod'.entry = pod.entry
      BY <1>4, <1>6, <1>7, <2>1, <2>2, PodStaysRight
    <2>3. CASE /\ thread[t].value # Failed
               /\ pod'.entry.value = thread[t].value /\ pod'.entry.tag = thread[t].version
      <3>1. Stays => pod'.entry.value # Missing
        BY <1>1, <1>2, <2>3 DEF CallKept
      <3>2. /\ Calm => pod'.entry.tag <= redis.version
            /\ Calm /\ ~Writing /\ pod'.entry.tag = redis.version => pod'.entry.value = Effective
        BY <1>1, <1>2, <2>3 DEF CallRight
      <3>3. QED
        BY <1>4, <1>6, <1>7, <2>1, <3>1, <3>2, PodStaysRight
    <2>4. QED
      BY <1>4, <2>2, <2>3
  <1>9. CallKept(t)'
    BY <1>5 DEF CallKept, Setting, Deleting
  <1>10. CallRight(t)'
    BY <1>5, <1>6 DEF CallRight, NoVersion, TypeOK
  <1>11. OneThreadAsks'
    BY <1>1, <1>4, <1>5, AskingAsBefore DEF IInv, AskingSteps
  <1>12. QED
    BY <1>6, <1>7, <1>8, <1>9, <1>10, <1>11, CallStep

\* forget_cached_values, after the INCR of a set_config or of a delete_config.
LEMMA ForgetStep ==
  ASSUME IInv, NEW t \in Threads, SetForget(t) \/ DeleteForget(t) PROVE IInv'
  <1>1. /\ \/ thread[t].pc = "forget" /\ Goto(t, "setdb")
           \/ thread[t].pc = "delforget" /\ Return(t)
        /\ pod' \in {pod, Forgotten(pod), [Forgotten(pod) EXCEPT !.missed = FALSE]}
        /\ UNCHANGED <<stores, reach, history>>
    BY DEF SetForget, DeleteForget
  <1>2. TypeOK /\ CallKept(t) /\ CallRight(t)
    BY DEF IInv
  <1>3. NoEntry \in Entry
    BY ValuesAreValues DEF NoEntry, Entry, NoVersion
  <1>4. /\ pod' \in Pod /\ pod'.version = pod.version /\ (pod'.missed => pod.missed)
        /\ pod'.connected = pod.connected /\ pod'.reconnected = pod.reconnected
        /\ pod'.refreshing = pod.refreshing /\ pod'.entry \in {pod.entry, NoEntry}
    <2>1. /\ Forgotten(pod) \in Pod
          /\ Forgotten(pod) = [pod EXCEPT !.entry = NoEntry, !.due = TRUE]
      BY <1>2, <1>3 DEF TypeOK, Pod, Forgotten
    <2>2. /\ Forgotten(pod).version = pod.version /\ Forgotten(pod).missed = pod.missed
          /\ Forgotten(pod).connected = pod.connected
          /\ Forgotten(pod).reconnected = pod.reconnected
          /\ Forgotten(pod).refreshing = pod.refreshing /\ Forgotten(pod).entry = NoEntry
      BY <1>2, <2>1 DEF TypeOK, Pod
    <2>3. CASE pod' \in {pod, Forgotten(pod)}
      BY <1>2, <2>1, <2>2, <2>3 DEF TypeOK
    <2>4. CASE pod' = [Forgotten(pod) EXCEPT !.missed = FALSE]
      BY <2>1, <2>2, <2>4 DEF Pod
    <2>5. QED
      BY <1>1, <2>3, <2>4
  <1>5. /\ thread' \in [Threads -> Call] /\ Others(t)
        /\ \/ thread[t].pc = "forget" /\ thread'[t].pc = "setdb"
           \/ thread[t].pc = "delforget" /\ thread'[t].pc = "idle"
        /\ thread'[t].version \in {NoVersion, thread[t].version}
        /\ thread'[t].pc = "setdb" => thread'[t].value = thread[t].value
    BY <1>1, <1>2, GotoEffect, ReturnEffect DEF TypeOK, Steps, Setting
  <1>6. TypeOK'
    BY <1>1, <1>2, <1>4, <1>5 DEF TypeOK, stores, history
  <1>7. LeavesStores(t)
    BY <1>1, <1>2, <1>5 DEF LeavesStores, stores, history, TypeOK
  <1>8. PodKept' /\ PodRight'
    BY <1>4, <1>6, <1>7, PodStaysRight DEF IInv, PodRight, Connected, VersionsSeen
  <1>9. CallKept(t)'
    <2>1. thread'[t].pc = "setdb" => thread'[t].value \in Values
      BY <1>2, <1>5 DEF CallKept, Setting
    <2>2. thread'[t].pc \in {"setdb", "idle"}
      BY <1>5
    <2>3. QED
      BY <2>1, <2>2 DEF CallKept, Setting, Deleting
  <1>10. CallRight(t)'
    <2>1. redis' = redis /\ (Calm' => Calm) /\ redis.version \in Nat
      BY <1>2, <1>7, StoresAsBefore DEF TypeOK
    <2>2. QED
      BY <1>2, <1>5, <2>1 DEF CallRight, NoVersion
  <1>11. OneThreadAsks'
    BY <1>4, <1>5, AskingAsBefore DEF IInv, AskingSteps
  <1>12. QED
    BY <1>6, <1>7, <1>8, <1>9, <1>10, <1>11, CallStep

-----------------------------------------------------------------------------
(* Steps that change the stores.                                           *)

\* What is right for the call that moved and for the pod is right for all, if the
\* stores hold for the others what they held, or their versions are out of date.
LEMMA WriteStep ==
  ASSUME IInv, NEW t \in Threads, Others(t), TypeOK',
         existed' = existed, deleted => deleted',
         Calm' => /\ Calm
                  /\ redis.version <= redis'.version
                  /\ \/ Writing'
                     \/ redis.version < redis'.version
                     \/ /\ ~Writing /\ Effective' = Effective
                        /\ Effective = db => Effective' = db',
         RowKept', PodKept', PodRight', CallKept(t)', CallRight(t)', OneThreadAsks'
  PROVE  IInv'
  <1> DEFINE rest == Threads \ {t}
  <1>1. rest \in SUBSET Threads /\ \A u \in rest : thread'[u] = thread[u]
    BY DEF Others
  <1>2. Calm' => /\ Calm
                 /\ redis.version \in Nat /\ redis'.version \in Nat
                 /\ redis.version <= redis'.version
                 /\ \/ Writing'
                    \/ redis.version < redis'.version
                    \/ /\ ~Writing /\ Effective' = Effective
                       /\ Effective = db => Effective' = db'
    BY DEF IInv, TypeOK
  <1> HIDE DEF rest
  <1>3. \A u \in rest : CallKept(u)' /\ CallRight(u)'
    BY <1>1, <1>2, OthersStayRight
  <1>4. \A u \in Threads : CallKept(u)' /\ CallRight(u)'
    BY <1>3 DEF rest
  <1>5. QED
    BY <1>4 DEF IInv

\* _restore_to_redis.
LEMMA ReadRestoreStep == ASSUME IInv, NEW t \in Threads, ReadRestore(t) PROVE IInv'
  <1>1. /\ thread[t].pc = "restore" /\ Goto(t, "store")
        /\ UNCHANGED <<db, reach, pod, sets, deleted, existed, faults>>
        /\ \/ /\ redis' = [redis EXCEPT !.value = thread[t].value]
              /\ crossed' \in BOOLEAN
              /\ ~crossed' => /\ ~crossed /\ db = thread[t].value
                              /\ redis.value \in {Missing, thread[t].value}
           \/ redis' = redis /\ crossed' = crossed
    BY DEF ReadRestore, IInv, TypeOK
  <1>2. TypeOK /\ CallKept(t) /\ CallRight(t)
    BY DEF IInv
  <1>3. thread[t].value \in Values /\ thread[t].value \in Known /\ thread[t].value # Missing
    BY <1>1, <1>2, ValuesAreValues DEF CallKept, Known
  <1>4. /\ thread' \in [Threads -> Call] /\ Others(t)
        /\ thread'[t].pc = "store" /\ thread'[t].value = thread[t].value
        /\ thread'[t].version = thread[t].version
    BY <1>1, <1>2, GotoEffect DEF TypeOK, Steps
  <1>5. /\ redis' \in [value : Known, version : Nat] /\ redis'.version = redis.version
        /\ \/ /\ redis'.value = thread[t].value
              /\ ~crossed' => /\ ~crossed /\ db = thread[t].value
                              /\ redis.value \in {Missing, thread[t].value}
           \/ redis' = redis /\ crossed' = crossed
    BY <1>1, <1>2, <1>3 DEF TypeOK
  <1>6. TypeOK'
    BY <1>1, <1>2, <1>4, <1>5 DEF TypeOK
  <1>7. (Writing' <=> Writing) /\ (Stays' <=> Stays)
    BY <1>1, <1>4, WritingAsBefore DEF Stays
  <1>8. Calm' => /\ Calm /\ Effective' = Effective
                 /\ redis'.value # redis.value => redis'.value # Missing /\ thread[t].value = Effective
    BY <1>1, <1>3, <1>5 DEF Calm, Effective
  <1>9. RowKept' /\ PodKept'
    BY <1>1, <1>7 DEF IInv, RowKept, PodKept
  <1>10. PodRight'
    <2>1. Connected' /\ VersionsSeen'
      BY <1>1, <1>5, <1>8 DEF IInv, PodRight, Connected, VersionsSeen
    <2>2. EntryRight'
      BY <1>1, <1>5, <1>7, <1>8 DEF IInv, PodRight, EntryRight
    <2>3. MissedRight'
      <3>1. SUFFICES ASSUME Calm', pod'.missed, redis'.value = Missing, db' # Missing
                     PROVE  \E u \in Threads : thread'[u].pc = "deldb"
        BY DEF MissedRight
      <3>2. redis.value = Missing
        BY <1>8, <3>1
      <3>3. \E u \in Threads : thread[u].pc = "deldb"
        BY <1>1, <1>8, <3>1, <3>2 DEF IInv, PodRight, MissedRight
      <3>4. QED
        BY <1>1, <1>4, <3>3 DEF Others
    <2>4. QED
      BY <2>1, <2>2, <2>3 DEF PodRight
  <1>11. CallKept(t)'
    BY <1>3, <1>4 DEF CallKept, Setting, Deleting
  <1>12. CallRight(t)'
    <2>1. SUFFICES ASSUME Calm'
                   PROVE  /\ thread[t].version <= redis.version
                          /\ ~Writing /\ thread[t].version = redis.version => thread[t].value = Effective
      BY <1>4, <1>5, <1>7, <1>8 DEF CallRight
    <2>2. thread[t].value # Failed
      BY <1>3, ValuesAreValues
    <2>3. QED
      BY <1>1, <1>2, <1>8, <2>1, <2>2 DEF CallRight
  <1>13. OneThreadAsks'
    BY <1>1, <1>4, AskingAsBefore DEF IInv, AskingSteps
  <1>14. redis.version \in Nat
    BY <1>2 DEF TypeOK
  <1>15. Calm' => /\ Calm
                  /\ redis.version <= redis'.version
                  /\ \/ Writing'
                     \/ redis.version < redis'.version
                     \/ /\ ~Writing /\ Effective' = Effective
                        /\ Effective = db => Effective' = db'
    BY <1>1, <1>5, <1>7, <1>8, <1>14
  <1>16. QED
    BY <1>1, <1>4, <1>6, <1>9, <1>10, <1>11, <1>12, <1>13, <1>15, WriteStep

\* The SET of set_config: a write is in progress from here to its INCR.
LEMMA SetRedisStep ==
  ASSUME IInv, NEW t \in Threads, NEW p \in Places, SetRedis(t, p) PROVE IInv'
  <1>1. PICK m \in (IF p = "here" THEN Ensured ELSE {pod}) :
          LET written == p \in reach /\ (p = "here" => m.connected)
          IN  /\ pod' = IF p = "here" THEN [m EXCEPT !.connected = written] ELSE pod
              /\ redis' = IF written THEN [redis EXCEPT !.value = sets + 2] ELSE redis
              /\ Enter(t, p, IF written THEN "incr" ELSE "forget", NoVersion, sets + 2)
    BY DEF SetRedis
  <1> DEFINE written == p \in reach /\ (p = "here" => m.connected)
  <1>2. /\ thread[t].pc = "idle" /\ sets < MaxSets /\ sets' = sets + 1
        /\ UNCHANGED <<db, reach, deleted, existed, faults, crossed>>
    BY DEF SetRedis
  <1>3. TypeOK
    BY DEF IInv
  <1>4. sets + 2 \in Values /\ sets + 2 \in Known /\ sets + 2 # Missing /\ sets + 1 \in 0..MaxSets
    BY <1>2, <1>3, ValuesAreValues DEF TypeOK, Known
  <1>5. /\ m \in Pod
        /\ m.entry = pod.entry /\ m.version = pod.version
        /\ m.refreshing = pod.refreshing /\ m.missed = pod.missed
        /\ pod.connected => m = pod
    BY <1>3, EnsuredPod DEF TypeOK
  <1>6. /\ pod' \in Pod
        /\ pod'.entry = pod.entry /\ pod'.version = pod.version
        /\ pod'.refreshing = pod.refreshing /\ pod'.missed = pod.missed
        /\ pod'.connected = (IF p = "here" THEN written ELSE pod.connected)
        /\ pod.connected => pod'.reconnected = pod.reconnected
    BY <1>1, <1>3, <1>5 DEF TypeOK, Pod
  <1>7. /\ redis' \in [value : Known, version : Nat] /\ redis'.version = redis.version
        /\ redis'.value = IF written THEN sets + 2 ELSE redis.value
    BY <1>1, <1>3, <1>4 DEF TypeOK
  <1>8. /\ thread' \in [Threads -> Call] /\ Others(t)
        /\ thread'[t].pc = (IF written THEN "incr" ELSE "forget")
        /\ thread'[t].version = NoVersion /\ thread'[t].value = sets + 2
    <2>1. /\ (IF written THEN "incr" ELSE "forget") \in Steps /\ NoVersion \in Nat
          /\ sets + 2 \in Heard
      BY <1>4 DEF Steps, Setting, NoVersion, Heard
    <2>2. Enter(t, p, IF written THEN "incr" ELSE "forget", NoVersion, sets + 2)
      BY <1>1
    <2> HIDE DEF written
    <2>3. QED
      BY <1>3, <2>1, <2>2, EnterEffect DEF TypeOK
  <1>9. TypeOK'
    BY <1>2, <1>3, <1>4, <1>6, <1>7, <1>8 DEF TypeOK
  <1>10. (Calm' <=> Calm) /\ (Stays' <=> Stays)
    BY <1>2 DEF Calm, Stays
  <1>11. Calm => written
    BY <1>5 DEF IInv, PodRight, Connected
  <1> HIDE DEF written
  <1>12. Calm => Writing'
    BY <1>8, <1>11 DEF Writing
  <1>13. RowKept' /\ PodKept'
    BY <1>2, <1>6, <1>10 DEF IInv, RowKept, PodKept
  <1>14. PodRight'
    <2>1. Connected' /\ VersionsSeen'
      BY <1>2, <1>6, <1>7, <1>10, <1>11 DEF IInv, PodRight, Connected, VersionsSeen
    <2>2. EntryRight' /\ MissedRight'
      BY <1>4, <1>7, <1>10, <1>11, <1>12 DEF EntryRight, MissedRight
    <2>3. QED
      BY <2>1, <2>2 DEF PodRight
  <1>15. CallKept(t)'
    BY <1>4, <1>8 DEF CallKept, Setting, Deleting
  <1>16. CallRight(t)'
    BY <1>8, <1>9, <1>10, <1>11 DEF CallRight, NoVersion, TypeOK
  <1>17. OneThreadAsks'
    <2>1. thread'[t].pc \notin AskingSteps /\ thread[t].pc \notin AskingSteps
      BY <1>2, <1>8 DEF AskingSteps
    <2>2. QED
      BY <1>6, <1>8, <2>1, AskingAsBefore DEF IInv
  <1>18. redis.version \in Nat
    BY <1>3 DEF TypeOK
  <1>19. Calm' => Calm /\ redis.version <= redis'.version /\ Writing'
    BY <1>7, <1>10, <1>12, <1>18
  <1>20. QED
    BY <1>2, <1>8, <1>9, <1>13, <1>14, <1>15, <1>16, <1>17, <1>19, WriteStep

\* The INCR of a set_config or a delete_config: every version read so far is old.
LEMMA IncrStep ==
  ASSUME IInv, NEW t \in Threads, Incr(t, "incr", "forget") \/ Incr(t, "delincr", "delforget")
  PROVE  IInv'
  <1>1. /\ \/ thread[t].pc = "incr" /\ Goto(t, "forget")
           \/ thread[t].pc = "delincr" /\ Goto(t, "delforget")
        /\ redis' = IF thread[t].on \in reach THEN [redis EXCEPT !.version = @ + 1] ELSE redis
        /\ UNCHANGED <<db, reach, pod, history>>
    BY DEF Incr
  <1>2. TypeOK /\ CallKept(t) /\ CallRight(t)
    BY DEF IInv
  <1>3. /\ redis' \in [value : Known, version : Nat] /\ redis'.value = redis.value
        /\ redis'.version = IF thread[t].on \in reach THEN redis.version + 1 ELSE redis.version
        /\ redis.version \in Nat
    BY <1>1, <1>2 DEF TypeOK
  <1>4. /\ thread' \in [Threads -> Call] /\ Others(t)
        /\ \/ thread[t].pc = "incr" /\ thread'[t].pc = "forget"
           \/ thread[t].pc = "delincr" /\ thread'[t].pc = "delforget"
        /\ thread'[t].version = thread[t].version /\ thread'[t].value = thread[t].value
    BY <1>1, <1>2, GotoEffect DEF TypeOK, Steps, Setting, Deleting
  <1>5. TypeOK'
    BY <1>1, <1>2, <1>3, <1>4 DEF TypeOK, history
  <1>6. (Calm' <=> Calm) /\ (Stays' <=> Stays) /\ db' = db /\ pod' = pod /\ deleted' = deleted
    BY <1>1 DEF Calm, Stays, history
  <1>7. Calm => redis'.version = redis.version + 1
    <2>1. thread[t].on \in Places
      BY <1>2 DEF TypeOK, Call
    <2>2. QED
      BY <1>3, <2>1 DEF IInv, PodRight, Connected
  <1>8. RowKept' /\ PodKept'
    BY <1>6 DEF IInv, RowKept, PodKept
  <1>9. PodRight'
    <2>1. Connected'
      BY <1>1, <1>6 DEF IInv, PodRight, Connected
    <2>2. pod.version \in Nat /\ pod.entry.tag \in Nat
      BY <1>2 DEF TypeOK, Pod, Entry
    <2>3. Calm => pod.version < redis'.version /\ pod.entry.tag < redis'.version
      BY <1>3, <1>7, <2>2 DEF IInv, PodRight, VersionsSeen
    <2>4. VersionsSeen' /\ EntryRight'
      BY <1>3, <1>5, <1>6, <2>2, <2>3 DEF VersionsSeen, EntryRight, TypeOK
    <2>5. MissedRight'
      BY <1>3, <1>4, <1>6 DEF IInv, PodRight, MissedRight, Others
    <2>6. QED
      BY <2>1, <2>4, <2>5 DEF PodRight
  <1>10. CallKept(t)'
    <2>1. thread'[t].pc = "forget" => thread'[t].value \in Values
      BY <1>2, <1>4 DEF CallKept, Setting
    <2>2. thread'[t].pc = "delforget" => deleted'
      BY <1>2, <1>4, <1>6 DEF CallKept, Deleting
    <2>3. thread'[t].pc \in {"forget", "delforget"}
      BY <1>4
    <2>4. QED
      BY <2>1, <2>2, <2>3 DEF CallKept, Setting, Deleting
  <1>11. CallRight(t)'
    <2>1. thread[t].version \in Nat
      BY <1>2 DEF TypeOK, Call
    <2>2. Calm' => thread'[t].version <= redis'.version
      BY <1>2, <1>3, <1>4, <1>6, <1>7, <2>1 DEF CallRight
    <2>3. thread'[t].pc \in {"forget", "delforget"}
      BY <1>4
    <2>4. QED
      BY <2>2, <2>3 DEF CallRight
  <1>12. OneThreadAsks'
    BY <1>4, <1>6, AskingAsBefore DEF IInv, AskingSteps
  <1>13. Calm' => Calm /\ redis.version <= redis'.version /\ redis.version < redis'.version
    BY <1>3, <1>6, <1>7
  <1>14. existed' = existed
    BY <1>1 DEF history
  <1>15. QED
    BY <1>4, <1>5, <1>6, <1>8, <1>9, <1>10, <1>11, <1>12, <1>13, <1>14, WriteStep

\* The row of set_config: Redis holds the value already, unless writes crossed.
LEMMA SetDbStep == ASSUME IInv, NEW t \in Threads, SetDb(t) PROVE IInv'
  <1>1. /\ thread[t].pc = "setdb" /\ Return(t)
        /\ \/ db' = thread[t].value /\ faults' = faults
           \/ db' = db /\ faults' = faults + 1
        /\ crossed' = (crossed \/ redis.value # thread[t].value)
        /\ UNCHANGED <<redis, reach, pod, sets, deleted, existed>>
    BY DEF SetDb, NoFault, Fault
  <1>2. TypeOK /\ CallKept(t)
    BY DEF IInv
  <1>3. thread[t].value \in Values /\ thread[t].value \in Known /\ thread[t].value # Missing
    BY <1>1, <1>2, ValuesAreValues DEF CallKept, Setting, Known
  <1>4. /\ thread' \in [Threads -> Call] /\ Others(t)
        /\ thread'[t].pc = "idle" /\ thread'[t].version = NoVersion
    BY <1>1, <1>2, ReturnEffect DEF TypeOK
  <1>5. TypeOK'
    <2>1. faults' \in Nat /\ db' \in Known
      BY <1>1, <1>2, <1>3 DEF TypeOK
    <2>2. crossed' \in BOOLEAN
      BY <1>1
    <2>3. QED
      BY <1>1, <1>2, <1>4, <2>1, <2>2 DEF TypeOK
  <1>6. (Writing' <=> Writing) /\ (Stays' <=> Stays)
    BY <1>1, <1>4, WritingAsBefore DEF Stays
  <1>7. Calm' => /\ Calm /\ redis.value # Missing /\ db' = redis.value
                 /\ Effective' = Effective /\ Effective = db'
    <2>1. Calm' => faults' = faults /\ Calm
      BY <1>1, <1>2 DEF Calm, TypeOK
    <2>2. Calm' => redis.value = thread[t].value
      BY <1>1 DEF Calm
    <2>3. Calm' => db' = thread[t].value
      BY <1>1, <1>2, <2>1 DEF TypeOK
    <2>4. QED
      BY <1>1, <1>3, <2>1, <2>2, <2>3 DEF Effective
  <1>8. RowKept' /\ PodKept'
    BY <1>1, <1>3, <1>6 DEF IInv, RowKept, PodKept
  <1>9. PodRight'
    BY <1>1, <1>6, <1>7 DEF IInv, PodRight, Connected, VersionsSeen, EntryRight, MissedRight
  <1>10. CallKept(t)'
    BY <1>4 DEF CallKept, Setting, Deleting
  <1>11. CallRight(t)'
    BY <1>4, <1>5 DEF CallRight, NoVersion, TypeOK
  <1>12. OneThreadAsks'
    BY <1>1, <1>4, AskingAsBefore DEF IInv, AskingSteps
  <1>13. redis.version \in Nat
    BY <1>2 DEF TypeOK
  <1>14. Calm' => /\ Calm
                  /\ redis.version <= redis'.version
                  /\ \/ Writing'
                     \/ redis.version < redis'.version
                     \/ /\ ~Writing /\ Effective' = Effective
                        /\ Effective = db => Effective' = db'
    BY <1>1, <1>6, <1>7, <1>13
  <1>15. QED
    BY <1>1, <1>4, <1>5, <1>8, <1>9, <1>10, <1>11, <1>12, <1>14, WriteStep

\* delete_config has found the setting: from here on it may go missing.
LEMMA DeleteReadStep ==
  ASSUME IInv, NEW t \in Threads, NEW p \in Places, DeleteRead(t, p) PROVE IInv'
  <1>1. /\ thread[t].pc = "idle" /\ deleted' = TRUE
        /\ Enter(t, p, "delredis", NoVersion, Missing)
        /\ UNCHANGED <<stores, reach, pod, sets, existed, faults, crossed>>
    BY DEF DeleteRead
  <1>2. TypeOK
    BY DEF IInv
  <1>3. /\ thread' \in [Threads -> Call] /\ Others(t)
        /\ thread'[t].pc = "delredis" /\ thread'[t].version = NoVersion
    BY <1>1, <1>2, EnterEffect, ValuesAreValues DEF TypeOK, Steps, Deleting, NoVersion
  <1>4. TypeOK'
    BY <1>1, <1>2, <1>3 DEF TypeOK, stores
  <1>5. /\ Writing' <=> Writing
        /\ Effective' = Effective /\ redis' = redis /\ db' = db
        /\ Calm' <=> Calm
        /\ ~Stays'
    <2>1. Writing' <=> Writing
      BY <1>1, <1>3, WritingAsBefore
    <2>2. QED
      BY <1>1, <2>1 DEF stores, Effective, Calm, Stays
  <1>6. RowKept' /\ PodKept'
    BY <1>5 DEF RowKept, PodKept
  <1>7. PodRight'
    <2>1. Connected' /\ VersionsSeen' /\ EntryRight'
      BY <1>1, <1>5 DEF IInv, PodRight, Connected, VersionsSeen, EntryRight
    <2>2. MissedRight'
      BY <1>1, <1>3, <1>5 DEF IInv, PodRight, MissedRight, Others
    <2>3. QED
      BY <2>1, <2>2 DEF PodRight
  <1>8. CallKept(t)'
    BY <1>1, <1>3 DEF CallKept, Setting, Deleting
  <1>9. CallRight(t)'
    BY <1>3, <1>4 DEF CallRight, NoVersion, TypeOK
  <1>10. OneThreadAsks'
    BY <1>1, <1>3, AskingAsBefore DEF IInv, AskingSteps
  <1>11. redis.version \in Nat
    BY <1>2 DEF TypeOK
  <1>12. Calm' => /\ Calm
                  /\ redis.version <= redis'.version
                  /\ \/ Writing'
                     \/ redis.version < redis'.version
                     \/ /\ ~Writing /\ Effective' = Effective
                        /\ Effective = db => Effective' = db'
    BY <1>5, <1>11
  <1>13. QED
    BY <1>1, <1>3, <1>4, <1>6, <1>7, <1>8, <1>9, <1>10, <1>12, WriteStep

\* The DEL of delete_config: a write is in progress from here to its INCR.
LEMMA DeleteRedisStep == ASSUME IInv, NEW t \in Threads, DeleteRedis(t) PROVE IInv'
  <1>1. /\ thread[t].pc = "delredis" /\ Goto(t, "deldb")
        /\ redis' \in {redis, [redis EXCEPT !.value = Missing]}
        /\ UNCHANGED <<db, reach, pod, history>>
    BY DEF DeleteRedis
  <1>2. TypeOK /\ CallKept(t) /\ CallRight(t)
    BY DEF IInv
  <1>3. redis' \in [value : Known, version : Nat] /\ redis'.version = redis.version
    BY <1>1, <1>2, ValuesAreValues DEF TypeOK
  <1>4. /\ thread' \in [Threads -> Call] /\ Others(t)
        /\ thread'[t].pc = "deldb" /\ thread'[t].version = thread[t].version
    BY <1>1, <1>2, GotoEffect DEF TypeOK, Steps, Deleting
  <1>5. TypeOK'
    BY <1>1, <1>2, <1>3, <1>4 DEF TypeOK, history
  <1>6. /\ Writing'
        /\ Calm' <=> Calm
        /\ deleted /\ deleted' = deleted /\ ~Stays'
    BY <1>1, <1>2, <1>4 DEF Writing, Calm, history, CallKept, Deleting, Stays
  <1>7. RowKept' /\ PodKept'
    BY <1>6 DEF RowKept, PodKept
  <1>8. PodRight'
    <2>1. Connected' /\ VersionsSeen'
      BY <1>1, <1>3, <1>6 DEF IInv, PodRight, Connected, VersionsSeen
    <2>2. EntryRight' /\ MissedRight'
      BY <1>4, <1>6 DEF EntryRight, MissedRight
    <2>3. QED
      BY <2>1, <2>2 DEF PodRight
  <1>9. CallKept(t)'
    BY <1>4, <1>6 DEF CallKept, Setting, Deleting
  <1>10. CallRight(t)'
    BY <1>2, <1>3, <1>4, <1>6 DEF CallRight
  <1>11. OneThreadAsks'
    BY <1>1, <1>4, AskingAsBefore DEF IInv, AskingSteps
  <1>12. Calm' => Calm /\ redis.version <= redis'.version /\ Writing'
    BY <1>2, <1>3, <1>6 DEF TypeOK
  <1>13. existed' = existed
    BY <1>1 DEF history
  <1>14. QED
    BY <1>4, <1>5, <1>6, <1>7, <1>8, <1>9, <1>10, <1>11, <1>12, <1>13, WriteStep

\* The DELETE of delete_config.
LEMMA DeleteDbStep == ASSUME IInv, NEW t \in Threads, DeleteDb(t) PROVE IInv'
  <1>1. /\ thread[t].pc = "deldb" /\ Goto(t, "delincr")
        /\ \/ db' = Missing /\ faults' = faults
           \/ db' = db /\ faults' = faults + 1
        /\ crossed' = (crossed \/ redis.value # Missing)
        /\ UNCHANGED <<redis, reach, pod, sets, deleted, existed>>
    BY DEF DeleteDb, NoFault, Fault
  <1>2. TypeOK /\ CallKept(t) /\ CallRight(t)
    BY DEF IInv
  <1>3. /\ thread' \in [Threads -> Call] /\ Others(t)
        /\ thread'[t].pc = "delincr" /\ thread'[t].version = thread[t].version
    BY <1>1, <1>2, GotoEffect DEF TypeOK, Steps, Deleting
  <1>4. TypeOK'
    <2>1. faults' \in Nat /\ db' \in Known
      BY <1>1, <1>2, ValuesAreValues DEF TypeOK
    <2>2. crossed' \in BOOLEAN
      BY <1>1
    <2>3. QED
      BY <1>1, <1>2, <1>3, <2>1, <2>2 DEF TypeOK
  <1>5. /\ Writing' /\ deleted /\ ~Stays'
        /\ Calm' => Calm /\ db' = Missing
    <2>1. Writing' /\ deleted /\ ~Stays'
      BY <1>1, <1>2, <1>3 DEF Writing, CallKept, Deleting, Stays
    <2>2. Calm' => Calm /\ db' = Missing
      BY <1>1, <1>2 DEF Calm, TypeOK
    <2>3. QED
      BY <2>1, <2>2
  <1>6. RowKept' /\ PodKept'
    BY <1>5 DEF RowKept, PodKept
  <1>7. PodRight'
    <2>1. Connected' /\ VersionsSeen'
      BY <1>1, <1>5 DEF IInv, PodRight, Connected, VersionsSeen
    <2>2. EntryRight' /\ MissedRight'
      BY <1>5 DEF EntryRight, MissedRight
    <2>3. QED
      BY <2>1, <2>2 DEF PodRight
  <1>8. CallKept(t)'
    BY <1>1, <1>3, <1>5 DEF CallKept, Setting, Deleting
  <1>9. CallRight(t)'
    BY <1>1, <1>2, <1>3, <1>5 DEF CallRight
  <1>10. OneThreadAsks'
    BY <1>1, <1>3, AskingAsBefore DEF IInv, AskingSteps
  <1>11. Calm' => Calm /\ redis.version <= redis'.version /\ Writing'
    BY <1>1, <1>2, <1>5 DEF TypeOK
  <1>12. QED
    BY <1>1, <1>3, <1>4, <1>5, <1>6, <1>7, <1>8, <1>9, <1>10, <1>11, WriteStep

-----------------------------------------------------------------------------
(* Steps of no call.                                                       *)

\* A fault ends the calm, and takes nothing from a setting that stays.
LEMMA FaultStep ==
  ASSUME IInv, Flush \/ \E p \in Places : Cut(p)
  PROVE  IInv'
  <1>1. /\ faults' = faults + 1
        /\ UNCHANGED <<db, pod, thread, sets, deleted, existed, crossed>>
        /\ \/ redis' = Empty /\ reach' = reach
           \/ redis' = redis /\ reach' \subseteq reach
    BY DEF Flush, Cut, Fault, stores
  <1>2. TypeOK
    BY DEF IInv
  <1>3. Empty \in [value : Known, version : Nat]
    BY ValuesAreValues DEF Empty, NoVersion
  <1>4. faults' \in Nat /\ ~Calm' /\ (Stays' <=> Stays)
    BY <1>1, <1>2 DEF TypeOK, Calm, Stays
  <1>5. TypeOK'
    BY <1>1, <1>2, <1>3, <1>4 DEF TypeOK
  <1>6. RowKept' /\ PodKept'
    BY <1>1, <1>4 DEF IInv, RowKept, PodKept
  <1>7. \A t \in Threads : CallKept(t)' /\ CallRight(t)'
    BY <1>1, <1>4 DEF IInv, CallKept, CallRight
  <1>8. PodRight'
    BY <1>4 DEF PodRight, Connected, VersionsSeen, EntryRight, MissedRight
  <1>9. OneThreadAsks'
    BY <1>1 DEF IInv, OneThreadAsks
  <1>10. QED
    BY <1>5, <1>6, <1>7, <1>8, <1>9 DEF IInv

\* Redis is reachable again, or time has passed for something the pod remembers.
LEMMA EnvironmentStep ==
  ASSUME IInv, (\E p \in Places : Heal(p)) \/ RecheckDue \/ EntryExpires \/ MissExpires
  PROVE  IInv'
  <1>1. /\ UNCHANGED <<stores, thread, history>>
        /\ reach \subseteq reach' /\ (reach' \subseteq reach \cup Places)
        /\ pod' \in {pod, [pod EXCEPT !.due = TRUE], [pod EXCEPT !.entry = NoEntry],
                     [pod EXCEPT !.missed = FALSE]}
    BY DEF Heal, RecheckDue, EntryExpires, MissExpires
  <1>2. TypeOK /\ redis.version \in Nat
    BY DEF IInv, TypeOK
  <1>3. NoEntry \in Entry /\ NoEntry.value # Missing /\ NoEntry.tag = 0
    BY ValuesAreValues DEF NoEntry, Entry, NoVersion
  <1>4. /\ pod' \in Pod /\ pod'.version = pod.version /\ (pod'.missed => pod.missed)
        /\ pod'.connected = pod.connected /\ pod'.reconnected = pod.reconnected
        /\ pod'.refreshing = pod.refreshing /\ pod'.entry \in {pod.entry, NoEntry}
    BY <1>1, <1>2, <1>3 DEF TypeOK, Pod
  <1>5. TypeOK'
    BY <1>1, <1>2, <1>4 DEF TypeOK, stores, history
  <1>6. /\ redis' = redis /\ db' = db /\ Effective' = Effective /\ thread' = thread
        /\ (Writing' <=> Writing) /\ (Calm' <=> Calm) /\ (Stays' <=> Stays) /\ deleted' = deleted
    BY <1>1 DEF stores, history, Effective, Writing, Calm, Stays
  <1>7. RowKept' /\ PodKept'
    BY <1>3, <1>4, <1>6 DEF IInv, RowKept, PodKept
  <1>8. \A t \in Threads : CallKept(t)' /\ CallRight(t)'
    BY <1>6 DEF IInv, CallKept, CallRight
  <1>9. PodRight'
    <2>1. Connected'
      BY <1>1, <1>2, <1>4, <1>6 DEF IInv, PodRight, Connected, TypeOK
    <2>2. VersionsSeen'
      BY <1>2, <1>3, <1>4, <1>6 DEF IInv, PodRight, VersionsSeen
    <2>3. EntryRight'
      BY <1>4, <1>6 DEF IInv, PodRight, EntryRight
    <2>4. MissedRight'
      BY <1>4, <1>6 DEF IInv, PodRight, MissedRight
    <2>5. QED
      BY <2>1, <2>2, <2>3, <2>4 DEF PodRight
  <1>10. OneThreadAsks'
    BY <1>4, <1>6 DEF IInv, OneThreadAsks
  <1>11. QED
    BY <1>5, <1>7, <1>8, <1>9, <1>10 DEF IInv

-----------------------------------------------------------------------------
\* A pod just started remembers nothing and nobody asks, whatever Redis holds.
LEMMA ConfigInitially == Init => IInv
  <1> SUFFICES ASSUME Init PROVE IInv
    OBVIOUS
  <1>1. /\ \A t \in Threads : thread[t] = Idle
        /\ Idle \in Call /\ Idle.pc = "idle" /\ Idle.version = 0
    BY ValuesAreValues DEF Init, Idle, Call, Steps, Places, NoVersion
  <1>2. /\ NoEntry \in Entry /\ NoEntry.value # Missing /\ NoEntry.tag = 0
    BY ValuesAreValues DEF NoEntry, Entry, NoVersion
  <1>3. db \in Known /\ redis \in [value : Known, version : Nat]
    <2>1. db \in Known
      BY ValuesAreValues DEF Init, Known
    <2>2. /\ Empty \in [value : Known, version : Nat]
          /\ [value |-> db, version |-> 1] \in [value : Known, version : Nat]
      BY <2>1, ValuesAreValues DEF Empty, NoVersion
    <2>3. QED
      BY <2>1, <2>2 DEF Init
  <1>4. /\ pod \in Pod /\ pod.connected /\ ~pod.reconnected /\ pod.entry = NoEntry
        /\ pod.version = 0 /\ ~pod.refreshing /\ ~pod.missed
    BY <1>2 DEF Init, Pod, NoVersion
  <1>5. TypeOK
    <2>1. sets \in 0..MaxSets /\ faults \in Nat
      BY ConfigAssumption DEF Init
    <2>2. /\ deleted \in BOOLEAN /\ existed \in BOOLEAN /\ crossed \in BOOLEAN
          /\ reach \subseteq Places /\ thread \in [Threads -> Call]
      BY <1>1 DEF Init
    <2>3. QED
      BY <1>3, <1>4, <2>1, <2>2 DEF TypeOK
  <1>6. RowKept /\ PodKept
    BY <1>2, <1>4 DEF Init, RowKept, PodKept, Stays
  <1>7. redis.version \in Nat
    BY <1>3
  <1>8. \A t \in Threads : CallKept(t) /\ CallRight(t)
    <2>1. \A t \in Threads : thread[t].pc = "idle" /\ thread[t].version = 0
      BY <1>1
    <2>2. \A t \in Threads : CallKept(t)
      BY <2>1 DEF CallKept, Setting, Deleting
    <2>3. 0 <= redis.version
      BY <1>7
    <2>4. \A t \in Threads : CallRight(t)
      BY <2>1, <2>3 DEF CallRight
    <2>5. QED
      BY <2>2, <2>4
  <1>9. PodRight
    <2>1. Connected
      BY <1>4 DEF Connected, Init
    <2>2. VersionsSeen /\ EntryRight /\ MissedRight
      BY <1>2, <1>4, <1>7 DEF VersionsSeen, EntryRight, MissedRight
    <2>3. QED
      BY <2>1, <2>2 DEF PodRight
  <1>10. OneThreadAsks
    BY <1>1, <1>4 DEF OneThreadAsks
  <1>11. QED
    BY <1>5, <1>6, <1>8, <1>9, <1>10 DEF IInv

\* Every step keeps it.
LEMMA ConfigStep == IInv /\ [Next]_vars => IInv'
  <1> SUFFICES ASSUME IInv, [Next]_vars PROVE IInv'
    OBVIOUS
  <1>1. CASE UNCHANGED vars
    <2>1. UNCHANGED <<redis, db, reach, pod, thread, sets, deleted, existed, faults, crossed>>
      BY <1>1 DEF vars
    <2>2. /\ (Calm' <=> Calm) /\ (Stays' <=> Stays) /\ Effective' = Effective
          /\ (Writing' <=> Writing) /\ TypeOK'
      BY <2>1 DEF Calm, Stays, Effective, Writing, IInv, TypeOK
    <2>3. \A t \in Threads : CallKept(t)' /\ CallRight(t)'
      BY <2>1, <2>2 DEF IInv, CallKept, CallRight
    <2>4. PodRight' /\ RowKept' /\ PodKept' /\ OneThreadAsks'
      BY <2>1, <2>2 DEF IInv, PodRight, Connected, VersionsSeen, EntryRight, MissedRight,
                        RowKept, PodKept, OneThreadAsks
    <2>5. QED
      BY <2>2, <2>3, <2>4 DEF IInv
  <1>2. ASSUME NEW t \in Threads, Begins(t) PROVE IInv'
    BY <1>2, ReadStartStep, SetRedisStep, DeleteReadStep DEF Begins
  <1>3. ASSUME NEW t \in Threads, Read(t) PROVE IInv'
    BY <1>3, ReadVersionStep, ReadNoteStep, ReadKnownStep, ReadHitStep, ReadRedisStep,
       ReadDbStep, ReadRestoreStep, ReadStoreStep DEF Read
  <1>4. ASSUME NEW t \in Threads, Set(t) PROVE IInv'
    BY <1>4, IncrStep, ForgetStep, SetDbStep DEF Set
  <1>5. ASSUME NEW t \in Threads, Delete(t) PROVE IInv'
    BY <1>5, DeleteRedisStep, DeleteDbStep, IncrStep, ForgetStep DEF Delete
  <1>6. CASE (\E p \in Places : Cut(p) \/ Heal(p)) \/ Flush \/ RecheckDue \/ EntryExpires \/ MissExpires
    BY <1>6, FaultStep, EnvironmentStep
  <1>7. QED
    BY <1>1, <1>2, <1>3, <1>4, <1>5, <1>6 DEF Next, GoesOn

\* IInv holds at every step of every read, set_config and delete_config, through
\* every outage.
THEOREM ConfigInvariance == Spec => []IInv
  <1>1. Init => IInv
    BY ConfigInitially
  <1>2. IInv /\ [Next]_vars => IInv'
    BY ConfigStep
  <1>3. QED
    BY <1>1, <1>2, PTL DEF Spec

\* An outage, a lost Redis or a failed query is never taken for "not set": a setting
\* that nobody deletes is not reported or remembered as missing (probe_value).
THEOREM OutagesAreNotUnset == Spec => []OutageIsNotUnset
  <1>1. IInv => OutageIsNotUnset
    BY DEF IInv, OutageIsNotUnset, PodKept, CallKept, Stays
  <1>2. QED
    BY <1>1, ConfigInvariance, PTL

\* A remembered value of the sentinel's version is what the stores hold, however
\* reads and writes interleave, while nothing fails (the tag of a cached value).
THEOREM FreshEntriesAreCurrent == Spec => []FreshEntryIsCurrent
  <1>1. IInv => FreshEntryIsCurrent
    BY DEF IInv, FreshEntryIsCurrent, PodRight, EntryRight, Calm
  <1>2. QED
    BY <1>1, ConfigInvariance, PTL

\* One thread at a time asks for the version, and the mark that keeps the others
\* from it is set exactly while it does (_known_version).
THEOREM OneThreadAsksAtATime == Spec => []OneThreadAsks
  <1>1. IInv => OneThreadAsks
    BY DEF IInv
  <1>2. QED
    BY <1>1, ConfigInvariance, PTL
=============================================================================

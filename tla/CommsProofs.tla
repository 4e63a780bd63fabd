----------------------------- MODULE CommsProofs -----------------------------
(***************************************************************************)
(* Proofs about the comms bus: the messages (CommsBus) for any set of      *)
(* ships, any number of posts and any run of the clock, and the status     *)
(* file of a ship (StatusFile) for any set of processes, tasks and times.  *)
(* The two share no state.                                                 *)
(***************************************************************************)
EXTENDS CommsBus, StatusFile, TLAPS

-----------------------------------------------------------------------------
Posting == {"number", "write", "rename"}

\* Every message file was written by a post that has begun.
PostsCounted ==
    /\ \A s \in Ship : \A p \in Files(s) : p <= posts
    /\ \A p \in done : p <= posts

\* The post under way is the last one, has not returned, and its id is that
\* of no other message in the store: it was free when nextID chose it, and
\* nobody else writes while the lock is held.
PostUnderWay ==
    op.kind \in Posting =>
        /\ op.post = posts
        /\ op.post \in Post
        /\ op.post \notin done
        /\ \A s \in Ship : \A p \in Files(s) :
               p # op.post => idOf[p] # idOf[op.post]

\* The recipients that have their copy are those the renames are done with.
RenamesSoFar ==
    op.kind = "rename" =>
        \A s \in rcpt[op.post] \ op.rcpts : op.post \in Files(s)

\* What DoInit has still to ack is unread: it chose the files under the lock.
AckListed ==
    op.kind = "ack" =>
        \A p \in Post : <<op.by, p>> \in op.todo => p \in unseen[op.by]

BusInv ==
    /\ TypeOK
    /\ AckListed
    /\ PostsCounted
    /\ PostUnderWay
    /\ IdNamesOneMessage
    /\ RenamesSoFar
    /\ PostReaches

LEMMA BusInitially == Init => BusInv
<1> SUFFICES ASSUME Init PROVE BusInv
  OBVIOUS
<1> USE BusAssumption DEF Init
<1>1. StoreOK BY DEF StoreOK
<1>2. BoardOK BY DEF BoardOK, Time, None
<1>3. SentOK BY DEF SentOK, Time
<1>4. OpOK BY DEF OpOK, Free, Kind
<1>5. PostsCounted /\ IdNamesOneMessage /\ PostReaches
  BY DEF PostsCounted, IdNamesOneMessage, PostReaches, Files
<1>6. PostUnderWay /\ RenamesSoFar
  BY DEF PostUnderWay, RenamesSoFar, Posting, Free
<1>7. AckListed BY DEF AckListed, Free
<1>8. QED BY <1>7, <1>1, <1>2, <1>3, <1>4, <1>5, <1>6 DEF BusInv, TypeOK

-----------------------------------------------------------------------------
(* Types.                                                                  *)

\* The steps that leave the board and the clock alone, and the others.
LEMMA BoardTypes == ASSUME TypeOK, [Next]_vars PROVE BoardOK'
<1> USE BusAssumption DEF TypeOK, BoardOK, Time, None
<1>1. ASSUME NEW s \in Ship, PostBegin(s) PROVE BoardOK'
  BY <1>1 DEF PostBegin, PostAs, board
<1>2. ASSUME NEW s \in Ship, PruneBegin(s) PROVE BoardOK'
  BY <1>2 DEF PruneBegin, DropStaleBeats
<1>3. ASSUME NEW s \in Ship, InitBegin(s) PROVE BoardOK'
  BY <1>3 DEF InitBegin, board
<1>4. ASSUME NEW s \in Ship, NEW cutoff \in Time, PurgeBegin(s, cutoff)
      PROVE BoardOK'
  BY <1>4 DEF PurgeBegin, board
<1>5. ASSUME NEW s \in Ship,
             AckMissing(s) \/ \E p \in Post : Ack(s, p)
      PROVE BoardOK'
  BY <1>5 DEF Ack, AckMissing, board
<1>6. CASE PostStep
  BY <1>6 DEF PostStep, WriteSeq, WriteTemp, Rename, WriteTempFails,
              RenameFails, board
<1>7. CASE CleanStep
  <2>1. CASE \E p \in Post : InitAck(p) BY <2>1 DEF InitAck, board
  <2>2. CASE InitPrune BY <2>2 DEF InitPrune, DropStaleBeats
  <2>3. CASE \E x \in Ship \X Post : Remove(x) \/ Keep(x)
    BY <2>3 DEF Remove, Keep, board
  <2>4. CASE InitEnd BY <2>4 DEF InitEnd, OpOK
  <2>5. CASE RemoveEnd BY <2>5 DEF RemoveEnd, board
  <2>6. QED BY <1>7, <2>1, <2>2, <2>3, <2>4, <2>5 DEF CleanStep
<1>8. CASE BoardStep
  <2>1. ASSUME NEW s \in Ship, Touch(s) PROVE BoardOK'
    BY <2>1 DEF Touch
  <2>2. ASSUME NEW s \in Ship, Clear(s) PROVE BoardOK'
    BY <2>2 DEF Clear
  <2>3. ASSUME NEW s \in Ship, NEW i \in Idleness, Status(s, i)
        PROVE BoardOK'
    BY <2>3 DEF Status
  <2>4. ASSUME NEW s \in Ship, NEW i \in Idleness, HealthUpdate(s, i)
        PROVE BoardOK'
    BY <2>4 DEF HealthUpdate
  <2>5. QED BY <1>8, <2>1, <2>2, <2>3, <2>4 DEF BoardStep
<1>9. CASE Tick
  BY <1>9 DEF Tick, board
<1>10. CASE LoseSeq \/ Crash
  BY <1>10 DEF LoseSeq, Crash, board
<1>11. CASE UNCHANGED vars
  BY <1>11 DEF vars, board
<1>12. QED
  BY <1>1, <1>2, <1>3, <1>4, <1>5, <1>6, <1>7, <1>8, <1>9, <1>10, <1>11
     DEF Next, Begin

LEMMA OpTypes == ASSUME TypeOK, PostUnderWay, [Next]_vars PROVE OpOK'
<1> USE BusAssumption DEF TypeOK, OpOK, Free, Kind
<1>1. ASSUME NEW s \in Ship, PostBegin(s) PROVE OpOK'
  <2>1. posts + 1 \in 0 .. MaxPost
    BY <1>1 DEF PostBegin, PostAs, SentOK
  <2>2. op' = [Free EXCEPT !.kind = "number", !.by = s, !.post = posts + 1]
    BY <1>1 DEF PostBegin, PostAs
  <2>3. QED BY <2>1, <2>2
<1>2. ASSUME NEW s \in Ship, PruneBegin(s) PROVE OpOK'
  <2>1. AllFiles \in SUBSET (Ship \X Post) /\ Live \in SUBSET Ship
    BY DEF AllFiles, Live
  <2>2. QED BY <1>2, <2>1 DEF PruneBegin
<1>3. ASSUME NEW s \in Ship, InitBegin(s) PROVE OpOK'
  BY <1>3 DEF InitBegin, StoreOK
<1>4. ASSUME NEW s \in Ship, NEW cutoff \in Time, PurgeBegin(s, cutoff)
      PROVE OpOK'
  BY <1>4 DEF PurgeBegin, FromOrToDead, Live
<1>5. ASSUME NEW s \in Ship,
             AckMissing(s) \/ \E p \in Post : Ack(s, p)
      PROVE OpOK'
  BY <1>5 DEF Ack, AckMissing
<1>6. CASE PostStep
  <2>1. ASSUME NEW r \in SUBSET Ship, WriteSeq(r) PROVE OpOK'
    BY <2>1 DEF WriteSeq
  <2>2. ASSUME NEW s \in Ship, WriteTemp(s) PROVE OpOK'
    <3>1. rcpt[op.post] \in SUBSET Ship
      BY <2>2 DEF WriteTemp, SentOK, PostUnderWay, Posting
    <3>2. QED BY <2>2, <3>1 DEF WriteTemp
  <2>3. ASSUME NEW s \in Ship, Rename(s) PROVE OpOK'
    BY <2>3 DEF Rename
  <2>4. ASSUME NEW s \in Ship, NEW left \in BOOLEAN, WriteTempFails(s, left)
        PROVE OpOK'
    BY <2>4 DEF WriteTempFails
  <2>5. CASE RenameFails BY <2>5 DEF RenameFails
  <2>6. QED BY <1>6, <2>1, <2>2, <2>3, <2>4, <2>5 DEF PostStep
<1>7. CASE CleanStep
  <2>1. ASSUME NEW p \in Post, InitAck(p) PROVE OpOK'
    BY <2>1 DEF InitAck
  <2>2. CASE InitPrune BY <2>2 DEF InitPrune, AllFiles, Live
  <2>3. ASSUME NEW x \in Ship \X Post, Remove(x) \/ Keep(x) PROVE OpOK'
    BY <2>3 DEF Remove, Keep
  <2>4. CASE InitEnd BY <2>4 DEF InitEnd
  <2>5. CASE RemoveEnd BY <2>5 DEF RemoveEnd
  <2>6. QED BY <1>7, <2>1, <2>2, <2>3, <2>4, <2>5 DEF CleanStep
<1>8. CASE BoardStep
  BY <1>8 DEF BoardStep, Touch, Clear, Status, HealthUpdate
<1>9. CASE Tick \/ LoseSeq
  BY <1>9 DEF Tick, LoseSeq
<1>10. CASE Crash
  BY <1>10 DEF Crash
<1>11. CASE UNCHANGED vars
  BY <1>11 DEF vars
<1>12. QED
  BY <1>1, <1>2, <1>3, <1>4, <1>5, <1>6, <1>7, <1>8, <1>9, <1>10, <1>11
     DEF Next, Begin

LEMMA StoreTypes == ASSUME TypeOK, PostUnderWay, [Next]_vars
                    PROVE StoreOK' /\ SentOK'
<1> USE BusAssumption DEF TypeOK, StoreOK, SentOK
<1>1. ASSUME NEW s \in Ship, PostBegin(s) PROVE StoreOK' /\ SentOK'
  <2>1. PICK id \in Id : PostAs(s, id)
    BY <1>1 DEF PostBegin
  <2>2. posts + 1 \in 0 .. MaxPost /\ id \in 0 .. MaxPost
    BY <2>1 DEF PostAs, Id
  <2>3. StoreOK'
    BY <2>1 DEF PostAs, store
  <2>4. SentOK'
    <3> HIDE DEF StoreOK
    <3>1. idOf' \in [Post -> 0 .. MaxPost]
      BY <2>1, <2>2 DEF PostAs
    <3>2. from' \in [Post -> Ship \cup {Nobody}]
      BY <2>1 DEF PostAs
    <3>3. at' \in [Post -> Time]
      BY <2>1 DEF PostAs, BoardOK
    <3>4. QED BY <2>1, <2>2, <3>1, <3>2, <3>3 DEF PostAs
  <2>5. QED BY <2>3, <2>4
<1>2. ASSUME NEW s \in Ship, NEW p \in Post, Ack(s, p)
      PROVE StoreOK' /\ SentOK'
  BY <1>2 DEF Ack, MoveToSeen, Put, sent
<1>2a. ASSUME NEW s \in Ship, AckMissing(s) PROVE StoreOK' /\ SentOK'
  BY <1>2a DEF AckMissing, sent
<1>3. CASE \E s \in Ship :
             \/ PruneBegin(s) \/ InitBegin(s)
             \/ \E cutoff \in Time : PurgeBegin(s, cutoff)
  BY <1>3 DEF PruneBegin, InitBegin, PurgeBegin, store, sent
<1>4. CASE PostStep
  <2> USE DEF PostUnderWay, Posting
  <2>1. ASSUME NEW r \in SUBSET Ship, WriteSeq(r) PROVE StoreOK' /\ SentOK'
    BY <2>1 DEF WriteSeq, store
  <2>2. ASSUME NEW s \in Ship, WriteTemp(s) PROVE StoreOK' /\ SentOK'
    BY <2>2 DEF WriteTemp, sent
  <2>3. ASSUME NEW s \in Ship, Rename(s) PROVE StoreOK' /\ SentOK'
    BY <2>3 DEF Rename, Put, sent
  <2>4. ASSUME NEW s \in Ship, NEW left \in BOOLEAN, WriteTempFails(s, left)
        PROVE StoreOK' /\ SentOK'
    BY <2>4 DEF WriteTempFails, sent
  <2>5. CASE RenameFails BY <2>5 DEF RenameFails, sent
  <2>6. QED BY <1>4, <2>1, <2>2, <2>3, <2>4, <2>5 DEF PostStep
<1>5. CASE CleanStep
  <2>1. ASSUME NEW p \in Post, InitAck(p) PROVE StoreOK' /\ SentOK'
    BY <2>1 DEF InitAck, MoveToSeen, Put, sent
  <2>2. CASE InitPrune BY <2>2 DEF InitPrune, store, sent
  <2>3. ASSUME NEW x \in Ship \X Post, Remove(x) PROVE StoreOK' /\ SentOK'
    BY <2>3 DEF Remove, sent
  <2>4. CASE InitEnd \/ RemoveEnd \/ \E x \in Ship \X Post : Keep(x)
    BY <2>4 DEF InitEnd, RemoveEnd, Keep, store, sent
  <2>5. QED BY <1>5, <2>1, <2>2, <2>3, <2>4 DEF CleanStep
<1>6. CASE BoardStep
  BY <1>6 DEF BoardStep, Touch, Clear, Status, HealthUpdate, store, sent
<1>7. CASE Tick \/ LoseSeq \/ Crash
  BY <1>7 DEF Tick, LoseSeq, Crash, store, sent
<1>8. CASE UNCHANGED vars
  BY <1>8 DEF vars, store, sent
<1>9. QED
  BY <1>1, <1>2, <1>2a, <1>3, <1>4, <1>5, <1>6, <1>7, <1>8 DEF Next, Begin

LEMMA TypeStep == ASSUME TypeOK, PostUnderWay, [Next]_vars PROVE TypeOK'
BY BoardTypes, OpTypes, StoreTypes DEF TypeOK

-----------------------------------------------------------------------------
(* Ids.                                                                    *)

\* Steps that add no message file and leave the posts' ids alone.
LEMMA NoNewFile ==
    ASSUME BusInv, posts' = posts, idOf' = idOf, done' = done,
           \A s \in Ship : Files(s)' \subseteq Files(s),
           op'.kind \in Posting => op.kind \in Posting /\ op'.post = op.post
    PROVE  PostsCounted' /\ PostUnderWay' /\ IdNamesOneMessage'
BY DEF BusInv, PostsCounted, PostUnderWay, IdNamesOneMessage, Posting

\* postAs: the number nextID chooses is no message's in the store.
LEMMA BeginIds ==
    ASSUME BusInv, NEW s \in Ship, PostBegin(s)
    PROVE  PostsCounted' /\ PostUnderWay' /\ IdNamesOneMessage'
<1>1. PICK id \in Id : NextId(id) /\ PostAs(s, id)
  BY DEF PostBegin
<1>2. posts \in Nat /\ posts + 1 \in Post /\ idOf \in [Post -> 0 .. MaxPost]
  BY <1>1, BusAssumption DEF BusInv, TypeOK, SentOK, PostAs, Post
<1>3. \A t \in Ship : Files(t)' = Files(t) /\ Files(t) \subseteq Post
  BY <1>1 DEF PostAs, store, Files, BusInv, TypeOK, StoreOK
<1>4. \A t \in Ship : \A p \in Files(t) :
          p <= posts /\ p # posts + 1 /\ idOf'[p] = idOf[p] /\ idOf[p] # id
  <2>1. SUFFICES ASSUME NEW t \in Ship, NEW p \in Files(t)
                 PROVE p <= posts /\ p # posts + 1 /\ idOf'[p] = idOf[p]
                       /\ idOf[p] # id
    OBVIOUS
  <2>2. p \in Post /\ p <= posts /\ p # posts + 1
    BY <1>2, <1>3 DEF BusInv, PostsCounted, Post
  <2>3. idOf[p] \in Ids BY DEF Ids
  <2>4. idOf[p] < id BY <1>1, <2>3 DEF NextId
  <2>5. idOf[p] # id BY <1>2, <2>2, <2>4 DEF Id
  <2>6. idOf'[p] = idOf[p] BY <1>1, <1>2, <2>2 DEF PostAs
  <2>7. QED BY <2>2, <2>5, <2>6
<1>5. idOf'[posts + 1] = id BY <1>1, <1>2 DEF PostAs
<1>6. PostsCounted'
  BY <1>1, <1>2, <1>3, <1>4, BusAssumption
     DEF PostAs, BusInv, PostsCounted, TypeOK, SentOK, Post
<1>7. PostUnderWay'
  <2>1. op'.post = posts + 1 /\ posts' = posts + 1 /\ done' = done
    BY <1>1 DEF PostAs, Free
  <2>2. posts + 1 \notin done
    BY <1>2, BusAssumption DEF BusInv, PostsCounted, TypeOK, SentOK, Post
  <2>3. QED BY <1>2, <1>3, <1>4, <1>5, <2>1, <2>2 DEF PostUnderWay
<1>8. IdNamesOneMessage'
  BY <1>3, <1>4 DEF BusInv, IdNamesOneMessage
<1>9. QED BY <1>6, <1>7, <1>8

\* postAs: the last file operation, the only one that adds a message file.
LEMMA RenameIds ==
    ASSUME BusInv, NEW s \in Ship, Rename(s)
    PROVE  PostsCounted' /\ PostUnderWay' /\ IdNamesOneMessage'
<1>1. /\ posts' = posts /\ idOf' = idOf
      /\ op.post = posts /\ op.post \in Post /\ op.post \notin done
      /\ op'.kind = "rename" => op'.post = op.post /\ done' = done
      /\ done' \subseteq done \cup {op.post}
  BY DEF Rename, BusInv, PostUnderWay, Posting, sent, Free, TypeOK, OpOK
<1>2. \A t \in Ship : Files(t)' \subseteq Files(t) \cup {op.post}
  BY DEF Rename, Files, Put, BusInv, TypeOK, StoreOK
<1>3. \A t \in Ship : \A p \in Files(t) :
          p # op.post => idOf[p] # idOf[op.post]
  BY DEF Rename, BusInv, PostUnderWay, Posting
<1>4. PostsCounted'
  BY <1>1, <1>2 DEF BusInv, PostsCounted, Post
<1>5. PostUnderWay'
  <2>1. op'.kind \in Posting => op'.kind = "rename"
    BY DEF Rename, Free, Posting, BusInv, TypeOK, OpOK
  <2>2. QED BY <1>1, <1>2, <1>3, <2>1 DEF PostUnderWay
<1>6. IdNamesOneMessage'
  BY <1>1, <1>2, <1>3 DEF BusInv, IdNamesOneMessage
<1>7. QED BY <1>4, <1>5, <1>6

LEMMA IdStep ==
    ASSUME BusInv, [Next]_vars
    PROVE  PostsCounted' /\ PostUnderWay' /\ IdNamesOneMessage'
<1> DEFINE Calm ==
      /\ posts' = posts /\ idOf' = idOf /\ done' = done
      /\ \A s \in Ship : Files(s)' \subseteq Files(s)
      /\ op'.kind \in Posting => op.kind \in Posting /\ op'.post = op.post
<1> USE DEF Files, Posting, store, sent, Free
<1>0. OpOK /\ StoreOK BY DEF BusInv, TypeOK
<1>1. ASSUME NEW s \in Ship, NEW p \in Post, Ack(s, p) PROVE Calm
  BY <1>0, <1>1 DEF Ack, MoveToSeen, Put, StoreOK
<1>2. CASE \E s \in Ship :
             \/ PruneBegin(s) \/ InitBegin(s) \/ AckMissing(s)
             \/ \E cutoff \in Time : PurgeBegin(s, cutoff)
  <2>1. Calm BY <1>2 DEF PruneBegin, InitBegin, PurgeBegin, AckMissing
  <2>2. QED BY <2>1, NoNewFile
<1>3. CASE PostStep
  <2>1. ASSUME NEW r \in SUBSET Ship, WriteSeq(r) PROVE Calm
    BY <1>0, <2>1 DEF WriteSeq, OpOK
  <2>2. ASSUME NEW s \in Ship, WriteTemp(s) PROVE Calm
    BY <1>0, <2>2 DEF WriteTemp, OpOK
  <2>3. ASSUME RenameFails
               \/ \E s \in Ship, l \in BOOLEAN : WriteTempFails(s, l)
        PROVE Calm
    BY <2>3 DEF RenameFails, WriteTempFails
  <2>4. QED BY <1>3, <2>1, <2>2, <2>3, RenameIds, NoNewFile DEF PostStep
<1>4. CASE CleanStep
  <2>1. ASSUME NEW p \in Post, InitAck(p) PROVE Calm
    <3>1. op.by \in Ship /\ p \in unseen[op.by]
      BY <1>0, <2>1 DEF InitAck, Newest, BusInv, AckListed, OpOK
    <3>2. QED
      BY <1>0, <2>1, <3>1 DEF InitAck, MoveToSeen, Put, StoreOK, OpOK
  <2>2. ASSUME InitPrune PROVE Calm
    BY <1>0, <2>2 DEF InitPrune, OpOK
  <2>3. ASSUME NEW x \in Ship \X Post, Remove(x) \/ Keep(x) PROVE Calm
    BY <1>0, <2>3 DEF Remove, Keep, OpOK, StoreOK
  <2>4. ASSUME InitEnd \/ RemoveEnd PROVE Calm
    BY <2>4 DEF InitEnd, RemoveEnd
  <2>5. QED BY <1>4, <2>1, <2>2, <2>3, <2>4, NoNewFile DEF CleanStep
<1>5. CASE BoardStep
  <2>1. Calm
    BY <1>5 DEF BoardStep, Touch, Clear, Status, HealthUpdate
  <2>2. QED BY <2>1, NoNewFile
<1>6. CASE Tick \/ LoseSeq \/ Crash
  <2>1. Calm BY <1>6 DEF Tick, LoseSeq, Crash
  <2>2. QED BY <2>1, NoNewFile
<1>7. CASE UNCHANGED vars
  <2>1. Calm BY <1>7 DEF vars
  <2>2. QED BY <2>1, NoNewFile
<1>8. QED
  BY <1>1, <1>2, <1>3, <1>4, <1>5, <1>6, <1>7, BeginIds, NoNewFile
     DEF Next, Begin

-----------------------------------------------------------------------------
(* Delivery.                                                               *)

\* A file that disappears is moved, overwritten by one of its id, or removed
\* for good; the ids being unique, nothing is ever overwritten.
Kept ==
    \A s \in Ship : \A p \in Files(s) : p \in Files(s)' \/ <<s, p>> \in gone'

LEMMA KeptDelivers ==
    ASSUME BusInv, Kept, gone \subseteq gone', done' = done, rcpt' = rcpt
    PROVE  PostReaches'
<1>1. \A p \in done : rcpt[p] \subseteq Ship
  BY DEF BusInv, TypeOK, SentOK
<1>2. QED BY <1>1 DEF Kept, BusInv, PostReaches

LEMMA PutKeeps ==
    ASSUME BusInv, NEW s \in Ship, NEW d \in SUBSET Files(s), NEW p \in Post,
           \A q \in Files(s) : q # p => idOf[q] # idOf[p]
    PROVE  Put(p, d) = d \cup {p}
BY DEF Put

LEMMA MoveKeeps ==
    ASSUME BusInv, NEW s \in Ship, NEW p \in unseen[s], MoveToSeen(s, p)
    PROVE  \A t \in Ship : Files(t)' = Files(t)
<1>1. p \in Post /\ seen[s] \in SUBSET Files(s)
  BY DEF BusInv, TypeOK, StoreOK, Files
<1>2. \A q \in Files(s) : q # p => idOf[q] # idOf[p]
  BY DEF BusInv, IdNamesOneMessage, Files
<1>3. Put(p, seen[s]) = seen[s] \cup {p}
  BY <1>1, <1>2, PutKeeps
<1>4. QED
  BY <1>3 DEF MoveToSeen, Files, BusInv, TypeOK, StoreOK

LEMMA RenameKeeps ==
    ASSUME BusInv, NEW s \in Ship, Rename(s)
    PROVE  /\ \A t \in Ship \ {s} : Files(t)' = Files(t)
           /\ Files(s)' = Files(s) \cup {op.post}
<1>1. op.post \in Post /\ unseen[s] \in SUBSET Files(s)
  BY DEF Rename, BusInv, PostUnderWay, Posting, Files
<1>2. \A q \in Files(s) : q # op.post => idOf[q] # idOf[op.post]
  BY DEF Rename, BusInv, PostUnderWay, Posting
<1>3. Put(op.post, unseen[s]) = unseen[s] \cup {op.post}
  BY <1>1, <1>2, PutKeeps
<1>4. QED
  BY <1>3 DEF Rename, Files, BusInv, TypeOK, StoreOK

LEMMA RenameDelivers ==
    ASSUME BusInv, NEW s \in Ship, Rename(s)
    PROVE  PostReaches' /\ RenamesSoFar'
<1>1. /\ rcpt' = rcpt /\ gone' = gone /\ op.kind = "rename"
      /\ s \in op.rcpts
      /\ \/ op.rcpts = {s} /\ op' = Free /\ done' = done \cup {op.post}
         \/ op' = [op EXCEPT !.rcpts = @ \ {s}] /\ done' = done
  BY DEF Rename, sent
<1>2. \A t \in rcpt[op.post] \ op.rcpts : op.post \in Files(t)
  BY <1>1 DEF BusInv, RenamesSoFar
<1>3. /\ \A t \in Ship : Files(t) \subseteq Files(t)'
      /\ op.post \in Files(s)'
  BY RenameKeeps
<1>4. op.post \in Post /\ rcpt[op.post] \subseteq Ship
      /\ \A p \in done : rcpt[p] \subseteq Ship
  BY <1>1 DEF BusInv, TypeOK, SentOK, PostUnderWay, Posting
<1>5. CASE op.rcpts = {s} /\ op' = Free /\ done' = done \cup {op.post}
  <2>1. PostReaches'
    BY <1>1, <1>2, <1>3, <1>4, <1>5 DEF BusInv, PostReaches
  <2>2. RenamesSoFar'
    BY <1>5 DEF RenamesSoFar, Free
  <2>3. QED BY <2>1, <2>2
<1>6. CASE op' = [op EXCEPT !.rcpts = @ \ {s}] /\ done' = done
  <2>1. PostReaches'
    BY <1>1, <1>3, <1>4, <1>6 DEF BusInv, PostReaches
  <2>2. op'.post = op.post /\ op'.rcpts = op.rcpts \ {s}
    BY <1>6 DEF BusInv, TypeOK, OpOK
  <2>3. RenamesSoFar'
    BY <1>1, <1>2, <1>3, <1>4, <2>2 DEF RenamesSoFar
  <2>4. QED BY <2>1, <2>3
<1>7. QED BY <1>1, <1>5, <1>6

\* RenamesSoFar says something only between two renames.
LEMMA NoRename ==
    ASSUME BusInv,
           \/ op'.kind # "rename"
           \/ op' = op /\ rcpt' = rcpt /\ \A s \in Ship : Files(s)' = Files(s)
    PROVE  RenamesSoFar'
<1>1. op.kind = "rename" => rcpt[op.post] \subseteq Ship
  BY DEF BusInv, TypeOK, SentOK, PostUnderWay, Posting
<1>2. QED BY <1>1 DEF BusInv, RenamesSoFar

\* Steps that leave the message files and the removals alone.
LEMMA StillDelivers ==
    ASSUME BusInv, UNCHANGED <<unseen, seen, gone, done, rcpt>>
    PROVE  PostReaches'
BY KeptDelivers DEF Kept, Files

LEMMA AckStep == ASSUME BusInv, [Next]_vars PROVE AckListed'
<1> USE DEF AckListed, store, sent, Free
<1>0. OpOK /\ StoreOK BY DEF BusInv, TypeOK
<1>1. ASSUME NEW s \in Ship, NEW p \in Post, Ack(s, p) PROVE AckListed'
  BY <1>0, <1>1 DEF Ack
<1>2. CASE \E s \in Ship :
             \/ PruneBegin(s) \/ PostBegin(s) \/ AckMissing(s)
             \/ \E cutoff \in Time : PurgeBegin(s, cutoff)
  <2>1. CASE \E s \in Ship : PostBegin(s)
    BY <2>1 DEF PostBegin, PostAs
  <2>2. ASSUME NEW s \in Ship, PruneBegin(s) PROVE AckListed'
    <3>1. op'.kind = "prune" BY <2>2 DEF PruneBegin
    <3>2. QED BY <3>1
  <2>2a. CASE \E s \in Ship : AckMissing(s)
    BY <2>2a DEF AckMissing
  <2>3. CASE \E s \in Ship : \E cutoff \in Time : PurgeBegin(s, cutoff)
    BY <2>3 DEF PurgeBegin
  <2>4. QED BY <1>2, <2>1, <2>2, <2>2a, <2>3
<1>3. ASSUME NEW s \in Ship, InitBegin(s) PROVE AckListed'
  <2>1. /\ op'.by = s /\ unseen' = unseen
        /\ op'.todo = {s} \X {p \in unseen[s] : ~Acked(p, s)}
    BY <1>3 DEF InitBegin
  <2>2. QED BY <2>1
<1>4. CASE PostStep
  <2>1. ASSUME NEW r \in SUBSET Ship, WriteSeq(r) PROVE AckListed'
    BY <1>0, <2>1 DEF WriteSeq, OpOK
  <2>2. ASSUME NEW s \in Ship, WriteTemp(s) PROVE AckListed'
    BY <1>0, <2>2 DEF WriteTemp, OpOK
  <2>3. ASSUME NEW s \in Ship, Rename(s) PROVE AckListed'
    BY <1>0, <2>3 DEF Rename, OpOK
  <2>4. ASSUME \/ RenameFails
               \/ \E s \in Ship, l \in BOOLEAN : WriteTempFails(s, l)
        PROVE  AckListed'
    BY <2>4 DEF RenameFails, WriteTempFails
  <2>5. QED BY <1>4, <2>1, <2>2, <2>3, <2>4 DEF PostStep
<1>5. ASSUME NEW p \in Post, InitAck(p) PROVE AckListed'
  <2>1. op'.by = op.by /\ op'.todo = op.todo \ {<<op.by, p>>}
    BY <1>0, <1>5 DEF InitAck, OpOK
  <2>2. unseen' = [unseen EXCEPT ![op.by] = @ \ {p}] /\ op.by \in Ship
    BY <1>0, <1>5 DEF InitAck, MoveToSeen, OpOK
  <2>3. QED BY <1>0, <1>5, <2>1, <2>2 DEF InitAck, BusInv, StoreOK
<1>6. ASSUME \/ InitPrune \/ InitEnd \/ RemoveEnd
             \/ \E x \in Ship \X Post : Remove(x) \/ Keep(x)
      PROVE  AckListed'
  <2>1. op'.kind # "ack"
    <3>1. CASE InitPrune BY <1>0, <3>1 DEF InitPrune, OpOK
    <3>2. CASE InitEnd \/ RemoveEnd BY <3>2 DEF InitEnd, RemoveEnd
    <3>3. CASE \E x \in Ship \X Post : Remove(x) \/ Keep(x)
      BY <1>0, <3>3 DEF Remove, Keep, OpOK
    <3>4. QED BY <1>6, <3>1, <3>2, <3>3
  <2>2. QED BY <2>1
<1>7. CASE BoardStep
  BY <1>7 DEF BoardStep, Touch, Clear, Status, HealthUpdate, BusInv
<1>8. CASE Tick \/ LoseSeq \/ Crash
  BY <1>8 DEF Tick, LoseSeq, Crash, BusInv
<1>9. CASE UNCHANGED vars
  BY <1>9 DEF vars, BusInv
<1>10. QED
  BY <1>1, <1>2, <1>3, <1>4, <1>5, <1>6, <1>7, <1>8, <1>9
     DEF Next, Begin, CleanStep

LEMMA DeliverStep ==
    ASSUME BusInv, [Next]_vars PROVE PostReaches' /\ RenamesSoFar'
<1> USE DEF store, sent, Free
<1>0. OpOK /\ StoreOK /\ SentOK BY DEF BusInv, TypeOK
<1>1. ASSUME NEW s \in Ship, NEW p \in unseen[s], MoveToSeen(s, p),
             UNCHANGED <<gone, done, rcpt>>
      PROVE  PostReaches'
  BY <1>1, MoveKeeps, KeptDelivers DEF Kept
<1>2. ASSUME NEW s \in Ship, PostBegin(s)
      PROVE  PostReaches' /\ RenamesSoFar'
  BY <1>2, StillDelivers, NoRename DEF PostBegin, PostAs
<1>3. ASSUME NEW s \in Ship, NEW p \in Post, Ack(s, p)
      PROVE  PostReaches' /\ RenamesSoFar'
  BY <1>1, <1>3, NoRename DEF Ack
<1>3a. ASSUME NEW s \in Ship, AckMissing(s)
       PROVE  PostReaches' /\ RenamesSoFar'
  BY <1>3a, StillDelivers, NoRename DEF AckMissing
<1>4. CASE \E s \in Ship :
             \/ PruneBegin(s) \/ InitBegin(s)
             \/ \E cutoff \in Time : PurgeBegin(s, cutoff)
  <2>1. op'.kind # "rename"
    BY <1>4 DEF PruneBegin, InitBegin, PurgeBegin
  <2>2. PostReaches'
    BY <1>4, StillDelivers DEF PruneBegin, InitBegin, PurgeBegin
  <2>3. QED BY <2>1, <2>2, NoRename
<1>5. CASE PostStep
  <2>1. ASSUME NEW r \in SUBSET Ship, WriteSeq(r)
        PROVE  PostReaches' /\ RenamesSoFar'
    <3>1. op.post \notin done
      BY <2>1 DEF WriteSeq, BusInv, PostUnderWay, Posting
    <3>2. \A p \in done : rcpt'[p] = rcpt[p]
      BY <1>0, <2>1, <3>1 DEF WriteSeq, SentOK
    <3>3. PostReaches'
      BY <2>1, <3>2 DEF WriteSeq, BusInv, PostReaches, Files
    <3>4. op'.kind # "rename"
      BY <1>0, <2>1 DEF WriteSeq, OpOK
    <3>5. QED BY <3>3, <3>4, NoRename
  <2>2. ASSUME NEW s \in Ship, WriteTemp(s)
        PROVE  PostReaches' /\ RenamesSoFar'
    <3>1. PostReaches'
      BY <2>2, StillDelivers DEF WriteTemp
    <3>2. CASE op.rcpts = {s}
      <4>1. op'.post = op.post /\ op'.rcpts = rcpt[op.post] /\ rcpt' = rcpt
        BY <1>0, <2>2, <3>2 DEF WriteTemp, OpOK
      <4>2. QED BY <3>1, <4>1 DEF RenamesSoFar
    <3>3. CASE op.rcpts # {s}
      <4>1. op'.kind # "rename"
        BY <1>0, <2>2, <3>3 DEF WriteTemp, OpOK
      <4>2. QED BY <3>1, <4>1, NoRename
    <3>4. QED BY <3>2, <3>3
  <2>3. ASSUME \/ RenameFails
               \/ \E s \in Ship, l \in BOOLEAN : WriteTempFails(s, l)
        PROVE  PostReaches' /\ RenamesSoFar'
    BY <2>3, StillDelivers, NoRename DEF RenameFails, WriteTempFails
  <2>4. QED BY <1>5, <2>1, <2>2, <2>3, RenameDelivers DEF PostStep
<1>6. CASE CleanStep
  <2>1. ASSUME NEW p \in Post, InitAck(p)
        PROVE  PostReaches' /\ RenamesSoFar'
    <3>1. op.by \in Ship /\ p \in unseen[op.by]
      BY <1>0, <2>1 DEF InitAck, Newest, BusInv, AckListed, OpOK
    <3>2. op'.kind # "rename"
      BY <1>0, <2>1 DEF InitAck, OpOK
    <3>3. PostReaches'
      BY <1>1, <2>1, <3>1 DEF InitAck
    <3>4. QED BY <3>2, <3>3, NoRename
  <2>2. ASSUME \/ InitPrune \/ InitEnd \/ RemoveEnd
               \/ \E x \in Ship \X Post : Keep(x)
        PROVE  PostReaches' /\ RenamesSoFar'
    <3>1. op'.kind # "rename"
      <4>1. CASE InitPrune BY <1>0, <4>1 DEF InitPrune, OpOK
      <4>2. CASE InitEnd \/ RemoveEnd BY <4>2 DEF InitEnd, RemoveEnd
      <4>3. CASE \E x \in Ship \X Post : Keep(x)
        BY <1>0, <4>3 DEF Keep, OpOK
      <4>4. QED BY <2>2, <4>1, <4>2, <4>3
    <3>2. PostReaches'
      BY <2>2, StillDelivers DEF InitPrune, InitEnd, RemoveEnd, Keep
    <3>3. QED BY <3>1, <3>2, NoRename
  <2>3. ASSUME NEW x \in Ship \X Post, Remove(x)
        PROVE  PostReaches' /\ RenamesSoFar'
    <3>1. op'.kind # "rename"
      BY <1>0, <2>3 DEF Remove, OpOK
    <3>2. x = <<x[1], x[2]>>
      OBVIOUS
    <3>3. Kept
      BY <1>0, <2>3, <3>2 DEF Remove, Kept, Files, StoreOK
    <3>4. PostReaches'
      BY <2>3, <3>3, KeptDelivers DEF Remove
    <3>5. QED BY <3>1, <3>4, NoRename
  <2>4. QED BY <1>6, <2>1, <2>2, <2>3 DEF CleanStep
<1>7. CASE BoardStep
  BY <1>7, StillDelivers, NoRename
     DEF BoardStep, Touch, Clear, Status, HealthUpdate, Files
<1>8. CASE Tick \/ LoseSeq \/ Crash
  BY <1>8, StillDelivers, NoRename DEF Tick, LoseSeq, Crash, Files
<1>9. CASE UNCHANGED vars
  BY <1>9, StillDelivers, NoRename DEF vars, Files
<1>10. QED
  BY <1>2, <1>3, <1>3a, <1>4, <1>5, <1>6, <1>7, <1>8, <1>9
     DEF Next, Begin

LEMMA BusInvariant == Spec => []BusInv
<1>1. ASSUME BusInv, [Next]_vars PROVE BusInv'
  <2>1. TypeOK' BY <1>1, TypeStep DEF BusInv
  <2>2. QED BY <1>1, <2>1, IdStep, AckStep, DeliverStep DEF BusInv
<1>2. QED BY <1>1, BusInitially, PTL DEF Spec

\* Every variable keeps its type: in particular .seq never runs ahead of the
\* number of posts, which TypeStep needs PostUnderWay for.
THEOREM BusTypes == Spec => []TypeOK
<1>1. BusInv => TypeOK BY DEF BusInv
<1>2. QED BY <1>1, BusInvariant, PTL

\* nextID: for any number of ships and posts, whatever crashes, is pruned, or
\* is lost of .seq, no two messages in the store have one id.
THEOREM IdsNameOneMessage == Spec => []IdNamesOneMessage
<1>1. BusInv => IdNamesOneMessage BY DEF BusInv
<1>2. QED BY <1>1, BusInvariant, PTL

\* postAs: a post that returned an id reached every recipient, and stays
\* there until an operation removes it.
THEOREM PostsReach == Spec => []PostReaches
<1>1. BusInv => PostReaches BY DEF BusInv
<1>2. QED BY <1>1, BusInvariant, PTL

-----------------------------------------------------------------------------
(* The fate of a copy.  BusInv says what is in the store, not what became of *)
(* what is no more; nor why a cleaning operation lists a file.             *)

\* A copy is unread, read or removed for good, and only of posts there were.
OneFate ==
    \A s \in Ship : \A p \in Post :
        /\ ~(p \in unseen[s] /\ p \in seen[s])
        /\ <<s, p>> \in gone => p \notin Files(s) /\ p <= posts

\* What the post under way has still to rename is nowhere yet, and never was.
NotSentYet ==
    /\ op.kind \in {"number", "write"} =>
          \A s \in Ship : op.post \notin Files(s) /\ <<s, op.post>> \notin gone
    /\ op.kind = "rename" =>
          \A s \in op.rcpts : op.post \notin Files(s) /\ <<s, op.post>> \notin gone

\* What a cleaning operation has still to look at is there.
ListedIsThere ==
    op.kind \in {"init", "prune", "purge"} => \A x \in op.todo : x[2] \in Files(x[1])

\* An unread file is listed by a purge for a dead ship at either end of it.
PurgeListed ==
    op.kind = "purge" =>
        \A x \in op.todo :
            x[2] \in unseen[x[1]] => x[1] \notin op.live \/ from[x[2]] \notin op.live

FateInv == OneFate /\ NotSentYet /\ ListedIsThere /\ PurgeListed

\* ackMessage: one copy moves, and overwrites nothing.
LEMMA AckMoves ==
    ASSUME BusInv, NEW s \in Ship, NEW p \in unseen[s], MoveToSeen(s, p)
    PROVE  /\ unseen' = [unseen EXCEPT ![s] = @ \ {p}]
           /\ seen' = [seen EXCEPT ![s] = @ \cup {p}]
<1>1. p \in Post /\ seen[s] \in SUBSET Files(s)
  BY DEF BusInv, TypeOK, StoreOK, Files
<1>2. \A q \in Files(s) : q # p => idOf[q] # idOf[p]
  BY DEF BusInv, IdNamesOneMessage, Files
<1>3. Put(p, seen[s]) = seen[s] \cup {p}
  BY <1>1, <1>2, PutKeeps
<1>4. QED
  BY <1>3 DEF MoveToSeen

\* postAs: one copy appears, and overwrites nothing.
LEMMA RenameAdds ==
    ASSUME BusInv, NEW s \in Ship, Rename(s)
    PROVE  /\ op.post \in Post
           /\ unseen' = [unseen EXCEPT ![s] = @ \cup {op.post}]
<1>1. op.post \in Post /\ unseen[s] \in SUBSET Files(s)
  BY DEF Rename, BusInv, PostUnderWay, Posting, Files
<1>2. \A q \in Files(s) : q # op.post => idOf[q] # idOf[op.post]
  BY DEF Rename, BusInv, PostUnderWay, Posting
<1>3. Put(op.post, unseen[s]) = unseen[s] \cup {op.post}
  BY <1>1, <1>2, PutKeeps
<1>4. QED
  BY <1>1, <1>3 DEF Rename

\* Steps that leave the files as they are, and go on with the operation or
\* end it.
LEMMA CalmFate ==
    ASSUME BusInv, FateInv, UNCHANGED <<unseen, seen, gone, from>>, posts' = posts,
           \/ op'.kind \notin Kind \ {"free", "ack"}
           \/ /\ op'.kind = op.kind /\ op'.post = op.post /\ op'.live = op.live
              /\ op'.rcpts \subseteq op.rcpts /\ op'.todo \subseteq op.todo
    PROVE  FateInv'
<1>1. OneFate'
  <2>1. \A p \in Post : p <= posts => p <= posts'
    BY BusAssumption DEF BusInv, TypeOK, SentOK, Post
  <2>2. QED
    BY <2>1 DEF FateInv, OneFate, Files
<1>2. NotSentYet' /\ ListedIsThere' /\ PurgeListed'
  BY DEF FateInv, NotSentYet, ListedIsThere, PurgeListed, Files, Kind
<1>3. QED
  BY <1>1, <1>2 DEF FateInv

\* The beginnings of operations: they list what there is, or number a post
\* that no copy is of.
LEMMA BeginFate ==
    ASSUME BusInv, FateInv, NEW s \in Ship,
           \/ PostBegin(s) \/ PruneBegin(s) \/ InitBegin(s) \/ AckMissing(s)
           \/ \E cutoff \in Time : PurgeBegin(s, cutoff)
    PROVE  FateInv'
<1>0. StoreOK /\ SentOK /\ OpOK BY DEF BusInv, TypeOK
<1> USE DEF store, sent
<1>1. CASE PostBegin(s)
  <2>1. PICK id \in Id : PostAs(s, id)
    BY <1>1 DEF PostBegin
  <2>2. /\ UNCHANGED <<unseen, seen, gone>> /\ posts' = posts + 1 /\ posts \in Nat
        /\ op'.kind = "number" /\ op'.post = posts + 1
    BY <1>0, <2>1, BusAssumption DEF PostAs, Free, SentOK
  <2>3. \A t \in Ship : posts + 1 \notin Files(t) /\ <<t, posts + 1>> \notin gone
    <3>1. posts + 1 \in Post
      BY <2>1, <2>2, BusAssumption DEF PostAs, Post
    <3>2. QED
      BY <2>2, <3>1 DEF BusInv, PostsCounted, FateInv, OneFate
  <2>4. OneFate'
    <3>1. \A p \in Post : p <= posts => p <= posts'
      BY <2>2, BusAssumption DEF Post
    <3>2. QED
      BY <2>2, <3>1 DEF FateInv, OneFate, Files
  <2>5. NotSentYet'
    BY <2>2, <2>3 DEF NotSentYet, Files
  <2>6. ListedIsThere' /\ PurgeListed'
    BY <2>2 DEF ListedIsThere, PurgeListed
  <2>7. QED
    BY <2>4, <2>5, <2>6 DEF FateInv
<1>2. CASE PruneBegin(s)
  <2>1. /\ UNCHANGED <<unseen, seen, gone, posts>>
        /\ op'.kind = "prune" /\ op'.todo = AllFiles
    BY <1>2 DEF PruneBegin, Free
  <2>2. OneFate' /\ NotSentYet' /\ PurgeListed'
    BY <2>1 DEF FateInv, OneFate, Files, NotSentYet, PurgeListed
  <2>3. ListedIsThere'
    BY <2>1 DEF ListedIsThere, AllFiles, Files
  <2>4. QED
    BY <2>2, <2>3 DEF FateInv
<1>3. CASE InitBegin(s)
  <2>1. op'.kind = "ack"
    BY <1>3 DEF InitBegin, Free
  <2>2. QED
    BY <1>0, <1>3, <2>1, CalmFate DEF InitBegin, SentOK
<1>4. CASE AckMissing(s)
  BY <1>0, <1>4, CalmFate DEF AckMissing, SentOK
<1>5. ASSUME NEW cutoff \in Time, PurgeBegin(s, cutoff)
      PROVE  FateInv'
  <2>1. /\ UNCHANGED <<unseen, seen, gone, posts, from>>
        /\ op'.kind = "purge" /\ op'.todo = FromOrToDead(s, cutoff) /\ op'.live = Live
    BY <1>5 DEF PurgeBegin, Free
  <2>2. OneFate' /\ NotSentYet'
    BY <2>1 DEF FateInv, OneFate, Files, NotSentYet
  <2>3. ASSUME NEW x \in FromOrToDead(s, cutoff)
        PROVE  /\ x \in Ship \X Post /\ x[2] \in Files(x[1])
               /\ x[2] \in unseen[x[1]] => x[1] \notin Live \/ from[x[2]] \notin Live
    BY <1>0 DEF FromOrToDead, Files, FateInv, OneFate
  <2>4. ListedIsThere'
    BY <2>1, <2>3 DEF ListedIsThere, Files
  <2>5. PurgeListed'
    BY <2>1, <2>3 DEF PurgeListed
  <2>6. QED
    BY <2>2, <2>4, <2>5 DEF FateInv
<1>6. QED
  BY <1>1, <1>2, <1>3, <1>4, <1>5

\* A copy that is read stays where it was listed, and is no longer unread.
LEMMA AckFate ==
    ASSUME BusInv, FateInv, NEW s \in Ship, NEW p \in unseen[s], MoveToSeen(s, p),
           UNCHANGED <<gone, posts, from>>,
           \/ op' = op
           \/ op.kind = "ack" /\ op'.kind = "ack"
    PROVE  FateInv'
<1>1. /\ unseen' = [unseen EXCEPT ![s] = @ \ {p}]
      /\ seen' = [seen EXCEPT ![s] = @ \cup {p}]
      /\ \A t \in Ship : Files(t)' = Files(t)
  BY AckMoves, MoveKeeps
<1>2. \A t \in Ship : unseen'[t] \subseteq unseen[t]
  BY <1>1 DEF BusInv, TypeOK, StoreOK
<1>3. OneFate'
  BY <1>1, <1>2 DEF FateInv, OneFate, BusInv, TypeOK, StoreOK, Files
<1>4. NotSentYet'
  BY <1>1 DEF FateInv, NotSentYet, BusInv, TypeOK, OpOK
<1>5. ListedIsThere' /\ PurgeListed'
  BY <1>1, <1>2 DEF FateInv, ListedIsThere, PurgeListed, BusInv, TypeOK, OpOK
<1>6. QED
  BY <1>3, <1>4, <1>5 DEF FateInv

\* The copy that a rename adds was nowhere.
LEMMA RenameFate ==
    ASSUME BusInv, FateInv, NEW s \in Ship, Rename(s)
    PROVE  FateInv'
<1> DEFINE p == op.post
<1>1. /\ p \in Post /\ p \in 1 .. posts /\ s \in op.rcpts /\ op.kind = "rename"
      /\ unseen' = [unseen EXCEPT ![s] = @ \cup {p}]
      /\ UNCHANGED <<seen, gone, posts, from>>
  <2>1. p = posts /\ p \in Post
    BY DEF Rename, BusInv, PostUnderWay, Posting
  <2>2. p \in 1 .. posts
    BY <2>1, BusAssumption DEF Post
  <2>3. QED
    BY <2>1, <2>2, RenameAdds DEF Rename, sent
<1>2. p \notin Files(s) /\ <<s, p>> \notin gone
  BY <1>1 DEF FateInv, NotSentYet
<1>3. \/ op' = Free
      \/ op'.kind = "rename" /\ op'.post = p /\ op'.rcpts = op.rcpts \ {s}
  BY <1>1 DEF Rename, BusInv, TypeOK, OpOK
<1>4. OneFate'
  BY <1>1, <1>2 DEF FateInv, OneFate, BusInv, TypeOK, StoreOK, Files
<1>5. NotSentYet'
  <2>1. \A t \in Ship \ {s} : Files(t)' = Files(t)
    BY RenameKeeps
  <2>2. op.rcpts \subseteq Ship
    BY DEF BusInv, TypeOK, OpOK
  <2>3. QED
    BY <1>1, <1>3, <2>1, <2>2 DEF FateInv, NotSentYet, Free
<1>6. ListedIsThere' /\ PurgeListed'
  BY <1>3 DEF ListedIsThere, PurgeListed, Free
<1>7. QED
  BY <1>4, <1>5, <1>6 DEF FateInv

\* What is removed had been listed, and is listed no more.
LEMMA RemoveFate ==
    ASSUME BusInv, FateInv, NEW x \in Ship \X Post, Remove(x)
    PROVE  FateInv'
<1>1. /\ op.kind \in {"init", "prune", "purge"} /\ op' = [op EXCEPT !.todo = @ \ {x}]
      /\ unseen' = [unseen EXCEPT ![x[1]] = @ \ {x[2]}]
      /\ seen' = [seen EXCEPT ![x[1]] = @ \ {x[2]}]
      /\ gone' = gone \cup {x} /\ UNCHANGED <<posts, from>>
      /\ x \in op.todo /\ x[2] \in Files(x[1])
  BY DEF Remove, Newest, FateInv, ListedIsThere, sent
<1>2. /\ op'.kind = op.kind /\ op'.live = op.live /\ op'.todo = op.todo \ {x}
      /\ op'.todo \subseteq Ship \X Post
  BY <1>1 DEF BusInv, TypeOK, OpOK
<1>3. x = <<x[1], x[2]>> /\ x[1] \in Ship /\ x[2] \in Post /\ x[2] <= posts
  BY <1>1 DEF BusInv, PostsCounted
<1>4. \A t \in Ship : \A q \in Post :
          /\ unseen'[t] = unseen[t] \ (IF t = x[1] THEN {x[2]} ELSE {})
          /\ seen'[t] = seen[t] \ (IF t = x[1] THEN {x[2]} ELSE {})
          /\ q \in Files(t)' <=> q \in Files(t) /\ <<t, q>> # x
  BY <1>1, <1>3 DEF BusInv, TypeOK, StoreOK, Files
<1>5. OneFate'
  <2>1. ASSUME NEW t \in Ship, NEW q \in Post
        PROVE  /\ ~(q \in unseen'[t] /\ q \in seen'[t])
               /\ <<t, q>> \in gone' => q \notin Files(t)' /\ q <= posts
    <3>1. /\ ~(q \in unseen[t] /\ q \in seen[t])
          /\ <<t, q>> \in gone => q \notin Files(t) /\ q <= posts
      BY DEF FateInv, OneFate
    <3>2. <<t, q>> = x => q = x[2]
      BY <1>3
    <3>3. <<t, q>> \in gone' => <<t, q>> \in gone \/ <<t, q>> = x
      BY <1>1
    <3>4. QED
      BY <1>3, <1>4, <3>1, <3>2, <3>3
  <2>2. QED
    BY <1>1, <2>1 DEF OneFate
<1>6. NotSentYet'
  BY <1>1, <1>2 DEF NotSentYet
<1>7. ListedIsThere'
  <2>1. \A y \in op'.todo : y # x /\ y = <<y[1], y[2]>> /\ y[1] \in Ship /\ y[2] \in Post
    BY <1>2
  <2>2. \A y \in op'.todo : y[2] \in Files(y[1])
    BY <1>1, <1>2 DEF FateInv, ListedIsThere
  <2>3. QED
    BY <1>4, <2>1, <2>2 DEF ListedIsThere
<1>8. PurgeListed'
  <2>1. \A y \in op'.todo : unseen'[y[1]] \subseteq unseen[y[1]]
    BY <1>2, <1>4
  <2>2. QED
    BY <1>1, <1>2, <2>1 DEF FateInv, PurgeListed
<1>9. QED
  BY <1>5, <1>6, <1>7, <1>8 DEF FateInv

LEMMA FateStep == ASSUME BusInv, FateInv, [Next]_vars PROVE FateInv'
<1>0. StoreOK /\ SentOK /\ OpOK BY DEF BusInv, TypeOK
<1> USE DEF store, sent
<1>1. CASE Begin
  <2>1. ASSUME NEW s \in Ship, NEW p \in Post, Ack(s, p) PROVE FateInv'
    BY <2>1, AckFate DEF Ack
  <2>2. QED
    BY <1>1, <2>1, BeginFate DEF Begin
<1>2. CASE PostStep
  <2>1. ASSUME NEW r \in SUBSET Ship, WriteSeq(r) PROVE FateInv'
    <3>1. /\ UNCHANGED <<unseen, seen, gone, posts, from>>
          /\ op.kind = "number" /\ op'.kind = "write" /\ op'.post = op.post
      BY <1>0, <2>1 DEF WriteSeq, OpOK
    <3>2. QED
      BY <3>1 DEF FateInv, OneFate, NotSentYet, ListedIsThere, PurgeListed, Files
  <2>2. ASSUME NEW s \in Ship, WriteTemp(s) PROVE FateInv'
    <3>1. /\ UNCHANGED <<unseen, seen, gone, posts, from>> /\ rcpt[op.post] \subseteq Ship
          /\ op.kind = "write" /\ op'.kind \in {"write", "rename"} /\ op'.post = op.post
          /\ op'.rcpts \subseteq Ship
      BY <1>0, <2>2 DEF WriteTemp, OpOK, SentOK, BusInv, PostUnderWay, Posting
    <3>2. QED
      BY <3>1 DEF FateInv, OneFate, NotSentYet, ListedIsThere, PurgeListed, Files
  <2>3. ASSUME \/ RenameFails
               \/ \E s \in Ship, l \in BOOLEAN : WriteTempFails(s, l)
        PROVE  FateInv'
    BY <2>3, CalmFate DEF RenameFails, WriteTempFails, Free
  <2>4. QED
    BY <1>2, <2>1, <2>2, <2>3, RenameFate DEF PostStep
<1>3. CASE CleanStep
  <2>1. ASSUME NEW p \in Post, InitAck(p) PROVE FateInv'
    <3>1. op.by \in Ship /\ p \in unseen[op.by] /\ op.kind = "ack" /\ op'.kind = "ack"
      BY <1>0, <2>1 DEF InitAck, Newest, BusInv, AckListed, OpOK
    <3>2. QED
      BY <2>1, <3>1, AckFate DEF InitAck
  <2>2. ASSUME InitPrune PROVE FateInv'
    <3>1. /\ UNCHANGED <<unseen, seen, gone, posts, from>>
          /\ op'.kind = "init" /\ op'.todo = AllFiles
      BY <1>0, <2>2 DEF InitPrune, OpOK
    <3>2. OneFate' /\ NotSentYet' /\ PurgeListed'
      BY <3>1 DEF FateInv, OneFate, NotSentYet, PurgeListed, Files
    <3>3. ListedIsThere'
      BY <3>1 DEF ListedIsThere, AllFiles, Files
    <3>4. QED
      BY <3>2, <3>3 DEF FateInv
  <2>3. ASSUME NEW x \in Ship \X Post, Keep(x) PROVE FateInv'
    <3>1. /\ op'.kind = op.kind /\ op'.post = op.post /\ op'.live = op.live
          /\ op'.rcpts = op.rcpts /\ op'.todo \subseteq op.todo
      BY <1>0, <2>3 DEF Keep, OpOK
    <3>2. QED
      BY <2>3, <3>1, CalmFate DEF Keep
  <2>4. ASSUME InitEnd \/ RemoveEnd PROVE FateInv'
    BY <2>4, CalmFate DEF InitEnd, RemoveEnd, Free
  <2>5. QED
    BY <1>3, <2>1, <2>2, <2>3, <2>4, RemoveFate DEF CleanStep
<1>4. CASE BoardStep
  BY <1>4, CalmFate DEF BoardStep, Touch, Clear, Status, HealthUpdate
<1>5. CASE Tick \/ LoseSeq \/ Crash
  BY <1>5, CalmFate DEF Tick, LoseSeq, Crash, Free
<1>6. CASE UNCHANGED vars
  BY <1>6, CalmFate DEF vars
<1>7. QED
  BY <1>1, <1>2, <1>3, <1>4, <1>5, <1>6 DEF Next

LEMMA FateIsKnown == Spec => []FateInv
<1>1. Init => FateInv
  BY DEF Init, FateInv, OneFate, NotSentYet, ListedIsThere, PurgeListed, Free, Files
<1>2. BusInv /\ FateInv /\ [Next]_vars => FateInv'
  BY FateStep
<1>3. QED
  BY <1>1, <1>2, BusInvariant, PTL DEF Spec

-----------------------------------------------------------------------------
(* The store implements Mailbox: a step of the store moves one copy on, or *)
(* none.                                                                   *)

\* What the mapping makes of the fate of one copy.
LEMMA BoxReads ==
    ASSUME OneFate, NEW s \in Ship, NEW p \in Post
    PROVE  /\ p \in unseen[s] => box[<<s, p>>] = "unread"
           /\ p \notin unseen[s] /\ p \in seen[s] => box[<<s, p>>] = "read"
           /\ p \notin Files(s) /\ <<s, p>> \in gone => box[<<s, p>>] = "removed"
           /\ p \notin Files(s) /\ <<s, p>> \notin gone => box[<<s, p>>] = "none"
<1>1. box[<<s, p>>] = CASE p \in unseen[s] -> "unread"
                        [] p \in seen[s] -> "read"
                        [] <<s, p>> \in gone -> "removed"
                        [] OTHER -> "none"
  BY DEF box
<1>2. CASE p \in unseen[s]
  BY <1>1, <1>2 DEF OneFate, Files
<1>3. CASE p \notin unseen[s] /\ p \in seen[s]
  BY <1>1, <1>3 DEF OneFate, Files
<1>4. CASE p \notin Files(s)
  BY <1>1, <1>4 DEF Files
<1>5. QED
  BY <1>2, <1>3, <1>4 DEF Files

\* ... and of its fate after the step.
LEMMA BoxReadsNext ==
    ASSUME OneFate', NEW s \in Ship, NEW p \in Post
    PROVE  /\ p \in unseen'[s] => box'[<<s, p>>] = "unread"
           /\ p \notin unseen'[s] /\ p \in seen'[s] => box'[<<s, p>>] = "read"
           /\ p \notin Files(s)' /\ <<s, p>> \in gone' => box'[<<s, p>>] = "removed"
<1>1. box'[<<s, p>>] = CASE p \in unseen'[s] -> "unread"
                         [] p \in seen'[s] -> "read"
                         [] <<s, p>> \in gone' -> "removed"
                         [] OTHER -> "none"
  BY DEF box
<1>2. CASE p \in unseen'[s]
  BY <1>1, <1>2 DEF OneFate, Files
<1>3. CASE p \notin unseen'[s] /\ p \in seen'[s]
  BY <1>1, <1>3 DEF OneFate, Files
<1>4. CASE p \notin Files(s)'
  BY <1>1, <1>4 DEF Files
<1>5. QED
  BY <1>2, <1>3, <1>4 DEF Files

LEMMA BoxCalm == ASSUME UNCHANGED <<unseen, seen, gone>> PROVE box' = box
BY DEF box

\* One copy has moved if the others have the fate they had.
LEMMA BoxMoves ==
    ASSUME NEW s \in Ship, NEW p \in Post,
           \A t \in Ship : \A q \in Post :
               <<t, q>> # <<s, p>> =>
                   /\ q \in unseen'[t] <=> q \in unseen[t]
                   /\ q \in seen'[t] <=> q \in seen[t]
                   /\ <<t, q>> \in gone' <=> <<t, q>> \in gone
    PROVE  box' = [box EXCEPT ![<<s, p>>] = box'[<<s, p>>]]
<1>1. \A c \in Ship \X Post : c # <<s, p>> => box'[c] = box[c]
  <2>1. ASSUME NEW t \in Ship, NEW q \in Post, <<t, q>> # <<s, p>>
        PROVE  box'[<<t, q>>] = box[<<t, q>>]
    BY <2>1 DEF box
  <2>2. QED
    BY <2>1
<1>2. box = [c \in Ship \X Post |-> box[c]] /\ box' = [c \in Ship \X Post |-> box'[c]]
  BY DEF box
<1>3. QED
  BY <1>1, <1>2

LEMMA AckIsRead ==
    ASSUME BusInv, FateInv, OneFate', NEW s \in Ship, NEW p \in unseen[s], MoveToSeen(s, p),
           gone' = gone
    PROVE  Boxes!Read(<<s, p>>)
<1>1. /\ p \in Post /\ unseen' = [unseen EXCEPT ![s] = @ \ {p}]
      /\ seen' = [seen EXCEPT ![s] = @ \cup {p}]
  BY AckMoves DEF BusInv, TypeOK, StoreOK
<1>2. p \notin unseen'[s] /\ p \in seen'[s]
  BY <1>1 DEF BusInv, TypeOK, StoreOK
<1>3. box[<<s, p>>] = "unread"
  BY <1>1, BoxReads DEF FateInv
<1>4. box'[<<s, p>>] = "read"
  BY <1>1, <1>2, BoxReadsNext
<1>5. box' = [box EXCEPT ![<<s, p>>] = box'[<<s, p>>]]
  <2>1. \A t \in Ship : \A q \in Post :
            <<t, q>> # <<s, p>> =>
                /\ q \in unseen'[t] <=> q \in unseen[t]
                /\ q \in seen'[t] <=> q \in seen[t]
    BY <1>1 DEF BusInv, TypeOK, StoreOK
  <2>2. QED
    BY <1>1, <2>1, BoxMoves
<1>6. QED
  BY <1>3, <1>4, <1>5 DEF Boxes!Read, Boxes!Move

LEMMA RenameDeliversCopy ==
    ASSUME BusInv, FateInv, OneFate', NEW s \in Ship, Rename(s)
    PROVE  Boxes!Deliver(<<s, op.post>>)
<1> DEFINE p == op.post
<1>1. /\ p \in Post /\ unseen' = [unseen EXCEPT ![s] = @ \cup {p}]
      /\ UNCHANGED <<seen, gone>> /\ op.kind = "rename" /\ s \in op.rcpts
  BY RenameAdds DEF Rename
<1>2. p \notin Files(s) /\ <<s, p>> \notin gone
  BY <1>1 DEF FateInv, NotSentYet
<1>3. box[<<s, p>>] = "none"
  BY <1>1, <1>2, BoxReads DEF FateInv
<1>4. box'[<<s, p>>] = "unread"
  <2>1. p \in unseen'[s]
    BY <1>1 DEF BusInv, TypeOK, StoreOK
  <2>2. QED
    BY <1>1, <2>1, BoxReadsNext
<1>5. box' = [box EXCEPT ![<<s, p>>] = box'[<<s, p>>]]
  <2>1. \A t \in Ship : \A q \in Post :
            <<t, q>> # <<s, p>> => (q \in unseen'[t] <=> q \in unseen[t])
    BY <1>1 DEF BusInv, TypeOK, StoreOK
  <2>2. QED
    BY <1>1, <2>1, BoxMoves
<1>6. QED
  BY <1>3, <1>4, <1>5 DEF Boxes!Deliver, Boxes!Move

LEMMA RemoveDiscards ==
    ASSUME BusInv, FateInv, OneFate', NEW x \in Ship \X Post, Remove(x)
    PROVE  Boxes!Discard(x)
<1> DEFINE s == x[1]
           p == x[2]
<1>1. /\ x = <<s, p>> /\ s \in Ship /\ p \in Post
      /\ unseen' = [unseen EXCEPT ![s] = @ \ {p}]
      /\ seen' = [seen EXCEPT ![s] = @ \ {p}]
      /\ gone' = gone \cup {x} /\ p \in Files(s)
  BY DEF Remove, Newest, FateInv, ListedIsThere
<1>2. p \notin unseen'[s] /\ p \notin seen'[s] /\ x \in gone'
  BY <1>1 DEF BusInv, TypeOK, StoreOK
<1>3. box[x] = "unread" \/ box[x] = "read"
  <2>1. box[<<s, p>>] = "unread" \/ box[<<s, p>>] = "read"
    BY <1>1, BoxReads DEF FateInv, Files
  <2>2. QED
    BY <1>1, <2>1
<1>4. box'[<<s, p>>] = "removed"
  <2>1. p \notin Files(s)' /\ <<s, p>> \in gone'
    BY <1>1, <1>2 DEF Files
  <2>2. QED
    BY <1>1, <2>1, BoxReadsNext
<1>5. box' = [box EXCEPT ![<<s, p>>] = box'[<<s, p>>]]
  <2>1. \A t \in Ship : \A q \in Post :
            <<t, q>> # <<s, p>> =>
                /\ q \in unseen'[t] <=> q \in unseen[t]
                /\ q \in seen'[t] <=> q \in seen[t]
                /\ <<t, q>> \in gone' <=> <<t, q>> \in gone
    BY <1>1 DEF BusInv, TypeOK, StoreOK
  <2>2. QED
    BY <1>1, <2>1, BoxMoves
<1>6. QED
  BY <1>1, <1>3, <1>4, <1>5 DEF Boxes!Discard, Boxes!Move

LEMMA BoxStep == ASSUME BusInv, FateInv, [Next]_vars PROVE [Boxes!Next]_box
<1>0. OpOK /\ OneFate'
  BY FateStep DEF BusInv, TypeOK, FateInv
<1> USE DEF store, sent
<1>1. ASSUME NEW s \in Ship, NEW p \in unseen[s], MoveToSeen(s, p), gone' = gone
      PROVE  Boxes!Next
  <2>1. <<s, p>> \in Ship \X Post
    BY DEF BusInv, TypeOK, StoreOK
  <2>2. QED
    BY <1>0, <1>1, <2>1, AckIsRead DEF Boxes!Next
<1>2. CASE Begin
  <2>1. ASSUME NEW s \in Ship, NEW p \in Post, Ack(s, p) PROVE Boxes!Next
    BY <1>1, <2>1 DEF Ack
  <2>2. ASSUME NEW s \in Ship,
               \/ PostBegin(s) \/ PruneBegin(s) \/ InitBegin(s) \/ AckMissing(s)
               \/ \E cutoff \in Time : PurgeBegin(s, cutoff)
        PROVE  box' = box
    BY <2>2, BoxCalm DEF PostBegin, PostAs, PruneBegin, InitBegin, AckMissing, PurgeBegin
  <2>3. QED
    BY <1>2, <2>1, <2>2 DEF Begin
<1>3. CASE PostStep
  <2>1. ASSUME NEW s \in Ship, Rename(s) PROVE Boxes!Next
    <3>1. <<s, op.post>> \in Ship \X Post
      BY <2>1, RenameAdds
    <3>2. QED
      BY <1>0, <2>1, <3>1, RenameDeliversCopy DEF Boxes!Next
  <2>2. ASSUME \/ \E r \in SUBSET Ship : WriteSeq(r)
               \/ \E s \in Ship : WriteTemp(s)
               \/ \E s \in Ship, left \in BOOLEAN : WriteTempFails(s, left)
               \/ RenameFails
        PROVE  box' = box
    BY <2>2, BoxCalm DEF WriteSeq, WriteTemp, WriteTempFails, RenameFails
  <2>3. QED
    BY <1>3, <2>1, <2>2 DEF PostStep
<1>4. CASE CleanStep
  <2>1. ASSUME NEW p \in Post, InitAck(p) PROVE Boxes!Next
    <3>1. op.by \in Ship /\ p \in unseen[op.by]
      BY <1>0, <2>1 DEF InitAck, Newest, BusInv, AckListed, OpOK
    <3>2. QED
      BY <1>1, <2>1, <3>1 DEF InitAck
  <2>2. ASSUME NEW x \in Ship \X Post, Remove(x) PROVE Boxes!Next
    BY <1>0, <2>2, RemoveDiscards DEF Boxes!Next
  <2>3. ASSUME InitPrune \/ InitEnd \/ RemoveEnd \/ \E x \in Ship \X Post : Keep(x)
        PROVE  box' = box
    BY <2>3, BoxCalm DEF InitPrune, InitEnd, RemoveEnd, Keep
  <2>4. QED
    BY <1>4, <2>1, <2>2, <2>3 DEF CleanStep
<1>5. CASE BoardStep
  BY <1>5, BoxCalm DEF BoardStep, Touch, Clear, Status, HealthUpdate
<1>6. CASE Tick \/ LoseSeq \/ Crash
  BY <1>6, BoxCalm DEF Tick, LoseSeq, Crash
<1>7. CASE UNCHANGED vars
  BY <1>7, BoxCalm DEF vars
<1>8. QED
  BY <1>2, <1>3, <1>4, <1>5, <1>6, <1>7 DEF Next

\* commands.go: the store keeps the promise of Mailbox.  A copy arrives once,
\* is read once, and nothing that was read or removed comes back unread,
\* whatever crashes, fails or is pruned in between.
THEOREM ImplementsMailbox == Spec => MailboxSpec
<1>1. Init => Boxes!Init
  BY DEF Init, Boxes!Init, box
<1>2. BusInv /\ FateInv /\ [Next]_vars => [Boxes!Next]_box
  BY BoxStep
<1>3. QED
  BY <1>1, <1>2, BusInvariant, FateIsKnown, PTL DEF Spec, MailboxSpec, Boxes!Spec

-----------------------------------------------------------------------------
(* What is removed unread.                                                 *)

LEMMA UnreadStep ==
    ASSUME BusInv, FateInv, [Next]_vars,
           NEW s \in Ship, NEW p \in unseen[s], p \notin unseen'[s] \cup seen'[s]
    PROVE  \/ s \notin op.live
           \/ op.kind = "purge" /\ from[p] \notin op.live
<1> USE DEF store, sent
<1>0. OpOK /\ StoreOK /\ p \in Post BY DEF BusInv, TypeOK, StoreOK
<1>1. ASSUME NEW t \in Ship, NEW q \in unseen[t], MoveToSeen(t, q) PROVE FALSE
  <2>1. p \in Files(s) /\ Files(s)' = Files(s)
    BY <1>1, MoveKeeps DEF Files
  <2>2. QED
    BY <2>1 DEF Files
<1>2. CASE Begin
  <2>1. ASSUME NEW t \in Ship, NEW q \in Post, Ack(t, q) PROVE FALSE
    BY <1>1, <2>1 DEF Ack
  <2>2. ASSUME NEW t \in Ship,
               \/ PostBegin(t) \/ PruneBegin(t) \/ InitBegin(t) \/ AckMissing(t)
               \/ \E cutoff \in Time : PurgeBegin(t, cutoff)
        PROVE  unseen' = unseen
    BY <2>2 DEF PostBegin, PostAs, PruneBegin, InitBegin, AckMissing, PurgeBegin
  <2>3. QED
    BY <1>2, <2>1, <2>2 DEF Begin
<1>3. CASE PostStep
  <2>1. ASSUME NEW t \in Ship, Rename(t) PROVE p \in unseen'[s]
    BY <1>0, <2>1, RenameAdds DEF StoreOK
  <2>2. ASSUME \/ \E r \in SUBSET Ship : WriteSeq(r)
               \/ \E t \in Ship : WriteTemp(t)
               \/ \E t \in Ship, left \in BOOLEAN : WriteTempFails(t, left)
               \/ RenameFails
        PROVE  unseen' = unseen
    BY <2>2 DEF WriteSeq, WriteTemp, WriteTempFails, RenameFails
  <2>3. QED
    BY <1>3, <2>1, <2>2 DEF PostStep
<1>4. CASE CleanStep
  <2>1. ASSUME NEW q \in Post, InitAck(q) PROVE FALSE
    <3>1. op.by \in Ship /\ q \in unseen[op.by]
      BY <1>0, <2>1 DEF InitAck, Newest, BusInv, AckListed, OpOK
    <3>2. QED
      BY <1>1, <2>1, <3>1 DEF InitAck
  <2>2. ASSUME NEW x \in Ship \X Post, Remove(x)
        PROVE  s \notin op.live \/ (op.kind = "purge" /\ from[p] \notin op.live)
    <3>1. x[1] = s /\ x[2] = p /\ x \in op.todo /\ Spent(x)
          /\ op.kind \in {"init", "prune", "purge"}
      BY <1>0, <2>2 DEF Remove, Newest, StoreOK
    <3>2. ~Acked(p, s)
      <4>1. \A q \in seen[s] : q # p
        BY <1>0 DEF FateInv, OneFate
      <4>2. QED
        BY <4>1 DEF Acked, BusInv, IdNamesOneMessage, Files
    <3>3. CASE op.kind = "init" \/ op.kind = "prune"
      BY <3>1, <3>2, <3>3 DEF Spent
    <3>4. CASE op.kind = "purge"
      BY <3>1, <3>4 DEF FateInv, PurgeListed
    <3>5. QED
      BY <3>1, <3>3, <3>4
  <2>3. ASSUME InitPrune \/ InitEnd \/ RemoveEnd \/ \E x \in Ship \X Post : Keep(x)
        PROVE  unseen' = unseen
    BY <2>3 DEF InitPrune, InitEnd, RemoveEnd, Keep
  <2>4. QED
    BY <1>4, <2>1, <2>2, <2>3 DEF CleanStep
<1>5. CASE BoardStep
  BY <1>5 DEF BoardStep, Touch, Clear, Status, HealthUpdate
<1>6. CASE Tick \/ LoseSeq \/ Crash
  BY <1>6 DEF Tick, LoseSeq, Crash
<1>7. CASE UNCHANGED vars
  BY <1>7 DEF vars
<1>8. QED
  BY <1>2, <1>3, <1>4, <1>5, <1>6, <1>7 DEF Next

\* DoPrune, DoInit, DoPurgeOld: no unread copy of a live ship is removed,
\* except by a purge of what a dead sender has left.
THEOREM UnreadStays == Spec => UnreadIsKept
<1>1. BusInv /\ FateInv /\ [Next]_vars =>
        [\A s \in Ship : \A p \in unseen[s] :
           p \notin unseen'[s] \cup seen'[s] =>
               \/ s \notin op.live
               \/ op.kind = "purge" /\ from[p] \notin op.live]_vars
  BY UnreadStep
<1>2. QED
  BY <1>1, BusInvariant, FateIsKnown, PTL DEF Spec, UnreadIsKept

-----------------------------------------------------------------------------
\* A process is past its lock exactly if it holds it, and only a call that
\* takes no lock of its own ends in a touch.
LockInv ==
    /\ \A p \in Proc :
           lock = p <=> call[p].kind \in Locked /\ call[p].pc \notin {"idle", "lock"}
    /\ \A p \in Proc : call[p].touch => call[p].kind = "health"
    /\ \A p \in Proc : At(p, "lock") \/ At(p, "unlock") => call[p].kind \in Locked
    /\ \A p \in Proc : At(p, "read") => call[p].kind # "init"

BoardInv == StatusTypeOK /\ LockInv /\ LockedReadsLast /\ PruneIsRight

LEMMA IdleIsOp == Idle \in Op
BY DEF Idle, Op, PC, CallKind, Locked, Content, State, Same

LEMMA BoardInitially == ASSUME StatusAssumption PROVE StatusInit => BoardInv
<1> SUFFICES ASSUME StatusInit PROVE BoardInv
  OBVIOUS
<1> USE DEF StatusAssumption, StatusInit
<1>1. StatusTypeOK
  BY IdleIsOp DEF StatusTypeOK, Content, Epoch
<1>2. LockInv
  BY DEF LockInv, Idle, At, Locked
<1>3. LockedReadsLast /\ PruneIsRight
  BY DEF LockedReadsLast, PruneIsRight, At, Idle
<1>4. QED BY <1>1, <1>2, <1>3 DEF BoardInv

-----------------------------------------------------------------------------
(* Types.                                                                  *)

LEMMA MergedType ==
    ASSUME StatusTypeOK, NEW p \in Proc
    PROVE  Merged(p) \in Record
<1> DEFINE o == call[p]
<1>1. o \in Op BY DEF StatusTypeOK
<1>2. o.prev \in Content /\ o.prev.task \in Task \cup {NoTask}
  BY <1>1 DEF Op, Content, Record, Absent, Torn
<1>3. o.prev \in Record => o.prev.epoch \in Epoch /\ o.prev.state \in State
  BY DEF Record
<1>4. now \in Epoch BY DEF StatusTypeOK
<1>5. o.state # Same => o.state \in State BY <1>1 DEF Op
<1>6. "idle" \in State BY DEF State
<1>7. o.task \in Task \cup {NoTask} BY <1>1 DEF Op
<1>8. QED BY <1>2, <1>3, <1>4, <1>5, <1>6, <1>7 DEF Merged, Record

LEMMA BeginTypes ==
    ASSUME StatusTypeOK, NEW p \in Proc, NEW kind \in CallKind, NEW pc \in PC,
           NEW state \in State \cup {Same}, NEW task \in Task \cup {NoTask},
           NEW touch \in BOOLEAN, Enter(p, kind, pc, state, task, touch)
    PROVE  StatusTypeOK'
<1>1. call' \in [Proc -> Op]
  BY IdleIsOp DEF StatusTypeOK, Enter, Op, Idle
<1>2. QED BY <1>1 DEF StatusTypeOK, Enter

LEMMA CallTypes == ASSUME StatusTypeOK, NEW p \in Proc, Call(p) PROVE StatusTypeOK'
<1> USE BeginTypes DEF CallKind, Locked, PC, State
<1>1. CASE DoStatus(p) BY <1>1 DEF DoStatus
<1>2. CASE DoTouch(p) BY <1>2 DEF DoTouch
<1>3. CASE DoClear(p) BY <1>3 DEF DoClear
<1>4. CASE DoPrune(p) BY <1>4 DEF DoPrune
<1>5. CASE DoInit(p) BY <1>5 DEF DoInit
<1>6. CASE DoExit(p) BY <1>6 DEF DoExit
<1>7. CASE DoHealthUpdate(p)
  <2>1. PICK state \in {Same, "working", "blocked"}, task \in Task \cup {NoTask},
             touch \in BOOLEAN, pc \in {"read", "remove"} :
                 Enter(p, "health", pc, state, task, touch)
    BY <1>7 DEF DoHealthUpdate
  <2>2. QED BY <2>1
<1>8. CASE Delete(p) BY <1>8 DEF Delete
<1>9. QED BY <1>1, <1>2, <1>3, <1>4, <1>5, <1>6, <1>7, <1>8 DEF Call

LEMMA GotoTypes ==
    ASSUME StatusTypeOK, NEW p \in Proc, NEW pc \in PC, Goto(p, pc) \/ Finish(p, pc)
    PROVE  call' \in [Proc -> Op]
<1>1. call[p].kind \in CallKind
  BY DEF StatusTypeOK, Op
<1>2. [Idle EXCEPT !.pc = pc, !.kind = call[p].kind] \in Op
  BY <1>1, IdleIsOp DEF Op
<1>3. CASE Goto(p, pc)
  BY <1>3 DEF StatusTypeOK, Goto, Op
<1>4. CASE Finish(p, pc)
  BY <1>2, <1>4 DEF StatusTypeOK, Finish
<1>5. QED BY <1>3, <1>4

LEMMA EndTypes ==
    ASSUME StatusTypeOK, NEW p \in Proc, End(p) PROVE call' \in [Proc -> Op]
BY GotoTypes, IdleIsOp DEF StatusTypeOK, End, PC

LEMMA StepTypes == ASSUME StatusTypeOK, NEW p \in Proc, Step(p) PROVE StatusTypeOK'
<1> USE GotoTypes DEF PC, Change
<1>1. CASE Lock(p)
  <2>1. \E pc \in PC : Goto(p, pc) BY <1>1 DEF Lock
  <2>1a. call' \in [Proc -> Op] BY <2>1
  <2>2. QED BY <1>1, <2>1a DEF Lock, StatusTypeOK
<1>2. CASE Read(p)
  <2>1. ASSUME call' = [call EXCEPT ![p].prev = file, ![p].pc = "truncate"]
        PROVE  call' \in [Proc -> Op]
    <3>1. [call[p] EXCEPT !.prev = file, !.pc = "truncate"] \in Op
      BY DEF StatusTypeOK, Op
    <3>2. call' = [call EXCEPT ![p] = [call[p] EXCEPT !.prev = file,
                                                !.pc = "truncate"]]
      BY <2>1 DEF StatusTypeOK
    <3>3. QED BY <3>1, <3>2 DEF StatusTypeOK
  <2>2. call' \in [Proc -> Op] BY <1>2, <2>1 DEF Read
  <2>3. QED BY <1>2, <2>2 DEF Read, StatusTypeOK
<1>3. CASE Truncate(p)
  <2>1. call' \in [Proc -> Op] BY <1>3 DEF Truncate
  <2>2. QED BY <1>3, <2>1 DEF Truncate, StatusTypeOK, Content
<1>4. CASE Write(p)
  <2>1. ASSUME call' = [call EXCEPT ![p] = [Idle EXCEPT !.pc = "lock",
                                                    !.kind = "touch"]]
        PROVE  call' \in [Proc -> Op]
    BY <2>1, IdleIsOp DEF StatusTypeOK, Op, Idle, CallKind, Locked
  <2>2. call' \in [Proc -> Op] BY <1>4, <2>1, EndTypes DEF Write
  <2>3. file' \in Content /\ writer' \in {"locked", "unlocked"}
    BY <1>4, MergedType DEF Write, Overwrite, StatusTypeOK, Content
  <2>4. QED BY <1>4, <2>2, <2>3 DEF Write, StatusTypeOK
<1>5. CASE Unlink(p)
  <2>1. call' \in [Proc -> Op] BY <1>5, EndTypes DEF Unlink
  <2>2. QED BY <1>5, <2>1 DEF Unlink, StatusTypeOK, Content
<1>6. CASE Unlock(p)
  BY <1>6, IdleIsOp DEF Unlock, StatusTypeOK
<1>7. QED BY <1>1, <1>2, <1>3, <1>4, <1>5, <1>6 DEF Step

LEMMA BoardTypeStep == ASSUME StatusAssumption, StatusTypeOK, [StatusNext]_statusVars PROVE StatusTypeOK'
<1>1. ASSUME NEW p \in Proc, Die(p) PROVE StatusTypeOK'
  BY <1>1, IdleIsOp DEF Die, StatusTypeOK
<1>2. CASE PassTime BY <1>2 DEF StatusAssumption, PassTime, StatusTypeOK, Epoch
<1>3. CASE UNCHANGED statusVars BY <1>3 DEF statusVars, StatusTypeOK
<1>4. QED BY <1>1, <1>2, <1>3, CallTypes, StepTypes DEF StatusNext

-----------------------------------------------------------------------------
(* The lock, and what is done under it.                                    *)

\* The part of LockInv that is about one process.
InSection(p) == call[p].kind \in Locked /\ call[p].pc \notin {"idle", "lock"}

Shape(p) ==
    /\ call[p].touch => call[p].kind = "health"
    /\ At(p, "lock") \/ At(p, "unlock") => call[p].kind \in Locked
    /\ At(p, "read") => call[p].kind # "init"

\* A step of p keeps LockInv if it keeps it for p and hands the lock over.
LEMMA LockLocal ==
    ASSUME StatusAssumption, LockInv, NEW p \in Proc,
           \A q \in Proc \ {p} : call'[q] = call[q],
           Shape(p)', lock' = p <=> InSection(p)',
           lock' = lock \/ lock = p \/ (lock = NoProc /\ lock' = p),
           lock' \in {lock, p, NoProc}
    PROVE  LockInv'
<1>1. \A q \in Proc \ {p} : lock' = q <=> lock = q
  BY DEF StatusAssumption
<1>2. QED BY <1>1 DEF LockInv, Shape, InSection, At

LEMMA OneAtATime ==
    ASSUME StatusTypeOK, NEW p \in Proc,
           \/ Call(p) \/ Step(p) \/ Die(p)
    PROVE  \A q \in Proc \ {p} : call'[q] = call[q]
BY DEF StatusTypeOK, Call, Enter, DoStatus, DoTouch, DoClear, DoPrune, DoInit, DoExit,
       DoHealthUpdate, Delete, Step, Lock, Read, Truncate, Write, Unlink, Unlock, Die, Goto,
       Finish, End

LEMMA CallLock ==
    ASSUME StatusAssumption, StatusTypeOK, LockInv, NEW p \in Proc, Call(p) PROVE LockInv'
<1>1. ASSUME NEW kind, NEW pc, NEW state, NEW task, NEW touch,
             Enter(p, kind, pc, state, task, touch),
             touch => kind = "health", pc \in {"lock", "read", "remove"},
             kind \in Locked => pc = "lock", kind \notin Locked => pc # "lock",
             kind # "init" \/ pc = "lock"
      PROVE  LockInv'
  <2>1. call'[p] = [Idle EXCEPT !.pc = pc, !.kind = kind, !.state = state,
                              !.task = task, !.touch = touch]
    BY <1>1 DEF Enter, StatusTypeOK
  <2>2. /\ call'[p].pc = pc /\ call'[p].kind = kind /\ call'[p].touch = touch
        /\ lock' = lock /\ lock # p
    <3>1. call'[p].pc = pc /\ call'[p].kind = kind /\ call'[p].touch = touch
      BY <2>1 DEF Idle
    <3>2. lock' = lock /\ lock # p
      BY <1>1 DEF Enter, LockInv, At
    <3>3. QED BY <3>1, <3>2
  <2>3. Shape(p)' /\ ~InSection(p)'
    BY <1>1, <2>2 DEF Shape, InSection, At
  <2>4. QED BY <2>2, <2>3, LockLocal, OneAtATime
<1>2. CASE DoStatus(p) BY <1>1, <1>2 DEF DoStatus, Locked
<1>3. CASE DoTouch(p) BY <1>1, <1>3 DEF DoTouch, Locked
<1>4. CASE DoClear(p) BY <1>1, <1>4 DEF DoClear, Locked
<1>5. CASE DoPrune(p) BY <1>1, <1>5 DEF DoPrune, Locked
<1>6. CASE DoInit(p) BY <1>1, <1>6 DEF DoInit, Locked
<1>7. CASE DoExit(p) BY <1>1, <1>7 DEF DoExit, Locked
<1>8. CASE DoHealthUpdate(p)
  <2>1. PICK state \in {Same, "working", "blocked"}, task \in Task \cup {NoTask},
             touch \in BOOLEAN, pc \in {"read", "remove"} :
                 Enter(p, "health", pc, state, task, touch)
    BY <1>8 DEF DoHealthUpdate
  <2>2. QED BY <1>1, <2>1 DEF Locked
<1>9. CASE Delete(p) BY <1>1, <1>9 DEF Delete, Locked
<1>10. QED
  BY <1>2, <1>3, <1>4, <1>5, <1>6, <1>7, <1>8, <1>9 DEF Call

\* What a step of p leaves in call[p].
LEMMA GotoAt ==
    ASSUME StatusTypeOK, NEW p \in Proc, NEW pc, Goto(p, pc)
    PROVE  /\ call'[p].pc = pc /\ call'[p].kind = call[p].kind
           /\ call'[p].touch = call[p].touch /\ call'[p].prev = call[p].prev
BY DEF StatusTypeOK, Goto, Op

LEMMA FinishAt ==
    ASSUME StatusTypeOK, NEW p \in Proc, NEW pc, Finish(p, pc)
    PROVE  call'[p].pc = pc /\ call'[p].kind = call[p].kind /\ ~call'[p].touch
<1>1. call'[p] = [Idle EXCEPT !.pc = pc, !.kind = call[p].kind]
  BY DEF StatusTypeOK, Finish
<1>2. QED BY <1>1 DEF Idle

LEMMA EndAt ==
    ASSUME StatusTypeOK, NEW p \in Proc, End(p)
    PROVE  \/ /\ call[p].kind \in Locked /\ call'[p].kind = call[p].kind
              /\ call'[p].pc = "unlock" /\ ~call'[p].touch
           \/ call[p].kind \notin Locked /\ call'[p] = Idle
<1>1. CASE call[p].kind \in Locked
  BY <1>1, FinishAt DEF End
<1>2. CASE call[p].kind \notin Locked
  BY <1>2 DEF End, StatusTypeOK
<1>3. QED BY <1>1, <1>2

LEMMA StepLock ==
    ASSUME StatusAssumption, StatusTypeOK, LockInv, NEW p \in Proc, Step(p) PROVE LockInv'
<1> USE DEF At
<1>0. /\ Shape(p) /\ (lock = p <=> InSection(p))
      /\ ~Idle.touch /\ Idle.pc = "idle" /\ Idle.kind = "health"
  BY DEF LockInv, Shape, InSection, Idle
<1>1. SUFFICES /\ Shape(p)' /\ (lock' = p <=> InSection(p)')
               /\ lock' \in {lock, p, NoProc}
               /\ lock' = lock \/ lock = p \/ (lock = NoProc /\ lock' = p)
  BY LockLocal, OneAtATime
<1>2. CASE Lock(p)
  <2>1. PICK pc \in {"truncate", "remove", "read"} :
            Goto(p, pc) /\ (pc = "read" => call[p].kind # "init")
    BY <1>2 DEF Lock
  <2>2. call'[p].pc = pc /\ call'[p].kind = call[p].kind
        /\ call'[p].touch = call[p].touch
    BY <2>1, GotoAt
  <2>3. QED BY <1>0, <1>2, <2>1, <2>2 DEF Lock, Shape, InSection
<1>3. CASE Read(p)
  <2>1. \/ Finish(p, "unlock") /\ call[p].kind \in {"touch", "prune"}
        \/ Finish(p, "remove") /\ call[p].kind = "prune"
        \/ call' = [call EXCEPT ![p].prev = file, ![p].pc = "truncate"]
    BY <1>3 DEF Read
  <2>2. \/ call'[p].pc \in {"remove", "truncate"}
        \/ call'[p].pc = "unlock" /\ call[p].kind \in {"touch", "prune"}
    BY <2>1, FinishAt DEF StatusTypeOK, Op
  <2>3. call'[p].kind = call[p].kind /\ (call'[p].touch => call[p].touch)
    BY <2>1, FinishAt DEF StatusTypeOK, Op
  <2>4. QED BY <1>0, <1>3, <2>2, <2>3 DEF Read, Shape, InSection, Locked
<1>4. CASE Truncate(p)
  BY <1>0, <1>4, GotoAt DEF Truncate, Shape, InSection
<1>5. CASE Write(p)
  <2>1. CASE call[p].touch
    <3>1. call'[p] = [Idle EXCEPT !.pc = "lock", !.kind = "touch"]
      BY <1>5, <2>1 DEF Write, StatusTypeOK
    <3>2. call'[p].pc = "lock" /\ call'[p].kind = "touch" /\ ~call'[p].touch
      BY <3>1 DEF Idle
    <3>3. QED
      BY <1>0, <1>5, <2>1, <3>2 DEF Write, Shape, InSection, Locked
  <2>2. CASE ~call[p].touch /\ call[p].kind = "exit"
    <3>1. call'[p].pc = "remove" /\ call'[p].kind = "exit" /\ ~call'[p].touch
      BY <1>5, <2>2, FinishAt DEF Write
    <3>2. QED
      BY <1>0, <1>5, <2>2, <3>1 DEF Write, Shape, InSection, Locked
  <2>3. CASE ~call[p].touch /\ call[p].kind # "exit"
    BY <1>0, <1>5, <2>3, EndAt DEF Write, Shape, InSection, Locked
  <2>4. QED BY <2>1, <2>2, <2>3 DEF StatusTypeOK, Op
<1>6. CASE Unlink(p)
  <2>1. CASE call[p].kind = "health"
    BY <1>0, <1>6, <2>1, GotoAt DEF Unlink, Shape, InSection, Locked
  <2>2. CASE call[p].kind # "health"
    BY <1>0, <1>6, <2>2, EndAt DEF Unlink, Shape, InSection, Locked
  <2>3. QED BY <2>1, <2>2
<1>7. CASE Unlock(p)
  <2>1. call'[p] = Idle BY <1>7 DEF Unlock, StatusTypeOK
  <2>2. lock = p BY <1>0, <1>7 DEF Unlock, Shape, InSection
  <2>3. QED
    BY <1>0, <1>7, <2>1, <2>2
       DEF StatusAssumption, Unlock, Shape, InSection, Locked
<1>8. QED BY <1>2, <1>3, <1>4, <1>5, <1>6, <1>7 DEF Step

LEMMA LockStep ==
    ASSUME StatusAssumption, StatusTypeOK, LockInv, [StatusNext]_statusVars
    PROVE  LockInv'
<1>1. ASSUME NEW p \in Proc, Die(p) PROVE LockInv'
  <2>1. call'[p] = Idle BY <1>1 DEF Die, StatusTypeOK
  <2>2. Shape(p)' /\ ~InSection(p)'
    BY <2>1 DEF Idle, Shape, InSection, Locked, At
  <2>3. QED
    BY <1>1, <2>2, LockLocal, OneAtATime DEF StatusAssumption, Die
<1>2. CASE PassTime BY <1>2 DEF PassTime, LockInv, At
<1>3. CASE UNCHANGED statusVars BY <1>3 DEF statusVars, LockInv, At
<1>4. QED BY <1>1, <1>2, <1>3, CallLock, StepLock DEF StatusNext

-----------------------------------------------------------------------------
(* What the operations under the lock work from.                           *)

\* The two invariants, for one process.
ReadLast(p) ==
    At(p, "truncate") /\ call[p].kind \in Locked \ {"init"} =>
        call[p].prev = file \/ writer = "unlocked"

RightPrune(p) ==
    At(p, "remove") /\ call[p].kind = "prune" =>
        (file \in Record => Stale(file)) \/ writer = "unlocked"

\* A step that changes the file of a lock-holder it is not taken by is taken
\* without the lock.
LEMMA OthersKept ==
    ASSUME StatusTypeOK, LockInv, LockedReadsLast, PruneIsRight, NEW p \in Proc,
           NEW q \in Proc \ {p}, call'[q] = call[q], now' = now,
           \/ UNCHANGED <<file, writer>>
           \/ \E c : Change(p, c)
    PROVE  ReadLast(q)' /\ RightPrune(q)'
<1>1. ReadLast(q) /\ RightPrune(q)
  BY DEF LockedReadsLast, PruneIsRight, ReadLast, RightPrune
<1>2. CASE UNCHANGED <<file, writer>>
  BY <1>1, <1>2 DEF ReadLast, RightPrune, At, Stale
<1>3. CASE \E c : Change(p, c)
  <2>1. CASE InSection(q)
    <3>1. lock = q BY <2>1 DEF LockInv, InSection
    <3>2. writer' = "unlocked" BY <1>3, <3>1 DEF Change
    <3>3. QED BY <3>2 DEF ReadLast, RightPrune
  <2>2. CASE ~InSection(q)
    BY <2>2 DEF InSection, ReadLast, RightPrune, At, Locked
  <2>3. QED BY <2>1, <2>2
<1>4. QED BY <1>2, <1>3

LEMMA StepReads ==
    ASSUME BoardInv, NEW p \in Proc, Call(p) \/ Step(p) \/ Die(p)
    PROVE  LockedReadsLast' /\ PruneIsRight'
<1> USE DEF At
<1>0. StatusTypeOK /\ LockInv /\ LockedReadsLast /\ PruneIsRight
  BY DEF BoardInv
<1>1. \A q \in Proc \ {p} : ReadLast(q)' /\ RightPrune(q)'
  <2>1. now' = now
    BY DEF Call, Enter, DoStatus, DoTouch, DoClear, DoPrune, DoInit, DoExit, DoHealthUpdate,
           Delete, Step, Lock, Read, Truncate, Write, Unlink, Unlock, Die
  <2>2. UNCHANGED <<file, writer>> \/ \E c : Change(p, c)
    <3>1. CASE Write(p) BY <3>1 DEF Write, Overwrite
    <3>2. CASE Truncate(p) \/ Unlink(p) BY <3>2 DEF Truncate, Unlink
    <3>3. CASE Lock(p) \/ Read(p) \/ Unlock(p) \/ Die(p)
      BY <3>3 DEF Lock, Read, Unlock, Die
    <3>4. CASE Call(p)
      BY <3>4 DEF Call, Enter, DoStatus, DoTouch, DoClear, DoPrune, DoInit, DoExit,
                  DoHealthUpdate, Delete
    <3>5. QED BY <3>1, <3>2, <3>3, <3>4 DEF Step
  <2>3. QED BY <1>0, <2>1, <2>2, OneAtATime, OthersKept
<1>2. ReadLast(p)' /\ RightPrune(p)'
  <2>1. CASE Call(p)
    <3>1. ASSUME NEW kind, NEW pc, NEW state, NEW task, NEW touch,
                 Enter(p, kind, pc, state, task, touch),
                 pc # "truncate", kind # "prune" \/ pc # "remove"
          PROVE  ReadLast(p)' /\ RightPrune(p)'
      <4>1. call'[p] = [Idle EXCEPT !.pc = pc, !.kind = kind, !.state = state,
                                  !.task = task, !.touch = touch]
        BY <1>0, <3>1 DEF Enter, StatusTypeOK
      <4>2. call'[p].pc = pc /\ call'[p].kind = kind BY <4>1 DEF Idle
      <4>3. QED BY <3>1, <4>2 DEF ReadLast, RightPrune
    <3>2. CASE DoHealthUpdate(p)
      <4>1. PICK state \in {Same, "working", "blocked"},
                 task \in Task \cup {NoTask},
                 touch \in BOOLEAN, pc \in {"read", "remove"} :
                     Enter(p, "health", pc, state, task, touch)
        BY <3>2 DEF DoHealthUpdate
      <4>2. QED BY <3>1, <4>1
    <3>3. CASE DoStatus(p) BY <3>1, <3>3 DEF DoStatus
    <3>4. CASE ~DoHealthUpdate(p) /\ ~DoStatus(p)
      BY <2>1, <3>1, <3>4 DEF Call, DoTouch, DoClear, DoPrune, DoInit, DoExit, Delete
    <3>5. QED BY <3>2, <3>3, <3>4
  <2>2. CASE Lock(p)
    <3>1. PICK pc \in {"truncate", "remove", "read"} :
              /\ Goto(p, pc)
              /\ pc = "truncate" => call[p].kind = "init"
              /\ pc = "remove" => call[p].kind = "clear"
      BY <2>2 DEF Lock
    <3>2. call'[p].pc = pc /\ call'[p].kind = call[p].kind
      BY <1>0, <3>1, GotoAt
    <3>3. QED BY <3>1, <3>2 DEF ReadLast, RightPrune
  <2>3. CASE Read(p)
    <3>1. CASE call[p].kind = "prune"
      <4>1. \/ Finish(p, "unlock")
            \/ Finish(p, "remove") /\ Stale(file)
        BY <2>3, <3>1 DEF Read
      <4>2. \/ call'[p].pc = "unlock"
            \/ call'[p].pc = "remove" /\ Stale(file)
        BY <1>0, <4>1, FinishAt
      <4>3. QED BY <2>3, <4>2 DEF Read, ReadLast, RightPrune, Stale
    <3>2. CASE call[p].kind # "prune"
      <4>1. \/ Finish(p, "unlock")
            \/ call' = [call EXCEPT ![p].prev = file, ![p].pc = "truncate"]
        BY <2>3, <3>2 DEF Read
      <4>2. \/ call'[p].pc = "unlock"
            \/ call'[p].pc = "truncate" /\ call'[p].prev = file
        BY <1>0, <4>1, FinishAt DEF StatusTypeOK, Op
      <4>3. QED BY <2>3, <4>2 DEF Read, ReadLast, RightPrune
    <3>3. QED BY <3>1, <3>2
  <2>4. CASE Truncate(p)
    BY <1>0, <2>4, GotoAt DEF Truncate, ReadLast, RightPrune
  <2>5. CASE Write(p)
    <3>1. CASE call[p].touch
      <4>1. call'[p] = [Idle EXCEPT !.pc = "lock", !.kind = "touch"]
        BY <1>0, <2>5, <3>1 DEF Write, StatusTypeOK
      <4>2. call'[p].pc = "lock" BY <4>1 DEF Idle
      <4>3. QED BY <4>2 DEF ReadLast, RightPrune
    <3>2. CASE ~call[p].touch /\ call[p].kind = "exit"
      <4>1. call'[p].pc = "remove" /\ call'[p].kind = "exit"
        BY <1>0, <2>5, <3>2, FinishAt DEF Write
      <4>2. QED BY <4>1 DEF ReadLast, RightPrune
    <3>3. CASE ~call[p].touch /\ call[p].kind # "exit"
      <4>1. call'[p].pc = "unlock" \/ call'[p] = Idle
        BY <1>0, <2>5, <3>3, EndAt DEF Write
      <4>2. QED BY <4>1 DEF ReadLast, RightPrune, Idle
    <3>4. call[p].touch \in BOOLEAN BY <1>0 DEF StatusTypeOK, Op
    <3>5. QED BY <3>1, <3>2, <3>3, <3>4
  <2>6. CASE Unlink(p)
    <3>1. \/ Goto(p, "read") \/ End(p)
      BY <2>6 DEF Unlink
    <3>2. call'[p].pc \in {"read", "unlock"} \/ call'[p] = Idle
      BY <1>0, <3>1, GotoAt, EndAt
    <3>3. QED BY <3>2 DEF ReadLast, RightPrune, Idle
  <2>7. CASE Unlock(p) \/ Die(p)
    <3>1. call'[p] = Idle BY <1>0, <2>7 DEF Unlock, Die, StatusTypeOK
    <3>2. QED BY <3>1 DEF ReadLast, RightPrune, Idle
  <2>8. QED
    BY <2>1, <2>2, <2>3, <2>4, <2>5, <2>6, <2>7 DEF Step
<1>3. QED
  BY <1>1, <1>2 DEF LockedReadsLast, PruneIsRight, ReadLast, RightPrune

\* Time makes a heartbeat only staler.
LEMMA TickReads ==
    ASSUME StatusAssumption, BoardInv, PassTime PROVE LockedReadsLast' /\ PruneIsRight'
<1>1. \A c \in Record : Stale(c) => Stale(c)'
  BY DEF StatusAssumption, PassTime, Stale, Record, Epoch, BoardInv, StatusTypeOK
<1>2. QED
  BY <1>1 DEF PassTime, BoardInv, LockedReadsLast, PruneIsRight, At

LEMMA BoardInvariant == ASSUME StatusAssumption PROVE StatusSpec => []BoardInv
<1>1. ASSUME BoardInv, [StatusNext]_statusVars PROVE BoardInv'
  <2>1. StatusTypeOK' /\ LockInv' BY <1>1, BoardTypeStep, LockStep DEF BoardInv
  <2>2. ASSUME UNCHANGED statusVars PROVE LockedReadsLast' /\ PruneIsRight'
    BY <1>1, <2>2
       DEF statusVars, BoardInv, LockedReadsLast, PruneIsRight, At, Stale
  <2>3. LockedReadsLast' /\ PruneIsRight'
    BY <1>1, <2>2, StepReads, TickReads DEF StatusNext, BoardInv
  <2>4. QED BY <2>1, <2>3 DEF BoardInv
<1>2. QED BY <1>1, BoardInitially, PTL DEF StatusSpec

\* Every variable keeps its type: whatever is read torn or missing, what is
\* written is a whole record.
THEOREM BoardTypesHold == ASSUME StatusAssumption PROVE StatusSpec => []StatusTypeOK
<1>1. BoardInv => StatusTypeOK BY DEF BoardInv
<1>2. QED BY <1>1, BoardInvariant, PTL

\* DoStatus, DoTouch, DoExit: an operation under the lock writes back what the
\* file held when it truncates it, unless DoHealthUpdate has interfered.
THEOREM LockedRewritesFresh == ASSUME StatusAssumption PROVE StatusSpec => []LockedReadsLast
<1>1. BoardInv => LockedReadsLast BY DEF BoardInv
<1>2. QED BY <1>1, BoardInvariant, PTL

\* DoPrune: only beside DoHealthUpdate does a prune remove a heartbeat that is
\* not stale.
THEOREM PruneRemovesStale == ASSUME StatusAssumption PROVE StatusSpec => []PruneIsRight
<1>1. BoardInv => PruneIsRight BY DEF BoardInv
<1>2. QED BY <1>1, BoardInvariant, PTL
=============================================================================

----------------------------- MODULE FilesProofs -----------------------------
(***************************************************************************)
(* Proofs about the parts of Files, each by its own specification, for any *)
(* number of processes, files, contents and commands.                      *)
(***************************************************************************)
EXTENDS Files, FiniteSetTheorems, FunctionTheorems, SequenceTheorems,
        WellFoundedInduction, TLAPS

-----------------------------------------------------------------------------
(* The timers.                                                             *)

LEMMA IdleIsOp == Idle \in Op /\ 0 \in Time
<1>1. AnId \in Id BY TimersAssumption DEF AnId
<1>2. 0 \in Time BY TimersAssumption DEF Time
<1>3. QED BY <1>1, <1>2 DEF Idle, Op, PC, Kind, Change, Dir, Content

\* The two ends of Zero are not records.
LEMMA NoRecords == Absent \notin Record /\ Torn \notin Record /\ Absent # Torn
<1>1. Absent.next = -1 /\ Torn.next = -2
  BY DEF Absent, Torn, Zero
<1>2. \A r \in Record : r.next >= 0
  BY TimersAssumption DEF Record
<1>3. QED BY <1>1, <1>2

LEMMA OpFields ==
    ASSUME TypeOK, NEW a \in Actor
    PROVE  /\ op[a] \in Op
           /\ op[a].pc \in PC /\ op[a].kind \in Kind /\ op[a].dir \in Dir
           /\ op[a].id \in Id /\ op[a].rec \in Content
           /\ op[a].todo \in SUBSET Entry /\ op[a].now \in Time
           /\ op[a].gone \in BOOLEAN /\ Its(a) \in File
BY DEF TypeOK, Op, Its, File

\* A step that gives one process something new to do.
LEMMA OpType ==
    ASSUME TypeOK, NEW a \in Actor, NEW o \in Op, op' = [op EXCEPT ![a] = o]
    PROVE  op' \in [Actor -> Op]
BY DEF TypeOK

LEMMA ProceedType ==
    ASSUME TypeOK, NEW a \in Actor, NEW todo \in SUBSET Entry
    PROVE  Proceed(a, todo) \in Op
BY IdleIsOp, OpFields DEF Proceed, Op, PC, Dir

LEMMA DoneType ==
    ASSUME TypeOK, NEW a \in Actor PROVE Done(a) \in Op
BY IdleIsOp, OpFields, ProceedType DEF Done

LEMMA UpdatedType ==
    ASSUME TypeOK, NEW a \in Actor, op[a].rec \in Record
    PROVE  Updated(a) \in Record
<1>1. clock \in 0 .. MaxTime + Interval /\ clock + Interval \in 0 .. MaxTime + Interval
  BY TimersAssumption DEF TypeOK, Time
<1>2. QED BY <1>1, OpFields DEF Updated, Record

LEMMA GhostTypes ==
    ASSUME TypeOK, NEW f \in File, NEW bad \in BOOLEAN, Disturb(f, bad)
    PROVE  disturbed' \in [File -> BOOLEAN]
BY DEF TypeOK, Disturb

-----------------------------------------------------------------------------
(* What the steps of the processes leave in op.                            *)

ChangeKinds == Change \cup {"set", "pass"}      \* those that write

\* What a process has at hand in each of its states.
Fit(a, o) ==
    /\ o.pc = "off" \/ (a = Worker <=> o.kind = "pass")
    /\ a = Worker => o.kind = "pass"
    /\ o.pc = "get" => o.kind \in Change \cup {"set", "cancel"}
    /\ o.kind = "pass" => \A e \in o.todo : e.rec.enabled
    /\ o.pc = "get" /\ o.kind = "set" => o.rec \in Record /\ o.rec.enabled
    /\ o.pc = "delete" => o.rec \in Record
    /\ o.pc = "truncate" =>
           /\ o.rec \in Record /\ o.kind \in ChangeKinds
           /\ o.kind \in {"run", "set", "pass"} => o.rec.enabled
    /\ o.pc = "write" =>
           /\ o.rec \in Record /\ o.kind \in ChangeKinds
           /\ o.rec.enabled <=> o.kind # "pause"

ShapeInv == \A a \in Actor : Fit(a, op[a])

\* Only "gone" changes in what the others do.
OthersKeep(a) ==
    \A b \in Actor \ {a} :
        \/ op'[b] = op[b]
        \/ \E g \in BOOLEAN : op'[b] = [op[b] EXCEPT !.gone = g]

LEMMA ShapeKept ==
    ASSUME TypeOK, ShapeInv, NEW a \in Actor, OthersKeep(a), op' \in [Actor -> Op],
           Fit(a, op'[a])
    PROVE  ShapeInv'
<1> SUFFICES ASSUME NEW b \in Actor, b # a PROVE Fit(b, op'[b])
  BY DEF ShapeInv, Fit
<1>1. CASE op'[b] = op[b] BY <1>1 DEF ShapeInv
<1>2. ASSUME NEW g \in BOOLEAN, op'[b] = [op[b] EXCEPT !.gone = g]
      PROVE  Fit(b, op'[b])
  <2>1. /\ op'[b].pc = op[b].pc /\ op'[b].kind = op[b].kind
        /\ op'[b].rec = op[b].rec /\ op'[b].todo = op[b].todo
    BY <1>2 DEF TypeOK, Op
  <2>2. Fit(b, op[b]) BY DEF ShapeInv
  <2>3. QED BY <2>1, <2>2 DEF Fit
<1>3. QED BY <1>1, <1>2 DEF OthersKeep

\* A step that gives a the operation o, and leaves the others alone.
Gives(a, o) == o \in Op /\ Fit(a, o) /\ op' = [op EXCEPT ![a] = o]

LEMMA GivesShape ==
    ASSUME TypeOK, ShapeInv, NEW a \in Actor, NEW o, Gives(a, o)
    PROVE  op' \in [Actor -> Op] /\ op'[a] = o /\ ShapeInv' /\ OthersKeep(a)
<1>1. op' \in [Actor -> Op] /\ op'[a] = o BY OpType DEF Gives, TypeOK
<1>2. OthersKeep(a) BY DEF Gives, TypeOK, OthersKeep
<1>3. QED BY <1>1, <1>2, ShapeKept DEF Gives

LEMMA IdleFits ==
    ASSUME NEW a \in Actor
    PROVE  /\ Fit(a, Idle)
           /\ Idle.pc = "off" /\ Idle.kind = "pass" /\ Idle.todo = {}
           /\ Idle.rec = Absent /\ Idle.dir = "var" /\ Idle.id = AnId
           /\ Idle.now = 0 /\ Idle.gone = FALSE
BY DEF Fit, Idle

\* Going through a list, a process keeps its kind.
LEMMA ProceedFits ==
    ASSUME TypeOK, ShapeInv, NEW a \in Actor, ~At(a, "off"),
           NEW todo \in SUBSET Entry,
           op[a].kind = "pass" => \A e \in todo : e.rec.enabled
    PROVE  /\ Proceed(a, todo) \in Op /\ Fit(a, Proceed(a, todo))
           /\ Proceed(a, todo).pc \in {"each", "list", "wait", "off"}
<1> DEFINE o == Proceed(a, todo)
<1>1. o \in Op BY ProceedType
<1>2. /\ o.pc \in {"each", "list", "wait", "off"}
      /\ o.kind = op[a].kind /\ o.todo = todo
  BY DEF Proceed, Idle
<1>3. Fit(a, op[a]) BY DEF ShapeInv
<1>4. QED BY <1>1, <1>2, <1>3 DEF Fit, At

LEMMA DoneFits ==
    ASSUME TypeOK, ShapeInv, NEW a \in Actor, ~At(a, "off")
    PROVE  /\ Done(a) \in Op /\ Fit(a, Done(a))
           /\ Done(a).pc \in {"each", "list", "wait", "off"}
<1>1. op[a].kind = "pass" => \A e \in op[a].todo : e.rec.enabled
  BY DEF ShapeInv, Fit
<1>2. QED BY <1>1, ProceedFits, IdleFits, IdleIsOp, OpFields DEF Done

-----------------------------------------------------------------------------
(* Steps that touch no file.                                               *)

Quiet(a) ==
    /\ \E o : Gives(a, o) /\ o.pc # "write"
    /\ ~At(a, "write") /\ ~At(a, "delete")
    /\ UNCHANGED <<file, asked, disturbed, fires>>

LEMMA CommandQuiet ==
    ASSUME TypeOK, ShapeInv, NEW p \in Client, Command(p)
    PROVE  Quiet(p) /\ clock' \in Time /\ commands' \in 0 .. MaxCommands
<1>0. p \in Actor /\ p # Worker BY TimersAssumption DEF Actor
<1>1. ASSUME NEW o \in Op, Begin(p, o), Fit(p, o), o.pc # "write"
      PROVE  Quiet(p) /\ clock' \in Time /\ commands' \in 0 .. MaxCommands
  <2>1. commands' \in 0 .. MaxCommands
    BY <1>1, TimersAssumption DEF Begin, TypeOK
  <2>2. Gives(p, o) BY <1>1 DEF Begin, Gives
  <2>3. clock' \in Time BY <1>1 DEF Begin, TypeOK
  <2>4. QED BY <1>1, <2>1, <2>2, <2>3 DEF Begin, Quiet, At
<1>2. CASE Set(p)
  <2>1. PICK dir \in Store, id \in Id, plan \in Plan, delay \in 0 .. Interval :
            Begin(p, [Idle EXCEPT !.pc = "get", !.kind = "set", !.dir = dir,
                        !.id = id,
                        !.rec = [plan |-> plan, owner |-> p, enabled |-> TRUE,
                                 next |-> clock + delay]])
    BY <1>2 DEF Set
  <2> DEFINE r == [plan |-> plan, owner |-> p, enabled |-> TRUE,
                   next |-> clock + delay]
             o == [Idle EXCEPT !.pc = "get", !.kind = "set", !.dir = dir,
                               !.id = id, !.rec = r]
  <2>2. clock + delay \in 0 .. MaxTime + Interval
    BY TimersAssumption DEF TypeOK, Time
  <2>3. r \in Record /\ r.enabled BY <2>2, TimersAssumption DEF Record
  <2>4. dir \in Dir BY TimersAssumption DEF Dir
  <2>5. o \in Op BY <2>3, <2>4, IdleIsOp DEF Op, PC, Kind, Content
  <2>6. o.pc = "get" /\ o.kind = "set" /\ o.rec = r /\ o.todo = {}
    BY DEF Idle
  <2>7. Fit(p, o) BY <1>0, <2>3, <2>6 DEF Fit
  <2> HIDE DEF o
  <2>8. QED BY <1>1, <2>1, <2>5, <2>6, <2>7 DEF o
<1>3. CASE Find(p)
  <2>1. PICK kind \in Change \cup {"cancel"}, id \in Id :
            Begin(p, [Idle EXCEPT !.pc = "get", !.kind = kind, !.id = id])
    BY <1>3 DEF Find
  <2> DEFINE o == [Idle EXCEPT !.pc = "get", !.kind = kind, !.id = id]
  <2>2. o \in Op BY IdleIsOp DEF Op, PC, Kind
  <2>3. o.pc = "get" /\ o.kind = kind /\ o.todo = {} BY DEF Idle
  <2>4. Fit(p, o) BY <1>0, <2>3 DEF Fit, Change
  <2> HIDE DEF o
  <2>5. QED BY <1>1, <2>1, <2>2, <2>3, <2>4 DEF o
<1>4. CASE Clear(p)
  <2> DEFINE o == [Idle EXCEPT !.pc = "list", !.kind = "clear"]
  <2>1. o \in Op BY IdleIsOp DEF Op, PC, Kind
  <2>2. o.pc = "list" /\ o.kind = "clear" /\ o.todo = {} BY DEF Idle
  <2>3. Fit(p, o) BY <1>0, <2>2 DEF Fit
  <2> HIDE DEF o
  <2>4. QED BY <1>1, <1>4, <2>1, <2>2, <2>3 DEF Clear, o
<1>5. QED BY <1>2, <1>3, <1>4 DEF Command

LEMMA WorkerQuiet ==
    ASSUME TypeOK, ShapeInv, Poll(Worker) \/ Stop(Worker)
    PROVE  Quiet(Worker) /\ UNCHANGED <<clock, commands>>
<1>0. Worker \in Actor BY DEF Actor
<1>1. CASE Stop(Worker)
  BY <1>0, <1>1, IdleIsOp, IdleFits DEF Stop, Quiet, Gives, At
<1>2. CASE Poll(Worker)
  <2> DEFINE o == [Idle EXCEPT !.pc = "list", !.now = clock]
  <2>1. o \in Op BY IdleIsOp DEF Op, PC, TypeOK
  <2>2. o.pc = "list" /\ o.kind = "pass" /\ o.todo = {} BY DEF Idle
  <2>3. Fit(Worker, o) BY <2>2 DEF Fit
  <2> HIDE DEF o
  <2>4. QED BY <1>2, <2>1, <2>2, <2>3 DEF Poll, Quiet, Gives, At, o
<1>3. QED BY <1>1, <1>2

LEMMA ListQuiet ==
    ASSUME TypeOK, ShapeInv, NEW a \in Actor, List(a)
    PROVE  Quiet(a) /\ UNCHANGED <<clock, commands>>
<1> DEFINE here == [i \in Id |-> file[<<op[a].dir, i>>]]
           found == {i \in Id : Readable(here[i]) /\ Selected(a, here[i])}
           todo == {[id |-> i, rec |-> here[i]] : i \in found}
           o == Proceed(a, todo)
<1>0. \A e \in todo : \E i \in found : e = [id |-> i, rec |-> here[i]]
  OBVIOUS
<1>1. todo \in SUBSET Entry
  <2>1. SUFFICES ASSUME NEW e \in todo PROVE e \in Entry
    OBVIOUS
  <2>2. PICK i \in found : e = [id |-> i, rec |-> here[i]] BY <1>0
  <2>3. here[i] \in Record BY DEF Readable
  <2>4. QED BY <2>2, <2>3 DEF Entry
<1>2. op[a].kind = "pass" => \A e \in todo : e.rec.enabled
  <2>1. SUFFICES ASSUME op[a].kind = "pass", NEW e \in todo
                 PROVE  e.rec.enabled
    OBVIOUS
  <2>2. PICK i \in found : e = [id |-> i, rec |-> here[i]] BY <1>0
  <2>3. here[i].enabled BY <2>1 DEF Selected, IsDue
  <2>4. QED BY <2>2, <2>3
<1>3. ~At(a, "off") BY DEF List, At
<1> HIDE DEF todo
<1>4. o \in Op /\ Fit(a, o) /\ o.pc # "write"
  BY <1>1, <1>2, <1>3, ProceedFits
<1>5. op' = [op EXCEPT ![a] = IF o.pc = "off" THEN Idle ELSE o]
  BY DEF List, todo
<1>6. QED BY <1>4, <1>5, IdleIsOp, IdleFits DEF List, Quiet, Gives, At

LEMMA SkipQuiet ==
    ASSUME TypeOK, ShapeInv, NEW a \in Actor, At(a, "each"),
           NEW e \in op[a].todo, Skip(a, e)
    PROVE  Quiet(a) /\ UNCHANGED <<clock, commands>>
<1>1. op[a].todo \ {e} \in SUBSET Entry BY OpFields
<1>2. op[a].kind = "pass" => \A d \in op[a].todo \ {e} : d.rec.enabled
  BY DEF ShapeInv, Fit
<1>3. QED BY <1>1, <1>2, ProceedFits DEF Skip, Quiet, Gives, At

LEMMA GetQuiet ==
    ASSUME TypeOK, ShapeInv, NEW a \in Actor, Create(a) \/ Miss(a) \/ Hit(a)
    PROVE  Quiet(a) /\ UNCHANGED <<clock, commands>>
<1> USE DEF At
<1>0. /\ Fit(a, op[a]) /\ op[a] \in Op /\ At(a, "get")
      /\ UNCHANGED <<file, asked, disturbed, fires, clock, commands>>
  BY OpFields DEF ShapeInv, Create, Miss, Hit
<1>1. ASSUME op' = [op EXCEPT ![a] = Idle] PROVE Quiet(a)
  BY <1>0, <1>1, IdleIsOp, IdleFits DEF Quiet, Gives
<1>2. ASSUME NEW o \in Op, o.pc # "write", Fit(a, o), op' = [op EXCEPT ![a] = o]
      PROVE  Quiet(a)
  BY <1>0, <1>2 DEF Quiet, Gives
<1>3. CASE Create(a)
  <2> DEFINE o == [op[a] EXCEPT !.pc = "truncate"]
  <2>1. o \in Op BY <1>0 DEF Op, PC
  <2>2. o.pc = "truncate" /\ o.kind = "set" /\ o.rec = op[a].rec
        /\ o.todo = op[a].todo
    BY <1>0, <1>3 DEF Create, Op
  <2>3. Fit(a, o) BY <1>0, <1>3, <2>2 DEF Create, Fit, ChangeKinds
  <2>4. op' = [op EXCEPT ![a] = Idle] \/ op' = [op EXCEPT ![a] = o]
    BY <1>3 DEF Create, TypeOK
  <2> HIDE DEF o
  <2>5. QED BY <1>0, <1>1, <1>2, <2>1, <2>2, <2>3, <2>4
<1>4. CASE Miss(a)
  <2> DEFINE o == [op[a] EXCEPT !.dir = "conf"]
  <2>1. o \in Op BY <1>0 DEF Op, Dir
  <2>2. o.pc = "get" /\ o.kind = op[a].kind /\ o.rec = op[a].rec
        /\ o.todo = op[a].todo
    BY <1>0 DEF Op
  <2>3. Fit(a, o) BY <1>0, <2>2 DEF Fit
  <2>4. op' = [op EXCEPT ![a] = Idle] \/ op' = [op EXCEPT ![a] = o]
    BY <1>4 DEF Miss, TypeOK
  <2> HIDE DEF o
  <2>5. QED BY <1>0, <1>1, <1>2, <2>1, <2>2, <2>3, <2>4
<1>5. CASE Hit(a)
  <2> DEFINE r == file[Its(a)]
             pc == IF op[a].kind = "cancel" THEN "delete" ELSE "truncate"
             o == [op[a] EXCEPT !.rec = r, !.pc = pc]
  <2>1. r \in Record BY <1>5 DEF Hit, Readable
  <2>2. o \in Op BY <1>0, <2>1 DEF Op, PC, Content
  <2>3. o.pc = pc /\ o.kind = op[a].kind /\ o.rec = r /\ o.todo = op[a].todo
    BY <1>0 DEF Op
  <2>4. \/ op' = [op EXCEPT ![a] = Idle]
        \/ /\ op' = [op EXCEPT ![a] = o]
           /\ op[a].kind = "run" => r.enabled
    <3>1. r.enabled \in BOOLEAN BY <2>1 DEF Record
    <3>2. op' = [op EXCEPT ![a] = IF op[a].kind = "run" /\ ~r.enabled
                                  THEN Idle ELSE o]
      BY <1>5 DEF Hit, TypeOK
    <3>3. QED BY <3>1, <3>2
  <2>5. ASSUME op[a].kind = "run" => r.enabled PROVE Fit(a, o)
    BY <1>0, <1>5, <2>1, <2>3, <2>5, TimersAssumption
       DEF Hit, Fit, ChangeKinds, Change
  <2> HIDE DEF o
  <2>6. o.pc # "write" BY <2>3
  <2>7. QED BY <1>0, <1>1, <1>2, <2>2, <2>4, <2>5, <2>6
<1>6. QED BY <1>0, <1>3, <1>4, <1>5

-----------------------------------------------------------------------------
(* Steps that fire a timer or change a file.                               *)

\* b has f open, and it is still the file of that name.
Writes(b, f) == At(b, "write") /\ Its(b) = f /\ ~op[b].gone

\* What is the same for a process before and after a step of another one.
LEMMA OthersSame ==
    ASSUME TypeOK, NEW a \in Actor, OthersKeep(a), NEW b \in Actor, b # a
    PROVE  /\ op'[b].pc = op[b].pc /\ op'[b].kind = op[b].kind
           /\ op'[b].rec = op[b].rec /\ Its(b)' = Its(b)
           /\ op'[b].todo = op[b].todo
<1>1. CASE op'[b] = op[b] BY <1>1 DEF Its
<1>2. ASSUME NEW g \in BOOLEAN, op'[b] = [op[b] EXCEPT !.gone = g]
      PROVE  /\ op'[b].pc = op[b].pc /\ op'[b].kind = op[b].kind
             /\ op'[b].rec = op[b].rec /\ Its(b)' = Its(b)
             /\ op'[b].todo = op[b].todo
  BY <1>2, OpFields DEF Op, Its
<1>3. QED BY <1>1, <1>2 DEF OthersKeep

LEMMA UnlinkFacts ==
    ASSUME TypeOK, ShapeInv, NEW a \in Actor, NEW f \in File, NEW o \in Op,
           Fit(a, o), o.pc # "write", Unlink(a, f, o)
    PROVE  /\ file' \in [File -> Content] /\ file' = [file EXCEPT ![f] = Absent]
           /\ op' \in [Actor -> Op] /\ op'[a] = o /\ OthersKeep(a) /\ ShapeInv'
           /\ \A b \in Actor : ~Writes(b, f)'
           /\ \A b \in Actor, g \in File : Writes(b, g)' => b # a /\ Writes(b, g)
<1> DEFINE unlinked(b) == At(b, "write") /\ Its(b) = f
           q(b) == [op[b] EXCEPT !.gone = op[b].gone \/ unlinked(b)]
<1>1. file' = [file EXCEPT ![f] = Absent] /\ file' \in [File -> Content]
  BY DEF Unlink, TypeOK, Content
<1>2. op'[a] = o BY DEF Unlink
<1>3. \A b \in Actor \ {a} : op'[b] = q(b) BY DEF Unlink
<1>4. \A b \in Actor : (op[b].gone \/ unlinked(b)) \in BOOLEAN
  BY OpFields DEF At
<1>5. \A b \in Actor : q(b) \in Op
  <2> SUFFICES ASSUME NEW b \in Actor PROVE q(b) \in Op
    OBVIOUS
  <2> DEFINE g == op[b].gone \/ unlinked(b)
  <2>1. g \in BOOLEAN BY <1>4
  <2> HIDE DEF g
  <2>2. [op[b] EXCEPT !.gone = g] \in Op BY <2>1, OpFields DEF Op
  <2>3. QED BY <2>2 DEF g
<1>6. op' \in [Actor -> Op]
  <2>1. op' = [b \in Actor |-> IF b = a THEN o ELSE q(b)] BY DEF Unlink
  <2>2. QED BY <2>1, <1>5
<1>7. OthersKeep(a) BY <1>3, <1>4 DEF OthersKeep
<1>8. ShapeInv' BY <1>2, <1>6, <1>7, ShapeKept
<1>9. \A b \in Actor, g \in File :
          Writes(b, g)' => b # a /\ ~op[b].gone /\ ~unlinked(b)
  <2> SUFFICES ASSUME NEW b \in Actor, NEW g \in File, Writes(b, g)'
               PROVE  b # a /\ ~op[b].gone /\ ~unlinked(b)
    OBVIOUS
  <2>1. b # a BY <1>2 DEF Writes, At
  <2>2. op'[b].gone = (op[b].gone \/ unlinked(b))
    BY <2>1, <1>3, OpFields DEF Op
  <2>3. QED BY <2>1, <2>2 DEF Writes
<1>10. \A b \in Actor, g \in File : Writes(b, g)' => b # a /\ Writes(b, g)
  BY <1>7, <1>9, OthersSame DEF Writes, At
<1>11. \A b \in Actor : ~Writes(b, f)'
  BY <1>9, <1>10 DEF Writes
<1>12. QED BY <1>1, <1>2, <1>6, <1>7, <1>8, <1>10, <1>11

\* Fire, in terms of what the worker goes on with.
LEMMA FireFacts ==
    ASSUME TypeOK, ShapeInv, NEW a \in Actor, At(a, "each"),
           NEW e \in op[a].todo, Fire(a, e)
    PROVE  LET f == <<op[a].dir, e.id>>
           IN  /\ a = Worker /\ f \in File /\ e.rec \in Record
               /\ op' \in [Actor -> Op] /\ OthersKeep(a) /\ ShapeInv'
               /\ op'[a].pc = Advance(e.rec) /\ Its(a)' = f
               /\ \A b \in Actor, g \in File :
                      Writes(b, g)' <=> b # a /\ Writes(b, g)
<1> DEFINE o == [op[a] EXCEPT !.pc = Advance(e.rec), !.id = e.id,
                              !.rec = e.rec, !.todo = op[a].todo \ {e}]
<1>1. e \in Entry /\ e.id \in Id /\ e.rec \in Record /\ Fit(a, op[a])
  BY OpFields DEF Entry, ShapeInv
<1>2. op[a].kind = "pass" /\ a = Worker /\ e.rec.enabled
  BY <1>1 DEF Fire, Fit, At
<1>3. Advance(e.rec) \in {"delete", "truncate"}
  BY DEF Advance
<1>4. o \in Op BY <1>1, <1>3, OpFields DEF Op, PC, Content
<1>5. /\ o.pc = Advance(e.rec) /\ o.kind = "pass" /\ o.rec = e.rec
      /\ o.id = e.id /\ o.dir = op[a].dir /\ o.todo = op[a].todo \ {e}
  BY <1>2, OpFields DEF Op
<1>6. Fit(a, o) BY <1>1, <1>2, <1>3, <1>5 DEF Fit, ChangeKinds
<1>7. op' = [op EXCEPT ![a] = o]
  BY DEF Fire, TypeOK
<1> HIDE DEF o
<1>8. op' \in [Actor -> Op] /\ op'[a] = o /\ ShapeInv' /\ OthersKeep(a)
  BY <1>4, <1>6, <1>7, GivesShape DEF Gives
<1>9. op'[a].pc = Advance(e.rec) /\ Its(a)' = <<op[a].dir, e.id>>
  BY <1>5, <1>8 DEF Its
<1>10. <<op[a].dir, e.id>> \in File BY <1>1, OpFields DEF File
<1>11. \A b \in Actor \ {a} : op'[b] = op[b] BY <1>7 DEF TypeOK
<1>12. \A b \in Actor, g \in File : Writes(b, g)' <=> b # a /\ Writes(b, g)
  BY <1>3, <1>9, <1>11 DEF Writes, At, Its
<1>13. QED BY <1>1, <1>2, <1>8, <1>9, <1>10, <1>12

\* Remove and Delete: they unlink a file and go on with o.
LEMMA RemoveFacts ==
    ASSUME TypeOK, ShapeInv, NEW a \in Actor, At(a, "each"),
           NEW e \in op[a].todo, Remove(a, e)
    PROVE  LET f == <<op[a].dir, e.id>>
           IN  /\ f \in File /\ a # Worker
               /\ \E o \in Op : Fit(a, o) /\ o.pc # "write" /\ Unlink(a, f, o)
<1> DEFINE o == Proceed(a, op[a].todo \ {e})
<1>1. e \in Entry /\ e.id \in Id /\ Fit(a, op[a]) /\ op[a].kind = "clear"
  BY OpFields DEF Entry, ShapeInv, Remove
<1>2. a # Worker BY <1>1 DEF Fit
<1>3. o \in Op /\ Fit(a, o) /\ o.pc # "write"
  BY <1>1, ProceedFits, OpFields DEF At
<1>4. <<op[a].dir, e.id>> \in File BY <1>1, OpFields DEF File
<1> HIDE DEF o
<1>5. Unlink(a, <<op[a].dir, e.id>>, o) BY DEF Remove, o
<1>6. QED BY <1>2, <1>3, <1>4, <1>5

LEMMA DeleteFacts ==
    ASSUME TypeOK, ShapeInv, NEW a \in Actor, Delete(a)
    PROVE  /\ Its(a) \in File /\ op[a].rec \in Record
           /\ \E o \in Op : /\ Fit(a, o) /\ o.pc \notin {"write", "delete"}
                  /\ Unlink(a, Its(a), o)
<1>1. Done(a) \in Op /\ Fit(a, Done(a)) /\ Done(a).pc \notin {"write", "delete"}
  BY DoneFits DEF Delete, At
<1>2. op[a].rec \in Record BY DEF Delete, ShapeInv, Fit, At
<1>3. QED BY <1>1, <1>2, OpFields DEF Delete

LEMMA TruncateFacts ==
    ASSUME TypeOK, ShapeInv, NEW a \in Actor, Truncate(a)
    PROVE  /\ Its(a) \in File /\ op[a].rec \in Record
           /\ op[a].kind \in {"run", "set", "pass"} => op[a].rec.enabled
           /\ op' \in [Actor -> Op] /\ OthersKeep(a) /\ ShapeInv'
           /\ op'[a].pc = "write" /\ op'[a].kind = op[a].kind
           /\ Its(a)' = Its(a)
           /\ \A b \in Actor \ {a} : op'[b] = op[b]
<1>1. /\ Fit(a, op[a]) /\ At(a, "truncate") /\ op[a].rec \in Record
      /\ op[a].kind \in ChangeKinds
      /\ op[a].kind \in {"run", "set", "pass"} => op[a].rec.enabled
  BY DEF ShapeInv, Truncate, Fit, At
<1> DEFINE r == Updated(a)
           o == [op[a] EXCEPT !.pc = "write", !.rec = r]
<1>2. r \in Record BY <1>1, UpdatedType
<1>3. r.enabled <=> op[a].kind # "pause"
  BY <1>1 DEF Updated, Record, ChangeKinds, Change
<1> HIDE DEF r
<1>4. o \in Op BY <1>2, OpFields DEF Op, PC, Content
<1>5. /\ o.pc = "write" /\ o.kind = op[a].kind /\ o.rec = r
      /\ o.id = op[a].id /\ o.dir = op[a].dir /\ o.todo = op[a].todo
  BY OpFields DEF Op
<1>6. Fit(a, o) BY <1>1, <1>2, <1>3, <1>5 DEF Fit, At
<1>7. op' = [op EXCEPT ![a] = o] BY DEF Truncate, TypeOK, r
<1> HIDE DEF o
<1>8. op' \in [Actor -> Op] /\ op'[a] = o /\ ShapeInv' /\ OthersKeep(a)
  BY <1>4, <1>6, <1>7, GivesShape DEF Gives
<1>9. Its(a)' = Its(a) BY <1>5, <1>8 DEF Its
<1>10. QED BY <1>1, <1>5, <1>7, <1>8, <1>9, OpFields DEF TypeOK

LEMMA WriteFacts ==
    ASSUME TypeOK, ShapeInv, NEW a \in Actor, Write(a)
    PROVE  /\ Its(a) \in File /\ op[a].rec \in Record
           /\ op[a].kind \in ChangeKinds
           /\ op[a].rec.enabled <=> op[a].kind # "pause"
           /\ op' \in [Actor -> Op] /\ OthersKeep(a) /\ ShapeInv'
           /\ op'[a].pc # "write" /\ op'[a].pc # "delete"
           /\ \A b \in Actor \ {a} : op'[b] = op[b]
<1>1. /\ op[a].rec \in Record /\ op[a].kind \in ChangeKinds
      /\ op[a].rec.enabled <=> op[a].kind # "pause"
  BY DEF ShapeInv, Write, Fit, At
<1>2. /\ Done(a) \in Op /\ Fit(a, Done(a))
      /\ Done(a).pc # "write" /\ Done(a).pc # "delete"
  BY DoneFits DEF Write, At
<1>3. op' = [op EXCEPT ![a] = Done(a)] BY DEF Write
<1>4. op' \in [Actor -> Op] /\ op'[a] = Done(a) /\ ShapeInv' /\ OthersKeep(a)
  BY <1>2, <1>3, GivesShape DEF Gives
<1>5. \A b \in Actor \ {a} : op'[b] = op[b] BY <1>3 DEF TypeOK
<1>6. QED BY <1>1, <1>2, <1>4, <1>5, OpFields

\* What becomes of the file when a writes.
LEMMA WrittenFile ==
    ASSUME TypeOK, ShapeInv, NEW a \in Actor, Write(a)
    PROVE  /\ file' \in [File -> Content]
           /\ \A f \in File \ {Its(a)} : file'[f] = file[f]
           /\ file[Its(a)] = Torn /\ ~op[a].gone => file'[Its(a)] = op[a].rec
<1>1. Its(a) \in File /\ op[a].rec \in Content /\ Torn \in Content
  BY WriteFacts DEF Content
<1>2. CASE op[a].gone
  BY <1>2 DEF Write, TypeOK
<1>3. CASE ~op[a].gone
  <2>1. PICK c \in {op[a].rec} \cup
             (IF file[Its(a)] \in {Torn, op[a].rec} THEN {} ELSE {Torn}) :
                 file' = [file EXCEPT ![Its(a)] = c]
    BY <1>3 DEF Write
  <2>2. c \in Content BY <1>1, <2>1
  <2>3. file[Its(a)] = Torn => c = op[a].rec BY <2>1
  <2>4. QED BY <1>1, <2>1, <2>2, <2>3 DEF TypeOK
<1>4. QED BY <1>2, <1>3

LEMMA CrashFacts ==
    ASSUME TypeOK, ShapeInv, NEW a \in Actor, Crash(a)
    PROVE  /\ op' \in [Actor -> Op] /\ OthersKeep(a) /\ ShapeInv'
           /\ op'[a].pc = "off" /\ Its(a) \in File
           /\ \A b \in Actor \ {a} : op'[b] = op[b]
<1>1. op' \in [Actor -> Op] /\ op'[a] = Idle /\ ShapeInv' /\ OthersKeep(a)
  BY IdleIsOp, IdleFits, GivesShape DEF Crash, Gives
<1>2. QED BY <1>1, IdleFits, OpFields DEF Crash, TypeOK

-----------------------------------------------------------------------------
(* Types.                                                                  *)

LEMMA QuietTypes ==
    ASSUME TypeOK, ShapeInv, NEW a \in Actor, Quiet(a),
           clock' \in Time, commands' \in 0 .. MaxCommands
    PROVE  TypeOK' /\ ShapeInv'
BY GivesShape DEF Quiet, TypeOK

LEMMA StepTypes ==
    ASSUME TypeOK, ShapeInv, NEW a \in Actor, Step(a) \/ Crash(a)
    PROVE  TypeOK' /\ ShapeInv'
<1> USE DEF Disturb
<1>1. CASE List(a) BY <1>1, ListQuiet, QuietTypes DEF TypeOK
<1>2. CASE Create(a) \/ Miss(a) \/ Hit(a)
  BY <1>2, GetQuiet, QuietTypes DEF TypeOK
<1>3. CASE Each(a)
  <2>1. PICK e \in op[a].todo : Skip(a, e) \/ Fire(a, e) \/ Remove(a, e)
    BY <1>3 DEF Each
  <2>2. At(a, "each") BY <1>3 DEF Each
  <2>3. CASE Skip(a, e) BY <2>2, <2>3, SkipQuiet, QuietTypes DEF TypeOK
  <2>4. CASE Fire(a, e)
    <3> DEFINE f == <<op[a].dir, e.id>>
    <3>1. op' \in [Actor -> Op] /\ ShapeInv' /\ f \in File
      BY <2>2, <2>4, FireFacts
    <3>2. fires' \in [File -> 0 .. 2] BY <2>4, <3>1 DEF Fire, TypeOK
    <3>3. disturbed' \in [File -> BOOLEAN] BY <2>4, <3>1 DEF Fire, TypeOK
    <3>4. QED BY <2>4, <3>1, <3>2, <3>3 DEF Fire, TypeOK
  <2>5. CASE Remove(a, e)
    <3> DEFINE f == <<op[a].dir, e.id>>
    <3>1. PICK o \in Op : Fit(a, o) /\ o.pc # "write" /\ Unlink(a, f, o)
      BY <2>2, <2>5, RemoveFacts
    <3>2. f \in File BY <2>2, <2>5, RemoveFacts
    <3>3. op' \in [Actor -> Op] /\ ShapeInv' /\ file' \in [File -> Content]
      BY <3>1, <3>2, UnlinkFacts
    <3>4. disturbed' \in [File -> BOOLEAN] BY <2>5, <3>2 DEF Remove, TypeOK
    <3>5. asked' \in [File -> {"nothing", "set", "pause", "resume", "cancel"}]
      BY <2>5, <3>2 DEF Remove, TypeOK
    <3>6. QED BY <2>5, <3>3, <3>4, <3>5 DEF Remove, TypeOK
  <2>6. QED BY <2>1, <2>3, <2>4, <2>5
<1>4. CASE Delete(a)
  <2>1. PICK o \in Op : Fit(a, o) /\ o.pc # "write" /\ Unlink(a, Its(a), o)
    BY <1>4, DeleteFacts
  <2>2. Its(a) \in File BY OpFields
  <2>3. op' \in [Actor -> Op] /\ ShapeInv' /\ file' \in [File -> Content]
    BY <2>1, <2>2, UnlinkFacts
  <2>4. disturbed' \in [File -> BOOLEAN] BY <1>4, <2>2 DEF Delete, TypeOK
  <2>5. asked' \in [File -> {"nothing", "set", "pause", "resume", "cancel"}]
    BY <1>4, <2>2 DEF Delete, TypeOK
  <2>6. QED BY <1>4, <2>3, <2>4, <2>5 DEF Delete, TypeOK
<1>5. CASE Truncate(a)
  <2>1. op' \in [Actor -> Op] /\ ShapeInv' /\ Its(a) \in File
    BY <1>5, TruncateFacts
  <2>2. file' \in [File -> Content] BY <1>5, <2>1 DEF Truncate, TypeOK, Content
  <2>3. disturbed' \in [File -> BOOLEAN] BY <1>5, <2>1 DEF Truncate, TypeOK
  <2>4. QED BY <1>5, <2>1, <2>2, <2>3 DEF Truncate, TypeOK
<1>6. CASE Write(a)
  <2>1. op' \in [Actor -> Op] /\ ShapeInv' /\ Its(a) \in File
    BY <1>6, WriteFacts
  <2>2. file' \in [File -> Content] BY <1>6, WrittenFile
  <2>3. disturbed' \in [File -> BOOLEAN] BY <1>6, <2>1 DEF Write, TypeOK
  <2>4. asked' \in [File -> {"nothing", "set", "pause", "resume", "cancel"}]
    BY <1>6, <2>1 DEF Write, TypeOK
  <2>5. fires' \in [File -> 0 .. 2] BY <1>6, <2>1 DEF Write, TypeOK
  <2>6. QED BY <1>6, <2>1, <2>2, <2>3, <2>4, <2>5 DEF Write, TypeOK
<1>7. CASE Crash(a)
  <2>1. op' \in [Actor -> Op] /\ ShapeInv' /\ Its(a) \in File
    BY <1>7, CrashFacts
  <2>2. disturbed' \in [File -> BOOLEAN] BY <1>7, <2>1 DEF Crash, TypeOK
  <2>3. QED BY <1>7, <2>1, <2>2 DEF Crash, TypeOK
<1>8. QED BY <1>1, <1>2, <1>3, <1>4, <1>5, <1>6, <1>7 DEF Step

LEMMA TypeStep ==
    ASSUME TypeOK, ShapeInv, [Next]_vars PROVE TypeOK' /\ ShapeInv'
<1>1. CASE Tick
  BY <1>1, TimersAssumption DEF Tick, TypeOK, Time, ShapeInv
<1>2. ASSUME NEW p \in Client, Command(p) PROVE TypeOK' /\ ShapeInv'
  BY <1>2, CommandQuiet, QuietTypes DEF Actor
<1>3. CASE Poll(Worker) \/ Stop(Worker)
  BY <1>3, WorkerQuiet, QuietTypes DEF Actor, TypeOK
<1>4. CASE UNCHANGED vars BY <1>4 DEF vars, TypeOK, ShapeInv
<1>5. QED BY <1>1, <1>2, <1>3, <1>4, StepTypes DEF Next

LEMMA InitTypes == Init => TypeOK /\ ShapeInv
<1> SUFFICES ASSUME Init PROVE TypeOK /\ ShapeInv
  OBVIOUS
<1>1. ShapeInv BY IdleFits DEF Init, ShapeInv
<1>2. TypeOK
  BY IdleIsOp, TimersAssumption DEF Init, TypeOK, Content
<1>3. QED BY <1>1, <1>2

\* Whatever clients and worker do, files, processes and ghosts are well-formed:
\* no record is ever made from what could not be parsed.
THEOREM TimerTypes == Spec => []TypeOK
<1>1. TypeOK /\ ShapeInv /\ [Next]_vars => (TypeOK /\ ShapeInv)'
  BY TypeStep
<1>2. QED BY <1>1, InitTypes, PTL DEF Spec

-----------------------------------------------------------------------------
(* What holds of a timer as long as nobody has disturbed it.               *)

\* The worker has fired f and is about to delete it.
Expiring(f) == At(Worker, "delete") /\ Its(Worker) = f

Fits(want, r) ==
    CASE want \in {"set", "resume"} -> r.enabled
      [] want = "pause" -> ~r.enabled
      [] OTHER -> FALSE

\* One process at a time has the file open, it is empty then, and what will
\* be written or stands there is what was asked for; a one-time timer that has
\* fired is gone or about to go.
Calm(f) ==
    /\ \A b \in Actor : Writes(b, f) => file[f] = Torn
    /\ \A b, c \in Actor : Writes(b, f) /\ Writes(c, f) => b = c
    /\ file[f] \in Record => Fits(asked[f], file[f])
    /\ \A b \in Actor :
           Writes(b, f) /\ op[b].kind \in {"run", "pass"} =>
               asked[f] \in {"set", "resume"}
    /\ fires[f] <= 1
    /\ fires[f] = 1 =>
           \/ Expiring(f)
           \/ /\ file[f] \notin Record
              /\ \A b \in Actor : Writes(b, f) => op[b].kind = "set"

CalmInv == \A f \in File : disturbed[f] \/ Calm(f)

TimersInv == TypeOK /\ ShapeInv /\ CalmInv

\* A step that leaves f, its ghosts and its writers alone keeps it calm.
LEMMA CalmUntouched ==
    ASSUME NEW f \in File, Calm(f), file'[f] = file[f], asked'[f] = asked[f],
           fires'[f] = fires[f], Expiring(f) => Expiring(f)',
           \A b \in Actor : Writes(b, f)' =>
               Writes(b, f) /\ op'[b].kind = op[b].kind
    PROVE  Calm(f)'
<1>1. \A b \in Actor : Writes(b, f)' => file'[f] = Torn
  BY DEF Calm
<1>2. \A b, c \in Actor : Writes(b, f)' /\ Writes(c, f)' => b = c
  BY DEF Calm
<1>3. file'[f] \in Record => Fits(asked'[f], file'[f])
  BY DEF Calm
<1>4. \A b \in Actor : Writes(b, f)' /\ op'[b].kind \in {"run", "pass"} =>
          asked'[f] \in {"set", "resume"}
  BY DEF Calm
<1>5. fires'[f] <= 1 BY DEF Calm
<1>6. fires'[f] = 1 =>
          \/ Expiring(f)'
          \/ /\ file'[f] \notin Record
             /\ \A b \in Actor : Writes(b, f)' => op'[b].kind = "set"
  BY DEF Calm
<1>7. QED BY <1>1, <1>2, <1>3, <1>4, <1>5, <1>6 DEF Calm

LEMMA QuietCalm ==
    ASSUME TimersInv, NEW a \in Actor, Quiet(a) PROVE CalmInv'
<1> SUFFICES ASSUME NEW f \in File, ~disturbed'[f] PROVE Calm(f)'
  BY DEF CalmInv
<1>1. TypeOK /\ ShapeInv /\ Calm(f)
  BY DEF TimersInv, CalmInv, Quiet
<1>2. PICK o : Gives(a, o) /\ o.pc # "write" BY DEF Quiet
<1>3. op'[a] = o /\ \A b \in Actor \ {a} : op'[b] = op[b]
  BY <1>1, <1>2 DEF Gives, TypeOK
<1>4. \A b \in Actor : Writes(b, f)' => Writes(b, f) /\ op'[b].kind = op[b].kind
  BY <1>2, <1>3 DEF Writes, At, Its
<1>5. Expiring(f) => Expiring(f)'
  <2>1. CASE a = Worker BY <2>1 DEF Quiet, Expiring, At
  <2>2. CASE a # Worker
    BY <1>3, <2>2 DEF Expiring, At, Its, Actor
  <2>3. QED BY <2>1, <2>2
<1>6. QED BY <1>1, <1>4, <1>5, CalmUntouched DEF Quiet

LEMMA FireCalm ==
    ASSUME TimersInv, NEW a \in Actor, At(a, "each"), NEW e \in op[a].todo, Fire(a, e)
    PROVE  CalmInv'
<1> SUFFICES ASSUME NEW f \in File, ~disturbed'[f] PROVE Calm(f)'
  BY DEF CalmInv
<1> DEFINE h == <<op[a].dir, e.id>>
<1>0. TypeOK /\ ShapeInv BY DEF TimersInv
<1>1. /\ a = Worker /\ h \in File /\ e.rec \in Record
      /\ op' \in [Actor -> Op] /\ OthersKeep(a)
      /\ op'[a].pc = Advance(e.rec) /\ Its(a)' = h
      /\ \A b \in Actor, g \in File : Writes(b, g)' <=> b # a /\ Writes(b, g)
  BY <1>0, FireFacts
<1>2. ~Expiring(f) BY <1>1 DEF Expiring, At
<1>3. \A b \in Actor : Writes(b, f)' => Writes(b, f) /\ op'[b].kind = op[b].kind
  BY <1>0, <1>1, OthersSame
<1>4. file' = file /\ asked' = asked BY DEF Fire
<1>5. CASE f # h
  <2>1. disturbed'[f] = disturbed[f] /\ fires'[f] = fires[f]
    BY <1>0, <1>1, <1>5 DEF Fire, Disturb, TypeOK
  <2>2. Calm(f) BY <2>1 DEF TimersInv, CalmInv
  <2>3. QED BY <1>2, <1>3, <1>4, <2>1, <2>2, CalmUntouched
<1>6. CASE f = h
  <2>1. file[f] = e.rec /\ ~disturbed[f]
    BY <1>0, <1>1, <1>6 DEF Fire, Disturb, TypeOK
  <2>2. Calm(f) /\ file[f] \in Record
    BY <1>1, <2>1 DEF TimersInv, CalmInv
  <2>3. fires[f] = 0
    BY <1>0, <1>2, <2>2 DEF Calm, TypeOK
  <2>4. \/ e.rec.plan.kind = "once" /\ fires'[f] = 1
        \/ fires'[f] = 0
    BY <1>0, <1>1, <1>6, <2>3 DEF Fire, TypeOK
  <2>5. e.rec.plan.kind = "once" => Expiring(f)'
    BY <1>1, <1>6 DEF Advance, Expiring, At
  <2>6. fires'[f] <= 1 /\ (fires'[f] = 1 => Expiring(f)')
    BY <2>4, <2>5
  <2>7. QED BY <1>3, <1>4, <2>2, <2>6 DEF Calm
<1>7. QED BY <1>5, <1>6

LEMMA UnlinkCalm ==
    ASSUME TimersInv, NEW a \in Actor, NEW h \in File, NEW o \in Op, Fit(a, o),
           o.pc # "write", Unlink(a, h, o), fires' = fires,
           \A f \in File \ {h} : /\ disturbed'[f] = disturbed[f]
                                 /\ asked'[f] = asked[f],
           disturbed[h] => disturbed'[h],
           a = Worker => ~At(a, "delete") \/ Its(a) = h
    PROVE  CalmInv'
<1> SUFFICES ASSUME NEW f \in File, ~disturbed'[f] PROVE Calm(f)'
  BY DEF CalmInv
<1>0. TypeOK /\ ShapeInv /\ Calm(f) BY DEF TimersInv, CalmInv
<1>1. /\ file' = [file EXCEPT ![h] = Absent] /\ op' \in [Actor -> Op]
      /\ OthersKeep(a)
      /\ \A b \in Actor : ~Writes(b, h)'
      /\ \A b \in Actor, g \in File : Writes(b, g)' => b # a /\ Writes(b, g)
  BY <1>0, UnlinkFacts
<1>2. CASE f = h
  <2>1. file'[f] = Absent BY <1>0, <1>1, <1>2 DEF TypeOK
  <2>2. QED BY <1>0, <1>1, <1>2, <2>1, NoRecords DEF Calm
<1>3. CASE f # h
  <2>1. file'[f] = file[f] /\ asked'[f] = asked[f]
    BY <1>0, <1>1, <1>3 DEF TypeOK
  <2>2. \A b \in Actor : Writes(b, f)' =>
            Writes(b, f) /\ op'[b].kind = op[b].kind
    BY <1>0, <1>1, OthersSame
  <2>3. Expiring(f) => Expiring(f)'
    <3>1. CASE a = Worker BY <1>3, <3>1 DEF Expiring
    <3>2. CASE a # Worker
      <4>1. op'[Worker].pc = op[Worker].pc /\ Its(Worker)' = Its(Worker)
        BY <1>0, <1>1, <3>2, OthersSame DEF Actor
      <4>2. QED BY <4>1 DEF Expiring, At
    <3>3. QED BY <3>1, <3>2
  <2>4. QED BY <1>0, <2>1, <2>2, <2>3, CalmUntouched
<1>4. QED BY <1>2, <1>3

LEMMA TruncateCalm ==
    ASSUME TimersInv, NEW a \in Actor, Truncate(a) PROVE CalmInv'
<1> SUFFICES ASSUME NEW f \in File, ~disturbed'[f] PROVE Calm(f)'
  BY DEF CalmInv
<1> DEFINE h == Its(a)
<1>0. TypeOK /\ ShapeInv BY DEF TimersInv
<1>1. /\ h \in File /\ op[a].rec \in Record
      /\ op[a].kind \in {"run", "set", "pass"} => op[a].rec.enabled
      /\ op'[a].pc = "write" /\ op'[a].kind = op[a].kind /\ Its(a)' = h
      /\ \A b \in Actor \ {a} : op'[b] = op[b]
  BY <1>0, TruncateFacts
<1>2. asked' = asked /\ fires' = fires /\ file' = [file EXCEPT ![h] = Torn]
  BY DEF Truncate
<1>3. Expiring(f) => Expiring(f)'
  <2>1. ASSUME Expiring(f) PROVE Worker # a
    BY <2>1 DEF Expiring, Truncate, At
  <2>2. QED BY <1>1, <2>1 DEF Expiring, At, Its, Actor
<1>4. CASE f # h
  <2>1. disturbed'[f] = disturbed[f] /\ file'[f] = file[f]
    BY <1>0, <1>1, <1>2, <1>4 DEF Truncate, Disturb, TypeOK
  <2>2. \A b \in Actor : Writes(b, f)' =>
            Writes(b, f) /\ op'[b].kind = op[b].kind
    BY <1>1, <1>4 DEF Writes, At, Its
  <2>3. Calm(f) BY <2>1 DEF TimersInv, CalmInv
  <2>4. QED BY <1>2, <1>3, <2>1, <2>2, <2>3, CalmUntouched
<1>5. CASE f = h
  <2>1. /\ ~disturbed[f] /\ file'[f] = Torn
        /\ file[f] = IF op[a].kind = "set" THEN Absent ELSE op[a].rec
    BY <1>0, <1>1, <1>2, <1>5 DEF Truncate, Disturb, TypeOK
  <2>2. Calm(f) BY <2>1 DEF TimersInv, CalmInv
  <2>3. \A b \in Actor : ~Writes(b, f)
    BY <1>1, <2>1, <2>2, NoRecords DEF Calm
  <2>4. \A b \in Actor : Writes(b, f)' => b = a
    BY <1>1, <2>3 DEF Writes, At, Its
  <2>5. op[a].kind \in {"run", "pass"} => asked'[f] \in {"set", "resume"}
    BY <1>1, <1>2, <2>1, <2>2 DEF Calm, Fits
  <2>6. fires'[f] = 1 => Expiring(f)' \/ op'[a].kind = "set"
    BY <1>1, <1>2, <1>3, <2>1, <2>2, NoRecords DEF Calm
  <2>7. QED
    BY <1>1, <1>2, <2>1, <2>2, <2>4, <2>5, <2>6, NoRecords DEF Calm
<1>6. QED BY <1>4, <1>5

LEMMA WriteCalm ==
    ASSUME TimersInv, NEW a \in Actor, Write(a) PROVE CalmInv'
<1> SUFFICES ASSUME NEW f \in File, ~disturbed'[f] PROVE Calm(f)'
  BY DEF CalmInv
<1> DEFINE h == Its(a)
<1>0. TypeOK /\ ShapeInv BY DEF TimersInv
<1>1. /\ h \in File /\ op[a].rec \in Record /\ op[a].kind \in ChangeKinds
      /\ op[a].rec.enabled <=> op[a].kind # "pause"
      /\ op'[a].pc # "write"
      /\ \A b \in Actor \ {a} : op'[b] = op[b]
  BY <1>0, WriteFacts
<1>2. \A b \in Actor : Writes(b, f)' =>
          b # a /\ Writes(b, f) /\ op'[b].kind = op[b].kind
  BY <1>1 DEF Writes, At, Its
<1>3. Expiring(f) => Expiring(f)'
  <2>1. ASSUME Expiring(f) PROVE Worker # a
    BY <2>1 DEF Expiring, Write, At
  <2>2. QED BY <1>1, <2>1 DEF Expiring, At, Its, Actor
<1>4. CASE f # h
  <2>1. disturbed'[f] = disturbed[f]
    BY <1>0, <1>1, <1>4 DEF Write, Disturb, TypeOK
  <2>2. asked'[f] = asked[f] /\ fires'[f] = fires[f]
    BY <1>0, <1>1, <1>4 DEF Write, TypeOK
  <2>3. file'[f] = file[f] BY <1>0, <1>4, WrittenFile
  <2>4. Calm(f) BY <2>1 DEF TimersInv, CalmInv
  <2>5. QED BY <1>2, <1>3, <2>1, <2>2, <2>3, <2>4, CalmUntouched
<1>5. CASE f = h
  <2>1. ~disturbed[f] /\ file[f] = Torn /\ ~op[a].gone
    BY <1>0, <1>1, <1>5 DEF Write, Disturb, TypeOK
  <2>2. Calm(f) /\ Writes(a, f)
    BY <1>5, <2>1 DEF TimersInv, CalmInv, Writes, Write
  <2>3. \A b \in Actor : ~Writes(b, f)' BY <1>2, <2>2 DEF Calm
  <2>4. file'[f] = op[a].rec BY <1>0, <1>5, <2>1, WrittenFile
  <2>5. asked'[f] = IF op[a].kind \in {"set", "pause", "resume"}
                    THEN op[a].kind ELSE asked[f]
    BY <1>0, <1>1, <1>5 DEF Write, TypeOK
  <2>6. op[a].kind \in {"set", "pause", "resume", "run", "pass"}
    BY <1>1 DEF ChangeKinds, Change
  <2>7. Fits(asked'[f], file'[f])
    <3>1. CASE op[a].kind = "pause" BY <1>1, <2>4, <2>5, <3>1 DEF Fits
    <3>2. CASE op[a].kind \in {"set", "resume"}
      BY <1>1, <2>4, <2>5, <3>2 DEF Fits
    <3>3. CASE op[a].kind \in {"run", "pass"}
      <4>1. asked[f] \in {"set", "resume"} BY <2>2, <3>3 DEF Calm
      <4>2. QED BY <1>1, <2>4, <2>5, <3>3, <4>1 DEF Fits
    <3>4. QED BY <2>6, <3>1, <3>2, <3>3
  <2>8. fires'[f] = IF op[a].kind = "set" THEN 0 ELSE fires[f]
    BY <1>0, <1>1, <1>5 DEF Write, TypeOK
  <2>9. fires'[f] <= 1 /\ (fires'[f] = 1 => Expiring(f)')
    BY <1>3, <2>1, <2>2, <2>8, NoRecords DEF Calm
  <2>10. QED BY <2>3, <2>7, <2>9 DEF Calm
<1>6. QED BY <1>4, <1>5

LEMMA CrashCalm ==
    ASSUME TimersInv, NEW a \in Actor, Crash(a) PROVE CalmInv'
<1> SUFFICES ASSUME NEW f \in File, ~disturbed'[f] PROVE Calm(f)'
  BY DEF CalmInv
<1>0. TypeOK /\ ShapeInv BY DEF TimersInv
<1>1. /\ op'[a].pc = "off" /\ Its(a) \in File
      /\ \A b \in Actor \ {a} : op'[b] = op[b]
  BY <1>0, CrashFacts
<1>2. ~disturbed[f] /\ (f = Its(a) => ~At(a, "delete"))
  BY <1>0, <1>1 DEF Crash, Disturb, TypeOK
<1>3. \A b \in Actor : Writes(b, f)' =>
          Writes(b, f) /\ op'[b].kind = op[b].kind
  BY <1>1 DEF Writes, At, Its
<1>4. Expiring(f) => Expiring(f)'
  <2>1. ASSUME Expiring(f) PROVE Worker # a
    BY <1>2, <2>1 DEF Expiring
  <2>2. QED BY <1>1, <2>1 DEF Expiring, At, Its, Actor
<1>5. QED
  BY <1>2, <1>3, <1>4, CalmUntouched DEF TimersInv, CalmInv, Crash

LEMMA StepCalm ==
    ASSUME TimersInv, NEW a \in Actor, Step(a) PROVE CalmInv'
<1>0. TypeOK /\ ShapeInv BY DEF TimersInv
<1>1. CASE List(a) BY <1>0, <1>1, ListQuiet, QuietCalm
<1>2. CASE Create(a) \/ Miss(a) \/ Hit(a)
  BY <1>0, <1>2, GetQuiet, QuietCalm
<1>3. CASE Each(a)
  <2>1. PICK e \in op[a].todo : Skip(a, e) \/ Fire(a, e) \/ Remove(a, e)
    BY <1>3 DEF Each
  <2>2. At(a, "each") BY <1>3 DEF Each
  <2>3. CASE Skip(a, e) BY <1>0, <2>2, <2>3, SkipQuiet, QuietCalm
  <2>4. CASE Fire(a, e) BY <2>2, <2>4, FireCalm
  <2>5. CASE Remove(a, e)
    <3> DEFINE h == <<op[a].dir, e.id>>
    <3>1. h \in File /\ a # Worker BY <1>0, <2>2, <2>5, RemoveFacts
    <3>2. PICK o \in Op : Fit(a, o) /\ o.pc # "write" /\ Unlink(a, h, o)
      BY <1>0, <2>2, <2>5, RemoveFacts
    <3>3. /\ \A f \in File \ {h} :
                 disturbed'[f] = disturbed[f] /\ asked'[f] = asked[f]
          /\ disturbed[h] => disturbed'[h]
      BY <1>0, <2>5, <3>1 DEF Remove, Disturb, TypeOK
    <3>4. fires' = fires BY <2>5 DEF Remove
    <3>5. QED BY <3>1, <3>2, <3>3, <3>4, UnlinkCalm
  <2>6. QED BY <2>1, <2>3, <2>4, <2>5
<1>4. CASE Delete(a)
  <2> DEFINE h == Its(a)
  <2>1. PICK o \in Op :
            Fit(a, o) /\ o.pc \notin {"write", "delete"} /\ Unlink(a, h, o)
    BY <1>0, <1>4, DeleteFacts
  <2>2. h \in File BY <1>0, OpFields
  <2>3. /\ \A f \in File \ {h} :
               disturbed'[f] = disturbed[f] /\ asked'[f] = asked[f]
        /\ disturbed[h] => disturbed'[h]
    BY <1>0, <1>4, <2>2 DEF Delete, Disturb, TypeOK
  <2>4. fires' = fires BY <1>4 DEF Delete
  <2>5. QED BY <2>1, <2>2, <2>3, <2>4, UnlinkCalm
<1>5. CASE Truncate(a) BY <1>5, TruncateCalm
<1>6. CASE Write(a) BY <1>6, WriteCalm
<1>7. QED BY <1>1, <1>2, <1>3, <1>4, <1>5, <1>6 DEF Step

LEMMA TimersInitially == Init => TimersInv
<1> SUFFICES ASSUME Init PROVE CalmInv
  BY InitTypes DEF TimersInv
<1>1. \A b \in Actor : op[b].pc = "off" BY IdleFits DEF Init
<1>2. \A f \in File : Calm(f)
  BY <1>1, NoRecords DEF Init, Calm, Writes, At
<1>3. QED BY <1>2 DEF CalmInv

LEMMA TimersStep == ASSUME TimersInv, [Next]_vars PROVE TimersInv'
<1>0. TypeOK /\ ShapeInv BY DEF TimersInv
<1>1. TypeOK' /\ ShapeInv' BY <1>0, TypeStep
<1>2. CalmInv'
  <2>1. CASE UNCHANGED <<file, op, asked, disturbed, fires>>
    BY <2>1 DEF TimersInv, CalmInv, Calm, Writes, Expiring, At, Its
  <2>2. CASE Tick \/ UNCHANGED vars BY <2>1, <2>2 DEF Tick, vars
  <2>3. ASSUME NEW p \in Client, Command(p) PROVE CalmInv'
    BY <1>0, <2>3, CommandQuiet, QuietCalm DEF Actor
  <2>4. CASE Poll(Worker) \/ Stop(Worker)
    BY <1>0, <2>4, WorkerQuiet, QuietCalm DEF Actor
  <2>5. QED BY <2>2, <2>3, <2>4, StepCalm, CrashCalm DEF Next
<1>3. QED BY <1>1, <1>2 DEF TimersInv

LEMMA TimersInvariant == Spec => []TimersInv
<1>1. TimersInv /\ [Next]_vars => TimersInv' BY TimersStep
<1>2. QED BY <1>1, TimersInitially, PTL DEF Spec

-----------------------------------------------------------------------------
\* runCancel, runPause, runSet: an undisturbed timer is as its last command
\* left it.
THEOREM UsersWin == Spec => []UserWins
<1>1. TimersInv => UserWins
  BY DEF TimersInv, CalmInv, Calm, Fits, UserWins
<1>2. QED BY <1>1, TimersInvariant, PTL

\* processTimers and advanceOrDelete: an undisturbed one-time timer fires once.
THEOREM OnceIsOnce == Spec => []OnceFiresOnce
<1>1. TimersInv => OnceFiresOnce
  BY DEF TimersInv, CalmInv, Calm, OnceFiresOnce
<1>2. QED BY <1>1, TimersInvariant, PTL

-----------------------------------------------------------------------------
(* The verdicts on models.                                                 *)

Checks == [pc : H!PC, known : SUBSET Model, todo : SUBSET Model,
           tries : [Model -> 0 .. MaxTries], report : H!Report, fd : H!File \cup {None}]

LEMMA HealthTypes ==
    H!TypeOK <=> /\ world \in H!World
                 /\ changes \in 0 .. MaxChanges /\ checks \in 0 .. MaxChecks
                 /\ cache \in (SUBSET Model) \cup {None}
                 /\ check \in [H!Actor -> Checks]
                 /\ content \in [H!File -> H!Report \cup {None, Broken}]
                 /\ tmp \in H!File \cup {None} /\ path \in H!File \cup {None}
BY DEF H!TypeOK, Checks

\* The instance has these operators under names of its own.
LEMMA SameFinite ==
    ASSUME NEW S
    PROVE  (H!IsFiniteSet(S) <=> IsFiniteSet(S)) /\ H!Cardinality(S) = Cardinality(S)
BY DEF H!IsFiniteSet, IsFiniteSet, H!Cardinality, Cardinality

\* There are two files more than processes, so that one is neither open nor
\* under the final name.
LEMMA AFileIsFree ==
    ASSUME H!TypeOK
    PROVE  H!NewFile \in H!File /\ H!NewFile # path /\ \A x \in H!Actor : check[x].fd # H!NewFile
<1> DEFINE open == [x \in H!Actor |-> check[x].fd]
           n == Cardinality(H!Actor)
<1>1. IsFiniteSet(H!Actor)
  <2>1. IsFiniteSet(Checker) BY FilesAssumption, SameFinite DEF H!ModelHealthAssumption
  <2>2. QED BY <2>1, FS_AddElement DEF H!Actor
<1>2. n \in Nat
  BY <1>1, FS_CardinalityType
<1>3. open \in Surjection(H!Actor, Range(open))
  <2>1. open \in [H!Actor -> {check[x].fd : x \in H!Actor}] OBVIOUS
  <2> HIDE DEF open
  <2>2. QED BY <2>1, Fun_RangeProperties
<1>4. IsFiniteSet(Range(open)) /\ Cardinality(Range(open)) <= n
  BY <1>1, <1>3, FS_Surjection
<1>5. IsFiniteSet(Range(open) \cup {path}) /\ Cardinality(Range(open) \cup {path}) <= n + 1
  <2> HIDE DEF open, n
  <2>1. Cardinality(Range(open)) \in Nat BY <1>4, FS_CardinalityType
  <2>2. /\ IsFiniteSet(Range(open) \cup {path})
        /\ Cardinality(Range(open) \cup {path}) \in {Cardinality(Range(open)), Cardinality(Range(open)) + 1}
    BY <1>4, FS_AddElement
  <2>3. QED BY <1>2, <1>4, <2>1, <2>2
<1>6. H!File = 0 .. n + 1 /\ Cardinality(0 .. n + 1) = n + 2
  <2>1. H!File = 0 .. n + 1 BY SameFinite DEF H!File
  <2> HIDE DEF n
  <2>2. QED BY <1>2, <2>1, FS_Interval
<1>7. ~(H!File \subseteq Range(open) \cup {path})
  <2> HIDE DEF open, n
  <2>1. ASSUME H!File \subseteq Range(open) \cup {path} PROVE FALSE
    <3>1. Cardinality(H!File) <= Cardinality(Range(open) \cup {path})
      BY <1>5, <2>1, FS_Subset
    <3>2. Cardinality(Range(open) \cup {path}) \in Nat
      BY <1>5, FS_CardinalityType
    <3>3. QED BY <1>2, <1>5, <1>6, <3>1, <3>2
  <2>2. QED BY <2>1
<1>8. \E f \in H!File : f # path /\ \A x \in H!Actor : check[x].fd # f
  <2>1. PICK f \in H!File : f \notin Range(open) /\ f # path
    BY <1>7
  <2>2. \A x \in H!Actor : open[x] \in Range(open)
    BY DEF Range
  <2>3. QED BY <2>1, <2>2
<1>9. QED BY <1>8 DEF H!NewFile

\* A step of one checker.
LEMMA HealthOne ==
    ASSUME H!TypeOK, NEW x \in H!Actor, NEW o \in Checks, check' = [check EXCEPT ![x] = o],
           world' \in H!World, changes' \in 0 .. MaxChanges, checks' \in 0 .. MaxChecks,
           cache' \in (SUBSET Model) \cup {None},
           content' \in [H!File -> H!Report \cup {None, Broken}],
           tmp' \in H!File \cup {None}, path' \in H!File \cup {None}
    PROVE  H!TypeOK'
<1>1. check \in [H!Actor -> Checks]
  BY HealthTypes
<1>2. check' \in [H!Actor -> Checks]
  BY <1>1
<1>3. (H!TypeOK <=> /\ world \in H!World
                    /\ changes \in 0 .. MaxChanges /\ checks \in 0 .. MaxChecks
                    /\ cache \in (SUBSET Model) \cup {None}
                    /\ check \in [H!Actor -> Checks]
                    /\ content \in [H!File -> H!Report \cup {None, Broken}]
                    /\ tmp \in H!File \cup {None} /\ path \in H!File \cup {None})'
  BY DEF H!TypeOK, Checks
<1>4. QED BY <1>2, <1>3

LEMMA HealthIdle == H!Idle \in Checks /\ [H!Idle EXCEPT !.pc = "due"] \in Checks
<1>1. 0 \in 0 .. MaxTries
  BY FilesAssumption DEF H!ModelHealthAssumption
<1>2. H!NoReport \in H!Report
  BY DEF H!NoReport, H!Report
<1>3. [m \in Model |-> 0] \in [Model -> 0 .. MaxTries]
  BY <1>1
<1>4. QED BY <1>2, <1>3 DEF H!Idle, Checks, H!PC

LEMMA HealthInit == ASSUME H!Init PROVE H!TypeOK
<1>1. world \in H!World /\ 0 \in 0 .. MaxChanges /\ 0 \in 0 .. MaxChecks
  BY FilesAssumption DEF H!Init, H!ModelHealthAssumption
<1>2. check \in [H!Actor -> Checks]
  BY HealthIdle DEF H!Init
<1>3. QED BY <1>1, <1>2, HealthTypes DEF H!Init

LEMMA HealthStep == ASSUME H!TypeOK, NEW x \in H!Actor, H!Step(x) PROVE H!TypeOK'
<1> DEFINE c == check[x]
<1>1. /\ world \in H!World /\ changes \in 0 .. MaxChanges /\ checks \in 0 .. MaxChecks
      /\ cache \in (SUBSET Model) \cup {None} /\ check \in [H!Actor -> Checks] /\ c \in Checks
      /\ content \in [H!File -> H!Report \cup {None, Broken}]
      /\ tmp \in H!File \cup {None} /\ path \in H!File \cup {None}
  BY HealthTypes
<1>2. /\ c.known \in SUBSET Model /\ c.todo \in SUBSET Model
      /\ c.tries \in [Model -> 0 .. MaxTries] /\ c.report \in H!Report
      /\ c.fd \in H!File \cup {None}
  BY <1>1 DEF Checks
<1>3. H!Listed \in SUBSET Model
  BY <1>1 DEF H!Listed, H!World
<1>4. ASSUME NEW models \in SUBSET Model, H!Knows(x, models),
             cache' \in (SUBSET Model) \cup {None}, UNCHANGED <<world, changes, checks, content, tmp, path>>
      PROVE  H!TypeOK'
  <2> DEFINE o == [c EXCEPT !.known = models, !.pc = IF models = {} THEN "open" ELSE "listing"]
  <2>1. check' = [check EXCEPT ![x] = o]
    BY <1>1, <1>4 DEF H!Knows
  <2>2. o \in Checks
    BY <1>1 DEF Checks, H!PC
  <2> HIDE DEF o
  <2>3. QED BY <1>1, <1>4, <2>1, <2>2, HealthOne
<1>5. CASE H!FromCache(x)
  <2>1. cache \in SUBSET Model BY <1>1, <1>5 DEF H!FromCache
  <2>2. QED BY <1>1, <1>4, <1>5, <2>1 DEF H!FromCache, H!outside, H!files
<1>6. CASE H!Fetch(x)
  <2> DEFINE o == [c EXCEPT !.pc = "cache", !.known = H!Listed]
  <2>1. check' = [check EXCEPT ![x] = o] /\ UNCHANGED <<world, changes, checks, cache, content, tmp, path>>
    BY <1>1, <1>6 DEF H!Fetch, H!outside, H!files
  <2>2. o \in Checks BY <1>1, <1>3 DEF Checks, H!PC
  <2> HIDE DEF o
  <2>3. QED BY <1>1, <2>1, <2>2, HealthOne
<1>7. CASE H!Keep(x)
  BY <1>2, <1>4, <1>7 DEF H!Keep, H!outside, H!files
<1>8. CASE H!Directly(x)
  BY <1>1, <1>3, <1>4, <1>8 DEF H!Directly, H!outside, H!files
<1>9. CASE H!Listing(x)
  <2> DEFINE P(m) == IF m \notin c.known THEN None
                     ELSE IF ~world.up THEN H!Said("unknown")
                     ELSE IF m \notin world.listed THEN H!Said("not-served")
                     ELSE IF x \notin Probing THEN H!Said("ok") ELSE None
             report == [m \in Model |-> P(m)]
             todo == IF x \in Probing /\ world.up THEN c.known \cap world.listed ELSE {}
             pc == IF todo = {} THEN "open" ELSE "probe"
             o == [c EXCEPT !.report = report, !.todo = todo, !.pc = pc]
  <2>1. check' = [check EXCEPT ![x] = o] /\ UNCHANGED <<world, changes, checks, cache, content, tmp, path>>
    BY <1>1, <1>9 DEF H!Listing, H!outside, H!files
  <2>2. \A m \in Model : P(m) \in H!Verdict \cup {None}
    BY DEF H!Said, H!Verdict, H!Status
  <2>3. report \in H!Report
    <3> HIDE DEF P
    <3>1. QED BY <2>2 DEF H!Report
  <2>4. todo \in SUBSET Model BY <1>2
  <2>5. pc \in H!PC BY DEF H!PC
  <2> HIDE DEF report, todo, pc
  <2>6. o \in Checks BY <1>1, <2>3, <2>4, <2>5 DEF Checks
  <2> HIDE DEF o
  <2>7. QED BY <1>1, <2>1, <2>6, HealthOne
<1>10. ASSUME NEW m \in Model, NEW v \in H!Verdict, H!Judged(x, m, v),
              UNCHANGED <<world, changes, checks, cache, content, tmp, path>>
       PROVE  H!TypeOK'
  <2> DEFINE report == [c.report EXCEPT ![m] = v]
             todo == c.todo \ {m}
             tries == [c.tries EXCEPT ![m] = 0]
             pc == IF c.todo = {m} THEN "open" ELSE c.pc
             o == [c EXCEPT !.report = report, !.todo = todo, !.tries = tries, !.pc = pc]
  <2>1. check' = [check EXCEPT ![x] = o]
    BY <1>1, <1>10 DEF H!Judged, Checks
  <2>2. report \in H!Report /\ todo \in SUBSET Model /\ pc \in H!PC
    BY <1>1, <1>2 DEF H!Report, Checks, H!PC
  <2>3. 0 \in 0 .. MaxTries
    BY FilesAssumption DEF H!ModelHealthAssumption
  <2>4. tries \in [Model -> 0 .. MaxTries]
    BY <1>2, <2>3
  <2> HIDE DEF report, todo, tries, pc
  <2>5. o \in Checks BY <1>1, <2>2, <2>4 DEF Checks
  <2> HIDE DEF o
  <2>6. QED BY <1>1, <1>10, <2>1, <2>5, HealthOne
<1>11. ASSUME NEW m \in Model, NEW k \in 0 .. MaxTries, check' = [check EXCEPT ![x].tries[m] = k],
              UNCHANGED <<world, changes, checks, cache, content, tmp, path>>
       PROVE  H!TypeOK'
  <2> DEFINE tries == [c.tries EXCEPT ![m] = k]
             o == [c EXCEPT !.tries = tries]
  <2>1. check' = [check EXCEPT ![x] = o]
    BY <1>1, <1>11
  <2>2. tries \in [Model -> 0 .. MaxTries]
    BY <1>2
  <2> HIDE DEF tries
  <2>3. o \in Checks BY <1>1, <2>2 DEF Checks
  <2> HIDE DEF o
  <2>4. QED BY <1>1, <1>11, <2>1, <2>3, HealthOne
<1>12. ASSUME NEW m \in Model, H!Attempt(x, m) PROVE H!TypeOK'
  <2>1. UNCHANGED <<world, changes, checks, cache, content, tmp, path>> /\ c.tries[m] < MaxTries
    BY <1>12 DEF H!Attempt, H!outside, H!files
  <2>2. \/ H!Judged(x, m, H!Said("failed")) \/ H!Judged(x, m, H!Said("degraded"))
        \/ check' = [check EXCEPT ![x].tries[m] = @ + 1]
        \/ check' = [check EXCEPT ![x].tries[m] = MaxTries]
    BY <1>12 DEF H!Attempt
  <2>3. H!Said("failed") \in H!Verdict /\ H!Said("degraded") \in H!Verdict
    BY DEF H!Said, H!Verdict, H!Status
  <2>4. c.tries[m] + 1 \in 0 .. MaxTries /\ MaxTries \in 0 .. MaxTries
    BY <1>2, <2>1, FilesAssumption DEF H!ModelHealthAssumption
  <2>5. QED BY <1>10, <1>11, <2>1, <2>2, <2>3, <2>4
<1>13. ASSUME NEW m \in Model, H!Capability(x, m) PROVE H!TypeOK'
  <2> DEFINE v == [status |-> "ok", tools |-> IF H!Heard(m) = "fine" THEN "yes" ELSE "no"]
  <2>1. UNCHANGED <<world, changes, checks, cache, content, tmp, path>> /\ H!Judged(x, m, v)
    BY <1>13 DEF H!Capability, H!outside, H!files
  <2>2. v \in H!Verdict
    BY DEF H!Verdict, H!Status
  <2> HIDE DEF v
  <2>3. QED BY <1>10, <2>1, <2>2
<1>14. CASE H!Open(x)
  <2> DEFINE f == IF tmp = None THEN H!NewFile ELSE tmp
             o == [c EXCEPT !.pc = "write", !.fd = f, !.report = c.report]
  <2>1. /\ check' = [check EXCEPT ![x] = o] /\ tmp' = f /\ content' = [content EXCEPT ![f] = None]
        /\ UNCHANGED <<world, changes, checks, cache, path>>
    BY <1>1, <1>14 DEF H!Open, H!Merged, H!outside
  <2>2. f \in H!File
    BY <1>1, AFileIsFree
  <2> HIDE DEF f
  <2>3. o \in Checks /\ content' \in [H!File -> H!Report \cup {None, Broken}]
    BY <1>1, <1>2, <2>1, <2>2 DEF Checks, H!PC
  <2> HIDE DEF o
  <2>4. QED BY <1>1, <2>1, <2>2, <2>3, HealthOne
<1>15. ASSUME NEW pc \in H!PC, H!Goto(x, pc),
              content' \in [H!File -> H!Report \cup {None, Broken}],
              checks' \in 0 .. MaxChecks,
              UNCHANGED <<world, changes, cache, tmp, path>>
       PROVE  H!TypeOK'
  <2>1. [c EXCEPT !.pc = pc] \in Checks /\ check' = [check EXCEPT ![x] = [c EXCEPT !.pc = pc]]
    BY <1>1, <1>15 DEF Checks, H!Goto
  <2>2. QED BY <1>1, <1>15, <2>1, HealthOne
<1>16. CASE H!Write(x)
  <2>1. PICK t \in H!Report \cup {Broken} : content' = [content EXCEPT ![c.fd] = t]
    BY <1>2, <1>16 DEF H!Write
  <2>2. content' \in [H!File -> H!Report \cup {None, Broken}]
    BY <1>1, <2>1
  <2>3. H!Goto(x, "rename") /\ "rename" \in H!PC /\ UNCHANGED <<world, changes, checks, cache, tmp, path>>
    BY <1>16 DEF H!Write, H!outside, H!PC
  <2>4. QED BY <1>1, <1>15, <2>2, <2>3
<1>17. CASE H!Rename(x)
  <2>1. content' \in [H!File -> H!Report \cup {None, Broken}]
    BY <1>1, <1>17 DEF H!Rename
  <2>2. tmp' \in H!File \cup {None} /\ path' \in H!File \cup {None}
    BY <1>1, <1>17 DEF H!Rename
  <2>3. check' = [check EXCEPT ![x] = H!Idle] /\ UNCHANGED <<world, changes, checks, cache>>
    BY <1>17 DEF H!Rename, H!outside
  <2>4. QED BY <1>1, <2>1, <2>2, <2>3, HealthIdle, HealthOne
<1>18. QED
  BY <1>5, <1>6, <1>7, <1>8, <1>9, <1>12, <1>13, <1>14, <1>16, <1>17 DEF H!Step

LEMMA HealthNext == ASSUME H!TypeOK, [H!Next]_H!vars PROVE H!TypeOK'
<1>1. /\ world \in H!World /\ changes \in 0 .. MaxChanges /\ checks \in 0 .. MaxChecks
      /\ cache \in (SUBSET Model) \cup {None} /\ check \in [H!Actor -> Checks]
      /\ content \in [H!File -> H!Report \cup {None, Broken}]
      /\ tmp \in H!File \cup {None} /\ path \in H!File \cup {None}
  BY HealthTypes
<1>2. ASSUME NEW x \in H!Actor, NEW pc \in H!PC, H!Goto(x, pc), checks' \in 0 .. MaxChecks,
             UNCHANGED <<world, changes, cache, content, tmp, path>>
      PROVE  H!TypeOK'
  <2>1. check[x] \in Checks BY <1>1
  <2>2. [check[x] EXCEPT !.pc = pc] \in Checks /\ check' = [check EXCEPT ![x] = [check[x] EXCEPT !.pc = pc]]
    BY <1>2, <2>1 DEF Checks, H!Goto
  <2>3. QED BY <1>1, <1>2, <2>2, HealthOne
<1>3. MaxChanges \in Nat /\ MaxChecks \in Nat /\ Worlds \subseteq H!World /\ Loop \in H!Actor
  BY FilesAssumption DEF H!ModelHealthAssumption, H!Actor
<1>4. "due" \in H!PC BY DEF H!PC
<1>5. CASE H!Tick
  BY <1>1, <1>2, <1>3, <1>4, <1>5 DEF H!Tick, H!outside, H!files
<1>6. CASE H!Change
  <2>1. changes' \in 0 .. MaxChanges /\ world' \in H!World
    BY <1>1, <1>3, <1>6 DEF H!Change
  <2>2. QED BY <1>6, <2>1 DEF H!Change, H!TypeOK, H!files
<1>7. CASE H!Outdate
  BY <1>7 DEF H!Outdate, H!TypeOK, H!outside, H!files
<1>8. ASSUME NEW x \in H!Actor, H!Begin(x) PROVE H!TypeOK'
  <2>1. checks' \in 0 .. MaxChecks
    BY <1>1, <1>3, <1>8 DEF H!Begin
  <2>2. QED BY <1>1, <1>2, <1>4, <1>8, <2>1 DEF H!Begin, H!files
<1>9. ASSUME NEW x \in H!Actor, H!Die(x) PROVE H!TypeOK'
  <2>1. checks' \in 0 .. MaxChecks
    BY <1>1, <1>3, <1>9 DEF H!Die
  <2> DEFINE o == IF x = Loop THEN [H!Idle EXCEPT !.pc = "due"] ELSE H!Idle
  <2>2. check' = [check EXCEPT ![x] = o] /\ UNCHANGED <<world, changes, content, tmp, path>>
        /\ cache' \in (SUBSET Model) \cup {None}
    BY <1>1, <1>9 DEF H!Die, H!files
  <2>3. o \in Checks BY HealthIdle
  <2> HIDE DEF o
  <2>4. QED BY <1>1, <2>1, <2>2, <2>3, HealthOne
<1>10. CASE UNCHANGED H!vars
  BY <1>10 DEF H!vars, H!TypeOK
<1>11. QED BY <1>5, <1>6, <1>7, <1>8, <1>9, <1>10, HealthStep DEF H!Next

LEMMA HealthInvariant == H!Spec => []H!TypeOK
<1>1. H!Init => H!TypeOK BY HealthInit
<1>2. H!TypeOK /\ [H!Next]_H!vars => H!TypeOK' BY HealthNext
<1>3. QED BY <1>1, <1>2, PTL DEF H!Spec

-----------------------------------------------------------------------------
(* The temporary files.                                                    *)

Jobs == [pc : F!PC, verb : F!Verb, slot : F!Slot, part : F!Part, data : F!Content,
         ttl : 1 .. MaxTTL, todo : SUBSET F!Slot, seen : F!Time,
         gone : BOOLEAN, alone : BOOLEAN]

Trio == [data : F!Content, temp : F!Content, meta : F!Meta \cup {NoFile, Broken}]

LEMMA StoreTypes ==
    F!TypeOK <=> /\ disk \in [F!Slot -> Trio]
                 /\ time \in F!Time
                 /\ job \in [User -> Jobs]
                 /\ left \in [User -> SUBSET F!Job]
                 /\ kept \in [F!Slot -> F!Content]
                 /\ until \in [F!Slot -> 0 .. MaxAge + MaxTTL]
BY DEF F!TypeOK, Trio, Jobs

LEMMA IdleJob == F!Idle \in Jobs
<1>1. (CHOOSE n \in Name : TRUE) \in Name
  BY FilesAssumption DEF F!FileStoreAssumption
<1>2. F!Plain(CHOOSE n \in Name : TRUE) \in F!Slot
  BY <1>1 DEF F!Plain, F!Slot
<1>3. 1 \in 1 .. MaxTTL /\ 0 \in F!Time
  BY FilesAssumption DEF F!FileStoreAssumption, F!Time
<1> DEFINE s == F!Plain(CHOOSE n \in Name : TRUE)
<1> HIDE DEF s
<1>4. F!Idle = [pc |-> "idle", verb |-> "prune", slot |-> s,
                part |-> "data", data |-> NoFile, ttl |-> 1, todo |-> {}, seen |-> 0,
                gone |-> FALSE, alone |-> TRUE]
  BY DEF F!Idle, s
<1>5. s \in F!Slot BY <1>2 DEF s
<1>6. QED
  BY <1>3, <1>4, <1>5 DEF Jobs, F!PC, F!Verb, F!Part, F!Content

\* What is in a slot's three files.
PartContent(part) == IF part = "meta" THEN F!Meta \cup {NoFile, Broken} ELSE F!Content

\* A write into one of the three files of a slot.
LEMMA PartWritten ==
    ASSUME disk \in [F!Slot -> Trio], NEW s \in F!Slot, NEW part \in F!Part,
           NEW x \in PartContent(part),
           disk' = [disk EXCEPT ![s][part] = x]
    PROVE  disk' \in [F!Slot -> Trio]
<1>1. disk[s] \in Trio OBVIOUS
<1>2. disk' = [disk EXCEPT ![s] = [disk[s] EXCEPT ![part] = x]]
  OBVIOUS
<1> DEFINE r == [disk[s] EXCEPT ![part] = x]
<1>3. r \in Trio
  <2>1. CASE part = "data"
    <3>1. r = [disk[s] EXCEPT !.data = x] BY <2>1
    <3>2. x \in F!Content BY <2>1 DEF PartContent
    <3>3. QED BY <1>1, <3>1, <3>2 DEF Trio
  <2>2. CASE part = "temp"
    <3>1. r = [disk[s] EXCEPT !.temp = x] BY <2>2
    <3>2. x \in F!Content BY <2>2 DEF PartContent
    <3>3. QED BY <1>1, <3>1, <3>2 DEF Trio
  <2>3. CASE part = "meta"
    <3>1. r = [disk[s] EXCEPT !.meta = x] BY <2>3
    <3>2. x \in F!Meta \cup {NoFile, Broken} BY <2>3 DEF PartContent
    <3>3. QED BY <1>1, <3>1, <3>2 DEF Trio
  <2>4. QED BY <2>1, <2>2, <2>3 DEF F!Part
<1> HIDE DEF r
<1>4. QED BY <1>2, <1>3 DEF r

\* What is known of a client that is about to take a step.
LEMMA StoreFields ==
    ASSUME F!TypeOK, NEW c \in User
    PROVE  /\ disk \in [F!Slot -> Trio] /\ time \in F!Time /\ job \in [User -> Jobs]
           /\ left \in [User -> SUBSET F!Job] /\ kept \in [F!Slot -> F!Content]
           /\ until \in [F!Slot -> 0 .. MaxAge + MaxTTL]
           /\ job[c] \in Jobs /\ job[c].slot \in F!Slot /\ job[c].part \in F!Part
           /\ job[c].data \in F!Content /\ job[c].ttl \in 1 .. MaxTTL
           /\ disk[job[c].slot] \in Trio
<1>1. job \in [User -> Jobs] /\ disk \in [F!Slot -> Trio]
  BY StoreTypes
<1>2. job[c] \in Jobs /\ disk[job[c].slot] \in Trio
  BY <1>1 DEF Jobs
<1>3. QED BY <1>1, <1>2, StoreTypes DEF Jobs

\* A step that gives clients something to do, and keeps the rest to its types.
LEMMA StoreOne ==
    ASSUME disk' \in [F!Slot -> Trio], time' \in F!Time, job' \in [User -> Jobs],
           left' \in [User -> SUBSET F!Job], kept' \in [F!Slot -> F!Content],
           until' \in [F!Slot -> 0 .. MaxAge + MaxTTL]
    PROVE  F!TypeOK'
BY DEF F!TypeOK, Trio, Jobs

LEMMA StoreOpen == ASSUME F!TypeOK, NEW c \in User, F!Open(c) PROVE F!TypeOK'
<1> DEFINE s == job[c].slot
           o == [job[c] EXCEPT !.pc = "write", !.gone = FALSE]
<1>1. /\ disk \in [F!Slot -> Trio] /\ time \in F!Time /\ job \in [User -> Jobs]
      /\ left \in [User -> SUBSET F!Job] /\ kept \in [F!Slot -> F!Content]
      /\ until \in [F!Slot -> 0 .. MaxAge + MaxTTL]
      /\ job[c] \in Jobs /\ s \in F!Slot /\ job[c].part \in F!Part
  BY StoreFields
<1>2. /\ disk' = [disk EXCEPT ![s][job[c].part] = Broken]
      /\ job' = [job EXCEPT ![c] = o] /\ UNCHANGED <<time, left, kept, until>>
  BY <1>1 DEF F!Open
<1>3. o \in Jobs
  BY <1>1 DEF Jobs, F!PC
<1> HIDE DEF o, s
<1>4. disk' \in [F!Slot -> Trio]
  <2>1. Broken \in PartContent(job[c].part)
    BY DEF PartContent, F!Content
  <2>2. QED BY <1>1, <1>2, <2>1, PartWritten
<1>5. job' \in [User -> Jobs] BY <1>1, <1>2, <1>3
<1>6. QED BY <1>1, <1>2, <1>4, <1>5, StoreOne

\* A write ends in a time that can be written, or in a content that was there.
LEMMA StoreWrite == ASSUME F!TypeOK, NEW c \in User, F!Write(c) PROVE F!TypeOK'
<1> DEFINE s == job[c].slot
           part == job[c].part
           text == IF part = "meta" THEN F!Stamp(time + job[c].ttl) ELSE job[c].data
           next == CASE part = "temp" -> [pc |-> "load", part |-> "temp"]
                     [] part = "data" -> [pc |-> "open", part |-> "meta"]
                     [] part = "meta" -> [pc |-> IF job[c].verb = "upload" THEN "discard" ELSE "idle",
                                          part |-> "data"]
           o == IF next.pc = "idle" THEN F!Idle ELSE [job[c] EXCEPT !.pc = next.pc, !.part = next.part]
<1>1. /\ disk \in [F!Slot -> Trio] /\ job \in [User -> Jobs] /\ job[c] \in Jobs
      /\ left \in [User -> SUBSET F!Job] /\ s \in F!Slot /\ part \in F!Part
      /\ kept \in [F!Slot -> F!Content] /\ until \in [F!Slot -> 0 .. MaxAge + MaxTTL]
      /\ time \in F!Time /\ job[c].ttl \in 1 .. MaxTTL /\ job[c].data \in F!Content
  BY StoreFields
<1>2. job' = [job EXCEPT ![c] = o] /\ UNCHANGED <<time, left>>
  BY <1>1 DEF F!Write
<1>3. \/ disk' = disk
      \/ \E x \in {text, Broken} : disk' = [disk EXCEPT ![s][part] = x]
  BY DEF F!Write
<1>4. \/ /\ kept' = [kept EXCEPT ![s] = job[c].data]
         /\ until' = [until EXCEPT ![s] = time + job[c].ttl]
      \/ UNCHANGED <<kept, until>>
  BY DEF F!Write
<1>5. next.pc \in {"load", "open", "discard", "idle"} /\ next.part \in F!Part
  BY <1>1 DEF F!Part
<1> HIDE DEF next
<1>6. o \in Jobs
  <2>1. CASE next.pc = "idle"
    BY <2>1, IdleJob
  <2>2. CASE next.pc # "idle"
    <3>1. o = [job[c] EXCEPT !.pc = next.pc, !.part = next.part]
      BY <2>2
    <3>2. QED BY <1>1, <1>5, <3>1 DEF Jobs, F!PC
  <2>3. QED BY <2>1, <2>2
<1>7. time + job[c].ttl \in 0 .. MaxAge + MaxTTL
  BY <1>1, FilesAssumption DEF F!Time, F!FileStoreAssumption
<1>8. text \in PartContent(part)
  BY <1>1, <1>7 DEF F!Stamp, F!Meta, PartContent
<1>9. Broken \in PartContent(part)
  BY DEF PartContent, F!Content
<1> HIDE DEF o, text, s, part
<1>10. disk' \in [F!Slot -> Trio]
  BY <1>1, <1>3, <1>8, <1>9, PartWritten
<1>11. kept' \in [F!Slot -> F!Content] /\ until' \in [F!Slot -> 0 .. MaxAge + MaxTTL]
  BY <1>1, <1>4, <1>7
<1>12. job' \in [User -> Jobs] BY <1>1, <1>2, <1>6
<1>13. QED BY <1>1, <1>2, <1>10, <1>11, <1>12, StoreOne

LEMMA StoreLoad == ASSUME F!TypeOK, NEW c \in User, F!Load(c) PROVE F!TypeOK'
<1> DEFINE x == disk[job[c].slot].temp
           o == [job[c] EXCEPT !.pc = "open", !.part = "data", !.data = x]
<1>1. /\ disk \in [F!Slot -> Trio] /\ time \in F!Time /\ job \in [User -> Jobs]
      /\ left \in [User -> SUBSET F!Job] /\ kept \in [F!Slot -> F!Content]
      /\ until \in [F!Slot -> 0 .. MaxAge + MaxTTL]
      /\ job[c] \in Jobs /\ disk[job[c].slot] \in Trio
  BY StoreFields
<1>2. UNCHANGED <<disk, time, left, kept, until>>
      /\ (job' = [job EXCEPT ![c] = F!Idle] \/ job' = [job EXCEPT ![c] = o])
  BY DEF F!Load
<1>3. x \in F!Content
  BY <1>1 DEF Trio
<1> HIDE DEF x
<1>4. o \in Jobs
  BY <1>1, <1>3 DEF Jobs, F!PC, F!Part
<1> HIDE DEF o
<1>5. job' \in [User -> Jobs] BY <1>1, <1>2, <1>4, IdleJob
<1>6. QED BY <1>1, <1>2, <1>5, StoreOne

\* A prune goes from entry to entry.
LEMMA StorePrune == ASSUME F!TypeOK, NEW c \in User, F!Prune(c) PROVE F!TypeOK'
<1>1. /\ disk \in [F!Slot -> Trio] /\ time \in F!Time /\ job \in [User -> Jobs]
      /\ left \in [User -> SUBSET F!Job] /\ kept \in [F!Slot -> F!Content]
      /\ until \in [F!Slot -> 0 .. MaxAge + MaxTTL]
      /\ job[c] \in Jobs /\ job[c].slot \in F!Slot
  BY StoreFields
<1>2. UNCHANGED <<disk, time, left, kept, until>>
  BY DEF F!Prune
<1>3. job' \in [User -> Jobs]
  <2>1. ASSUME job' = [job EXCEPT ![c].pc = "done"]
        PROVE  job' \in [User -> Jobs]
    <3>1. [job[c] EXCEPT !.pc = "done"] \in Jobs BY <1>1 DEF Jobs, F!PC
    <3>2. QED BY <1>1, <2>1, <3>1
  <2>2. ASSUME NEW s \in job[c].todo, NEW e,
               job' = [job EXCEPT ![c].todo = @ \ {s}, ![c].slot = IF e THEN s ELSE @,
                                  ![c].pc = IF e THEN "unlink" ELSE "check"]
        PROVE  job' \in [User -> Jobs]
    <3> DEFINE t == IF e THEN s ELSE job[c].slot
               pc == IF e THEN "unlink" ELSE "check"
               o == [job[c] EXCEPT !.todo = @ \ {s}, !.slot = t, !.pc = pc]
    <3>1. t \in F!Slot /\ pc \in F!PC BY <1>1 DEF Jobs, F!PC
    <3>2. job' = [job EXCEPT ![c] = o] BY <1>1, <2>2
    <3> HIDE DEF t, pc
    <3>3. o \in Jobs BY <1>1, <3>1 DEF Jobs
    <3> HIDE DEF o
    <3>4. QED BY <1>1, <3>2, <3>3
  <2>3. QED BY <2>1, <2>2 DEF F!Prune
<1>4. QED BY <1>1, <1>2, <1>3, StoreOne

\* A file goes; others who have it open write into nothing.
LEMMA StoreUnlinks ==
    ASSUME F!TypeOK, NEW c \in User, NEW part \in F!Part, F!Unlink(c, job[c].slot, part),
           UNCHANGED <<time, left, kept, until>>
    PROVE  F!TypeOK'
<1> DEFINE s == job[c].slot
           o == IF part = "data" THEN [job[c] EXCEPT !.part = "meta", !.slot = s, !.pc = "unlink"]
                ELSE IF job[c].verb = "prune" THEN [job[c] EXCEPT !.part = "data", !.pc = "check"]
                ELSE F!Idle
<1>1. /\ disk \in [F!Slot -> Trio] /\ job \in [User -> Jobs] /\ job[c] \in Jobs /\ s \in F!Slot
      /\ time \in F!Time /\ left \in [User -> SUBSET F!Job]
      /\ kept \in [F!Slot -> F!Content] /\ until \in [F!Slot -> 0 .. MaxAge + MaxTTL]
  BY StoreFields
<1>2. disk' \in [F!Slot -> Trio]
  <2>1. disk' = [disk EXCEPT ![s][part] = NoFile]
    BY DEF F!Unlink
  <2>2. NoFile \in PartContent(part)
    BY DEF PartContent, F!Content
  <2> HIDE DEF s
  <2>3. QED BY <1>1, <2>1, <2>2, PartWritten
<1>3. job' = [e \in User |->
                 IF e # c THEN IF F!At(e, "write") /\ job[e].slot = s /\ job[e].part = part
                               THEN [job[e] EXCEPT !.gone = TRUE] ELSE job[e]
                 ELSE o]
  BY DEF F!Unlink
<1>4. o \in Jobs
  <2>1. [job[c] EXCEPT !.part = "meta", !.slot = s, !.pc = "unlink"] \in Jobs
    BY <1>1 DEF Jobs, F!PC, F!Part
  <2>2. [job[c] EXCEPT !.part = "data", !.pc = "check"] \in Jobs
    BY <1>1 DEF Jobs, F!PC, F!Part
  <2>3. QED BY <2>1, <2>2, IdleJob
<1> HIDE DEF o
<1>5. \A e \in User : job[e] \in Jobs /\ [job[e] EXCEPT !.gone = TRUE] \in Jobs
  BY <1>1 DEF Jobs
<1>6. job' \in [User -> Jobs]
  BY <1>3, <1>4, <1>5
<1>7. QED BY <1>1, <1>2, <1>6, StoreOne

\* A new job; who has worked on its slot until now is not alone there any more.
LEMMA StoreBegin == ASSUME F!TypeOK, NEW c \in User, F!Begin(c) PROVE F!TypeOK'
<1> DEFINE Slot(j) == [name |-> j.name, upload |-> j.verb = "upload"]
           Starts(j) == CASE j.verb = "put" -> "open" [] j.verb = "upload" -> "open"
                          [] j.verb = "remove" -> "unlink" [] j.verb = "prune" -> "check"
           New(j) == [F!Idle EXCEPT
                         !.pc = Starts(j), !.verb = j.verb, !.slot = Slot(j), !.data = j.data,
                         !.part = IF j.verb = "upload" THEN "temp" ELSE "data",
                         !.ttl = j.ttl, !.seen = time,
                         !.alone = \A e \in User \ {c} : ~F!Works(e, Slot(j)),
                         !.todo = IF j.verb = "prune"
                                  THEN {x \in F!Slot : disk[x].data # NoFile} ELSE {}]
<1>1. /\ disk \in [F!Slot -> Trio] /\ job \in [User -> Jobs]
      /\ time \in F!Time /\ left \in [User -> SUBSET F!Job]
      /\ kept \in [F!Slot -> F!Content] /\ until \in [F!Slot -> 0 .. MaxAge + MaxTTL]
  BY StoreFields
<1>2. PICK j \in left[c] :
          /\ left' = [left EXCEPT ![c] = @ \ {j}]
          /\ \/ UNCHANGED <<job, kept, until>>
             \/ /\ job' = [d \in User |->
                        IF d # c THEN [job[d] EXCEPT !.alone = @ /\ (j.verb = "prune" \/ ~F!Works(d, Slot(j)))]
                        ELSE New(j)]
                /\ UNCHANGED <<kept, until>> \/ F!Forget(Slot(j))
          /\ UNCHANGED <<disk, time>>
  BY DEF F!Begin
<1>3. j \in F!Job /\ left' \in [User -> SUBSET F!Job]
  BY <1>1, <1>2
<1>4. Slot(j) \in F!Slot /\ j.verb \in F!Verb /\ j.data \in F!Content /\ j.ttl \in 1 .. MaxTTL
  BY <1>3 DEF F!Job, F!Slot, F!Content
<1>5. New(j) \in Jobs
  <2> DEFINE pc == Starts(j)
             part == IF j.verb = "upload" THEN "temp" ELSE "data"
             alone == \A e \in User \ {c} : ~F!Works(e, Slot(j))
             todo == IF j.verb = "prune" THEN {x \in F!Slot : disk[x].data # NoFile} ELSE {}
             s == Slot(j)
  <2>1. pc \in F!PC /\ part \in F!Part /\ alone \in BOOLEAN /\ todo \in SUBSET F!Slot
    BY <1>4 DEF F!Verb, F!PC, F!Part
  <2>2. New(j) = [F!Idle EXCEPT !.pc = pc, !.verb = j.verb, !.slot = s, !.data = j.data, !.part = part,
                                !.ttl = j.ttl, !.seen = time, !.alone = alone, !.todo = todo]
    OBVIOUS
  <2> HIDE DEF pc, part, alone, todo, s, New
  <2>3. QED BY <1>1, <1>4, <2>1, <2>2, IdleJob DEF Jobs, s
<1>6. ASSUME NEW d \in User PROVE [job[d] EXCEPT !.alone = @ /\ (j.verb = "prune" \/ ~F!Works(d, Slot(j)))] \in Jobs
  <2>1. job[d] \in Jobs BY <1>1
  <2> DEFINE a == job[d].alone /\ (j.verb = "prune" \/ ~F!Works(d, Slot(j)))
  <2>2. a \in BOOLEAN OBVIOUS
  <2> HIDE DEF a
  <2>3. [job[d] EXCEPT !.alone = a] \in Jobs BY <2>1, <2>2 DEF Jobs
  <2>4. QED BY <2>3 DEF a
<1>7. job' \in [User -> Jobs]
  BY <1>1, <1>2, <1>5, <1>6
<1>8. kept' \in [F!Slot -> F!Content] /\ until' \in [F!Slot -> 0 .. MaxAge + MaxTTL]
  BY <1>1, <1>2 DEF F!Forget, F!Content
<1>9. QED BY <1>1, <1>2, <1>3, <1>7, <1>8, StoreOne

LEMMA StoreInit == ASSUME F!Init PROVE F!TypeOK
<1>1. /\ disk = [s \in F!Slot |-> [data |-> NoFile, temp |-> NoFile, meta |-> NoFile]] /\ time = 0
      /\ job = [c \in User |-> F!Idle] /\ left \in Crews
      /\ kept = [s \in F!Slot |-> NoFile] /\ until = [s \in F!Slot |-> 0]
  BY DEF F!Init
<1>2. disk \in [F!Slot -> Trio] /\ job \in [User -> Jobs] /\ kept \in [F!Slot -> F!Content]
  BY <1>1, IdleJob DEF Trio, F!Content
<1>3. /\ time \in F!Time /\ left \in [User -> SUBSET F!Job]
      /\ until \in [F!Slot -> 0 .. MaxAge + MaxTTL]
  BY <1>1, FilesAssumption DEF F!FileStoreAssumption, F!Time
<1>4. QED BY <1>2, <1>3, StoreTypes

LEMMA StoreStep == ASSUME F!TypeOK, [F!Next]_F!vars PROVE F!TypeOK'
<1>1. CASE F!Tick
  <2>1. time' \in F!Time /\ UNCHANGED <<disk, job, left, kept, until>>
    BY <1>1, StoreTypes, FilesAssumption DEF F!Tick, F!Time, F!FileStoreAssumption
  <2>2. QED BY <2>1 DEF F!TypeOK
<1>2. CASE UNCHANGED F!vars
  BY <1>2 DEF F!vars, F!TypeOK
<1>3. ASSUME NEW c \in User,
             \/ F!Begin(c) \/ F!Open(c) \/ F!Write(c) \/ F!Load(c) \/ F!Remove(c) \/ F!Discard(c)
             \/ F!Prune(c) \/ F!End(c) \/ F!Die(c)
      PROVE  F!TypeOK'
  <2>1. CASE F!Remove(c)
    <3>1. job[c].part \in F!Part BY StoreFields
    <3>2. QED BY <2>1, <3>1, StoreUnlinks DEF F!Remove
  <2>2. CASE F!Discard(c)
    <3>1. "temp" \in F!Part BY DEF F!Part
    <3>2. QED BY <2>2, <3>1, StoreUnlinks DEF F!Discard
  <2>3. CASE F!End(c) \/ F!Die(c)
    <3>1. job' = [job EXCEPT ![c] = F!Idle] /\ UNCHANGED <<disk, time, left, kept, until>>
      BY <2>3 DEF F!End, F!Die
    <3>2. job' \in [User -> Jobs] BY <3>1, StoreTypes, IdleJob
    <3>3. QED BY <3>1, <3>2, StoreTypes, StoreOne
  <2>4. QED BY <1>3, <2>1, <2>2, <2>3, StoreBegin, StoreOpen, StoreWrite, StoreLoad, StorePrune
<1>4. QED BY <1>1, <1>2, <1>3 DEF F!Next

LEMMA StoreInvariant == F!Spec => []F!TypeOK
<1>1. F!Init => F!TypeOK BY StoreInit
<1>2. F!TypeOK /\ [F!Next]_F!vars => F!TypeOK' BY StoreStep
<1>3. QED BY <1>1, <1>2, PTL DEF F!Spec

-----------------------------------------------------------------------------
(* The form of a report.                                                   *)

Before(d) == IF d.tags = <<>> THEN 1 ELSE 2

\* What stands in the lines of a mail.
ValueOf(d) == {d.subject, R!Split(d.tags), <<>>, <<"y">>}
HeaderOf(d) == [name : {"subject", "tags", "empty", "none"}, value : ValueOf(d)]

LEMMA TextLines ==
    ASSUME NEW text \in Seq(R!Line), NEW S, \A l \in R!Line : R!AsLine(l) \in S
    PROVE  /\ R!AsLines(text) \in Seq(S) /\ Len(R!AsLines(text)) = Len(text)
           /\ \A i \in 1 .. Len(text) : R!AsLines(text)[i] = R!AsLine(text[i])
<1>1. Len(text) \in Nat /\ DOMAIN text = 1 .. Len(text) /\ \A i \in 1 .. Len(text) : text[i] \in R!Line
  BY LenProperties, ElementOfSeq
<1>2. R!AsLines(text) = [i \in 1 .. Len(text) |-> R!AsLine(text[i])]
  BY <1>1 DEF R!AsLines
<1>3. R!AsLines(text) \in [1 .. Len(text) -> S]
  BY <1>1, <1>2
<1>4. R!AsLines(text) \in Seq(S)
  BY <1>1, <1>3, SeqDef
<1>5. DOMAIN R!AsLines(text) = 1 .. Len(text)
  BY <1>2
<1>6. Len(R!AsLines(text)) = Len(text)
  BY <1>1, <1>4, <1>5, LenProperties
<1>7. QED BY <1>2, <1>4, <1>6

\* toRFC2822String: the headers, an empty line, the body.
LEMMA MailForm ==
    ASSUME NEW d \in R!Report, Len(d.subject) = 1
    PROVE  LET L == R!Formatted(d)
               h == Before(d)
           IN  /\ L \in Seq(HeaderOf(d)) /\ Len(L) = h + 1 + Len(d.body) /\ Len(d.body) \in Nat
               /\ L[1] = R!Header("subject", d.subject)
               /\ d.tags # <<>> => L[2] = R!Header("tags", R!Split(d.tags))
               /\ L[h + 1] = R!Header("empty", <<>>)
               /\ \A k \in 1 .. Len(d.body) : L[h + 1 + k] = R!AsLine(d.body[k])
<1> DEFINE S == HeaderOf(d)
           a == <<R!Header("subject", <<Head(d.subject)>>)>>
           b == R!AsLines(Tail(d.subject))
           c == IF d.tags = <<>> THEN <<>> ELSE <<R!Header("tags", R!Split(d.tags))>>
           e == <<R!Header("empty", <<>>)>>
           f == R!AsLines(d.body)
<1>1. d.subject \in Seq(R!Line) /\ d.body \in Seq(R!Line) /\ Len(d.body) \in Nat
  BY LenProperties DEF R!Report
<1>2. d.subject = <<Head(d.subject)>> /\ Tail(d.subject) = <<>>
  <2>1. d.subject # <<>> BY EmptySeq
  <2>2. Head(d.subject) = d.subject[1] BY <1>1
  <2>3. d.subject = <<Head(d.subject)>>
    <3>1. <<Head(d.subject)>> \in Seq(R!Line) /\ Len(<<Head(d.subject)>>) = 1
      BY <1>1, <2>1, HeadTailProperties
    <3>2. QED BY <1>1, <2>2, <3>1, SeqEqual
  <2>4. Tail(d.subject) \in Seq(R!Line) /\ Len(Tail(d.subject)) = 0
    BY <1>1, <2>1, HeadTailProperties
  <2>5. QED BY <2>3, <2>4, EmptySeq
<1>3. /\ R!Header("subject", d.subject) \in S /\ R!Header("tags", R!Split(d.tags)) \in S
      /\ R!Header("empty", <<>>) \in S
  <2>1. d.subject \in ValueOf(d) /\ R!Split(d.tags) \in ValueOf(d) /\ <<>> \in ValueOf(d)
    BY DEF ValueOf
  <2>2. QED BY <2>1 DEF R!Header, HeaderOf
<1>4. \A l \in R!Line : R!AsLine(l) \in S
  <2>1. <<>> \in ValueOf(d) /\ <<"y">> \in ValueOf(d)
    BY DEF ValueOf
  <2>2. QED BY <2>1 DEF R!Line, R!AsLine, R!Header, HeaderOf
<1>5. a \in Seq(S) /\ Len(a) = 1 /\ a[1] = R!Header("subject", d.subject)
  BY <1>2, <1>3
<1>6. b \in Seq(S) /\ Len(b) = 0
  BY <1>2, <1>4, TextLines, EmptySeq
<1>7. c \in Seq(S) /\ Len(c) = Before(d) - 1
      /\ (d.tags # <<>> => c[1] = R!Header("tags", R!Split(d.tags)))
  BY <1>3 DEF Before
<1>8. e \in Seq(S) /\ Len(e) = 1 /\ e[1] = R!Header("empty", <<>>)
  BY <1>3
<1>9. f \in Seq(S) /\ Len(f) = Len(d.body) /\ \A k \in 1 .. Len(d.body) : f[k] = R!AsLine(d.body[k])
  BY <1>1, <1>4, TextLines
<1>10. R!Formatted(d) = a \o b \o c \o e \o f
  BY DEF R!Formatted
<1>11. Before(d) \in 1 .. 2 /\ (d.tags # <<>> => Before(d) = 2)
  BY DEF Before
<1> HIDE DEF S, a, b, c, e, f
<1>12. a \o b = a
  BY <1>5, <1>6, EmptySeq, ConcatEmptySeq
<1> DEFINE ac == a \o c
           ace == ac \o e
<1>13a. /\ ac \in Seq(S) /\ Len(ac) = Len(a) + Len(c)
        /\ \A i \in 1 .. Len(a) + Len(c) : ac[i] = IF i <= Len(a) THEN a[i] ELSE c[i - Len(a)]
  BY <1>5, <1>7, ConcatProperties
<1>13. ac \in Seq(S) /\ Len(ac) = Before(d) /\ ac[1] = a[1] /\ (d.tags # <<>> => ac[2] = c[1])
  BY <1>5, <1>7, <1>11, <1>13a
<1> HIDE DEF ac
<1>14a. /\ ace \in Seq(S) /\ Len(ace) = Len(ac) + Len(e)
        /\ \A i \in 1 .. Len(ac) + Len(e) : ace[i] = IF i <= Len(ac) THEN ac[i] ELSE e[i - Len(ac)]
  BY <1>8, <1>13, ConcatProperties
<1>14. ace \in Seq(S) /\ Len(ace) = Before(d) + 1 /\ ace[1] = a[1] /\ ace[Before(d) + 1] = e[1]
       /\ (d.tags # <<>> => ace[2] = c[1])
  BY <1>8, <1>11, <1>13, <1>14a
<1> HIDE DEF ace
<1>15. R!Formatted(d) = ace \o f
  BY <1>10, <1>12 DEF ac, ace
<1>16. /\ ace \o f \in Seq(S) /\ Len(ace \o f) = Before(d) + 1 + Len(d.body)
       /\ \A i \in 1 .. Before(d) + 1 + Len(d.body) :
              (ace \o f)[i] = IF i <= Before(d) + 1 THEN ace[i] ELSE f[i - (Before(d) + 1)]
  BY <1>9, <1>11, <1>14, ConcatProperties
<1>17. ASSUME NEW k \in 1 .. Len(d.body) PROVE (ace \o f)[Before(d) + 1 + k] = f[k]
  <2>1. /\ Before(d) + 1 + k \in 1 .. Before(d) + 1 + Len(d.body)
        /\ ~(Before(d) + 1 + k <= Before(d) + 1)
        /\ (Before(d) + 1 + k) - (Before(d) + 1) = k
    BY <1>1, <1>11
  <2>2. QED BY <1>16, <2>1
<1>18. /\ (ace \o f)[1] = a[1] /\ (ace \o f)[Before(d) + 1] = e[1]
       /\ (d.tags # <<>> => (ace \o f)[2] = c[1])
  BY <1>1, <1>11, <1>14, <1>16
<1>19. QED
  BY <1>1, <1>5, <1>7, <1>8, <1>9, <1>15, <1>16, <1>17, <1>18 DEF S

\* A set of indices has a largest one, and a smallest.
LEMMA EndsOf ==
    ASSUME NEW n \in Nat, NEW T, T \subseteq 1 .. n, T # {}
    PROVE  /\ \E i \in T : \A j \in T : j <= i
           /\ \E i \in T : \A j \in T : i <= j
<1> DEFINE R0 == OpToRel(<, Nat)
           U == {n - i : i \in T}
<1>1. \A i, j \in Nat : i < j => <<i, j>> \in R0
  BY DEF OpToRel
<1>2. IsWellFoundedOn(R0, Nat)
  BY NatLessThanWellFounded
<1> HIDE DEF R0
<1>3. \E i \in T : \A j \in T : i <= j
  <2>1. T \subseteq Nat BY SMT
  <2>2. PICK x \in T : \A y \in T : ~ (<<y, x>> \in R0)
    BY <1>2, <2>1, WFMin
  <2>3. ASSUME NEW y \in T, y < x PROVE FALSE
    <3>1. <<y, x>> \in R0 BY <1>1, <2>1, <2>3
    <3>2. QED BY <2>2, <3>1
  <2>4. QED BY <2>1, <2>3
<1>4. \E i \in T : \A j \in T : j <= i
  <2>1. U \subseteq Nat /\ U # {}
    <3>1. \A i \in T : n - i \in Nat BY SMT
    <3>2. QED BY <3>1
  <2> HIDE DEF U
  <2>2. PICK x \in U : \A y \in U : ~ (<<y, x>> \in R0)
    BY <1>2, <2>1, WFMin
  <2>3. ASSUME NEW y \in U PROVE ~(y < x)
    <3>1. SUFFICES ASSUME y < x PROVE FALSE OBVIOUS
    <3>2. <<y, x>> \in R0 BY <1>1, <2>1, <3>1
    <3>3. QED BY <2>2, <3>2
  <2>4. PICK i \in T : x = n - i BY DEF U
  <2>5. \A j \in T : ~(n - j < n - i) BY <2>3, <2>4 DEF U
  <2>6. QED BY <2>4, <2>5
<1>5. QED BY <1>3, <1>4

\* Trimmed takes off lines at the end, and these are empty.
LEMMA TrimmedPart ==
    ASSUME NEW S, NEW lines \in Seq(S)
    PROVE  LET t == R!Trimmed(lines)
           IN  /\ t \in Seq(S) /\ Len(t) \in 0 .. Len(lines)
               /\ \A i \in 1 .. Len(t) : t[i] = lines[i]
               /\ \A i \in Len(t) + 1 .. Len(lines) : lines[i].name = "empty"
<1> DEFINE full == {i \in 1 .. Len(lines) : lines[i].name # "empty"}
           last == CHOOSE i \in full : \A j \in full : j <= i
<1>1. DOMAIN lines = 1 .. Len(lines) /\ Len(lines) \in Nat /\ \A i \in 1 .. Len(lines) : lines[i] \in S
  BY LenProperties, ElementOfSeq
<1>2. R!Trimmed(lines) = IF full = {} THEN <<>> ELSE SubSeq(lines, 1, last)
  BY <1>1 DEF R!Trimmed
<1>3. CASE full = {}
  BY <1>1, <1>2, <1>3, EmptySeq
<1>4. CASE full # {}
  <2>1. \E i \in full : \A j \in full : j <= i
    BY <1>1, <1>4, EndsOf
  <2>2. last \in full /\ \A j \in full : j <= last
    BY <2>1
  <2> HIDE DEF last
  <2>3. /\ SubSeq(lines, 1, last) \in Seq(S) /\ Len(SubSeq(lines, 1, last)) = last
        /\ \A i \in 1 .. last : SubSeq(lines, 1, last)[i] = lines[i]
    BY <1>1, <2>2, SubSeqProperties
  <2>4. \A i \in last + 1 .. Len(lines) : lines[i].name = "empty"
    BY <1>1, <2>2
  <2>5. QED BY <1>1, <1>2, <1>4, <2>2, <2>3, <2>4
<1>5. QED BY <1>3, <1>4

LEMMA BeforeIs ==
    ASSUME NEW d
    PROVE  /\ Before(d) \in Nat /\ (Before(d) = 1 \/ Before(d) = 2)
           /\ d.tags # <<>> => Before(d) = 2
           /\ d.tags = <<>> => Before(d) = 1
BY DEF Before

LEMMA NoTags == R!Split(<<>>) = <<>>
BY DEF R!Split, R!FlattenSeq

\* The values of the headers.
LEMMA HeadersRead ==
    ASSUME NEW d \in R!Report, NEW lines \in Seq(HeaderOf(d)), Len(lines) = Before(d),
           lines[1] = R!Header("subject", d.subject),
           d.tags # <<>> => lines[2] = R!Header("tags", R!Split(d.tags))
    PROVE  R!Value(lines, "subject") = d.subject /\ R!Value(lines, "tags") = R!Split(d.tags)
<1>1. /\ DOMAIN lines = 1 .. Before(d) /\ Before(d) \in Nat /\ (Before(d) = 1 \/ Before(d) = 2)
      /\ (d.tags # <<>> => Before(d) = 2) /\ (d.tags = <<>> => Before(d) = 1)
  BY LenProperties, BeforeIs
<1>2. /\ lines[1].name = "subject" /\ lines[1].value = d.subject
      /\ d.tags # <<>> => lines[2].name = "tags" /\ lines[2].value = R!Split(d.tags)
  BY DEF R!Header
<1>3. \A name : R!Value(lines, name) =
          LET given == {i \in 1 .. Before(d) : lines[i].name = name}
          IN  IF given = {} THEN <<>>
              ELSE lines[CHOOSE i \in given : \A j \in given : j <= i].value
  BY <1>1 DEF R!Value
<1>4. R!Value(lines, "subject") = d.subject
  <2> DEFINE given == {i \in 1 .. Before(d) : lines[i].name = "subject"}
  <2>1. given = {1} BY <1>1, <1>2
  <2>2. R!Value(lines, "subject") = IF given = {} THEN <<>>
            ELSE lines[CHOOSE i \in given : \A j \in given : j <= i].value
    BY <1>3
  <2> HIDE DEF given
  <2>3. (CHOOSE i \in given : \A j \in given : j <= i) = 1
    BY <2>1
  <2>4. QED BY <1>2, <2>1, <2>2, <2>3
<1>5. R!Value(lines, "tags") = R!Split(d.tags)
  <2> DEFINE given == {i \in 1 .. Before(d) : lines[i].name = "tags"}
  <2>1. R!Value(lines, "tags") = IF given = {} THEN <<>>
            ELSE lines[CHOOSE i \in given : \A j \in given : j <= i].value
    BY <1>3
  <2>2. CASE d.tags = <<>>
    <3>1. given = {} BY <1>1, <1>2, <2>2
    <3> HIDE DEF given
    <3>2. QED BY <2>1, <2>2, <3>1, NoTags
  <2>3. CASE d.tags # <<>>
    <3>1. given = {2} BY <1>1, <1>2, <2>3
    <3> HIDE DEF given
    <3>2. (CHOOSE i \in given : \A j \in given : j <= i) = 2
      BY <3>1
    <3>3. QED BY <1>2, <2>1, <2>3, <3>1, <3>2
  <2>4. QED BY <2>2, <2>3
<1>6. QED BY <1>4, <1>5

\* The headers end at the empty line that toRFC2822String has put there.
LEMMA FirstEmpty ==
    ASSUME NEW d \in R!Report, Len(d.subject) = 1
    PROVE  LET L == R!Formatted(d)
               empties == {i \in DOMAIN L : L[i].name = "empty"}
           IN  /\ empties # {}
               /\ (CHOOSE i \in empties : \A j \in empties : i <= j) = Before(d) + 1
<1> DEFINE L == R!Formatted(d)
           h == Before(d)
           m == Len(d.body)
           empties == {i \in DOMAIN L : L[i].name = "empty"}
<1>1. /\ L \in Seq(HeaderOf(d)) /\ Len(L) = h + 1 + m /\ m \in Nat
      /\ L[1] = R!Header("subject", d.subject)
      /\ d.tags # <<>> => L[2] = R!Header("tags", R!Split(d.tags))
      /\ L[h + 1] = R!Header("empty", <<>>)
  BY MailForm
<1>2. /\ h \in Nat /\ (h = 1 \/ h = 2)
      /\ (d.tags # <<>> => h = 2) /\ (d.tags = <<>> => h = 1)
  BY BeforeIs
<1> HIDE DEF L, h, m
<1>3. DOMAIN L = 1 .. h + 1 + m
  BY <1>1, LenProperties
<1>4. L[1].name = "subject" /\ (h = 2 => L[2].name = "tags") /\ L[h + 1].name = "empty"
  BY <1>1, <1>2 DEF R!Header
<1>5. h + 1 \in empties
  BY <1>1, <1>2, <1>3, <1>4
<1>6. ASSUME NEW j \in empties PROVE j \in Int /\ h + 1 <= j
  BY <1>1, <1>2, <1>3, <1>4
<1> HIDE DEF empties
<1>7. \A i \in empties : (\A j \in empties : i <= j) => i = h + 1
  BY <1>2, <1>5, <1>6
<1>8. (CHOOSE i \in empties : \A j \in empties : i <= j) = h + 1
  BY <1>5, <1>6, <1>7
<1>9. QED BY <1>5, <1>8 DEF empties, L, h

\* parseRFC2822Format undoes toRFC2822String.
LEMMA ReadsBack ==
    ASSUME NEW d \in R!Report, Len(d.subject) = 1
    PROVE  LET P == R!Parsed(R!Formatted(d))
               n == Len(P.body)
           IN  /\ P.subject = d.subject /\ P.tags = R!Split(d.tags)
               /\ P.body = SubSeq(d.body, 1, n)
               /\ \A k \in n + 1 .. Len(d.body) : d.body[k] = "empty"
<1> DEFINE S == HeaderOf(d)
           L == R!Formatted(d)
           h == Before(d)
           m == Len(d.body)
           len == Len(L)
           headers == SubSeq(L, 1, h)
           rest == SubSeq(L, h + 2, Len(L))
           text == R!Trimmed(rest)
           body == [i \in DOMAIN text |-> R!AsText(text[i])]
<1>1. /\ L \in Seq(S) /\ len = h + 1 + m /\ m \in Nat
      /\ L[1] = R!Header("subject", d.subject)
      /\ d.tags # <<>> => L[2] = R!Header("tags", R!Split(d.tags))
      /\ \A k \in 1 .. m : L[h + 1 + k] = R!AsLine(d.body[k])
  BY MailForm
<1>2. /\ h \in Nat /\ (h = 1 \/ h = 2)
      /\ (d.tags # <<>> => h = 2) /\ (d.tags = <<>> => h = 1)
  BY BeforeIs
<1>3. d.body \in Seq(R!Line) /\ \A k \in 1 .. m : d.body[k] \in R!Line
  BY ElementOfSeq DEF R!Report
<1>4. R!Parsed(L) = [subject |-> R!Value(headers, "subject"), tags |-> R!Value(headers, "tags"),
                     body |-> body]
  <2> DEFINE empties == {i \in DOMAIN L : L[i].name = "empty"}
             first == IF empties = {} THEN 0 ELSE CHOOSE i \in empties : \A j \in empties : i <= j
  <2>1. first = h + 1 BY FirstEmpty
  <2>2. R!Parsed(L) = LET hs == IF first = 0 THEN L ELSE SubSeq(L, 1, first - 1)
                          b == R!Body(L, first)
                      IN  [subject |-> R!Value(hs, "subject"), tags |-> R!Value(hs, "tags"),
                           body |-> [i \in DOMAIN b |-> R!AsText(b[i])]]
    BY DEF R!Parsed
  <2> HIDE DEF first
  <2>3. first # 0 /\ first - 1 = h /\ first + 1 = h + 2 BY <1>2, <2>1
  <2>4. R!Body(L, first) = text BY <2>3 DEF R!Body
  <2>5. QED BY <2>2, <2>3, <2>4
<1> HIDE DEF L, h, S, m, len
<1>5. headers \in Seq(S) /\ Len(headers) = h /\ \A i \in 1 .. h : headers[i] = L[i]
  <2>1. \A i \in 1 .. h : L[i] \in S
    BY <1>1, <1>2, ElementOfSeq DEF len
  <2>2. /\ SubSeq(L, 1, h) \in Seq(S)
        /\ Len(SubSeq(L, 1, h)) = IF 1 <= h THEN h - 1 + 1 ELSE 0
        /\ \A i \in 1 .. h - 1 + 1 : SubSeq(L, 1, h)[i] = L[1 + i - 1]
    BY <1>2, <2>1, SubSeqProperties
  <2>3. QED BY <1>2, <2>2
<1>6. R!Value(headers, "subject") = d.subject /\ R!Value(headers, "tags") = R!Split(d.tags)
  <2> HIDE DEF headers
  <2>1. headers[1] = R!Header("subject", d.subject)
    BY <1>1, <1>2, <1>5
  <2>2. d.tags # <<>> => headers[2] = R!Header("tags", R!Split(d.tags))
    BY <1>1, <1>2, <1>5
  <2>3. QED BY <1>5, <2>1, <2>2, HeadersRead DEF S, h
<1>7. rest \in Seq(S) /\ Len(rest) = m
      /\ \A k \in 1 .. m : rest[k] = R!AsLine(d.body[k])
  <2>1. \A i \in h + 2 .. len : L[i] \in S
    BY <1>1, <1>2, ElementOfSeq DEF len
  <2>2. /\ rest \in Seq(S)
        /\ Len(rest) = IF h + 2 <= len THEN len - (h + 2) + 1 ELSE 0
        /\ \A i \in 1 .. len - (h + 2) + 1 : rest[i] = L[(h + 2) + i - 1]
    BY <1>1, <1>2, <2>1, SubSeqProperties DEF len
  <2> HIDE DEF rest
  <2>3. len - (h + 2) + 1 = m /\ (h + 2 <= len <=> 1 <= m)
    BY <1>1, <1>2
  <2>4. ASSUME NEW k \in 1 .. m PROVE rest[k] = R!AsLine(d.body[k])
    <3>1. (h + 2) + k - 1 = h + 1 + k BY <1>2
    <3>2. QED BY <1>1, <2>2, <2>3, <3>1
  <2>5. QED BY <1>1, <1>2, <2>2, <2>3, <2>4
<1> HIDE DEF rest
<1>8. /\ text \in Seq(S) /\ Len(text) \in 0 .. Len(rest)
      /\ \A i \in 1 .. Len(text) : text[i] = rest[i]
      /\ \A i \in Len(text) + 1 .. Len(rest) : rest[i].name = "empty"
  BY <1>7, TrimmedPart
<1> HIDE DEF text
<1>9. \A l \in R!Line : R!AsText(R!AsLine(l)) = l /\ (R!AsLine(l).name = "empty" => l = "empty")
  BY DEF R!Line, R!AsText, R!AsLine, R!Header
<1>10. \A i \in 1 .. Len(text) : R!AsText(text[i]) = d.body[i]
  BY <1>1, <1>3, <1>7, <1>8, <1>9
<1>11. DOMAIN text = 1 .. Len(text) /\ Len(text) \in Nat
  BY <1>8, LenProperties
<1>12. body = [i \in 1 .. Len(text) |-> d.body[i]]
  BY <1>10, <1>11
<1>13. body \in Seq(R!Line) /\ Len(body) = Len(text)
  <2>1. \A i \in 1 .. Len(text) : d.body[i] \in R!Line
    BY <1>1, <1>3, <1>7, <1>8
  <2>2. body \in [1 .. Len(text) -> R!Line]
    BY <1>12, <2>1
  <2>3. body \in Seq(R!Line)
    BY <1>11, <2>2, SeqDef
  <2>4. DOMAIN body = 1 .. Len(text)
    BY <1>12
  <2>5. QED BY <1>11, <2>3, <2>4, LenProperties
<1>14. body = SubSeq(d.body, 1, Len(body))
  <2>1. \A i \in 1 .. Len(text) : d.body[i] \in R!Line
    BY <1>1, <1>3, <1>7, <1>8
  <2>2. /\ SubSeq(d.body, 1, Len(text)) \in Seq(R!Line)
        /\ Len(SubSeq(d.body, 1, Len(text))) = IF 1 <= Len(text) THEN Len(text) - 1 + 1 ELSE 0
        /\ \A i \in 1 .. Len(text) - 1 + 1 : SubSeq(d.body, 1, Len(text))[i] = d.body[1 + i - 1]
    BY <1>11, <2>1, SubSeqProperties
  <2>3. Len(SubSeq(d.body, 1, Len(text))) = Len(text)
    BY <1>11, <2>2
  <2>4. \A i \in 1 .. Len(text) : SubSeq(d.body, 1, Len(text))[i] = d.body[i] /\ body[i] = d.body[i]
    BY <1>11, <1>12, <2>2
  <2> HIDE DEF body
  <2>5. QED BY <1>13, <2>2, <2>3, <2>4, SeqEqual
<1> HIDE DEF body, headers
<1>15. ASSUME NEW k \in Len(body) + 1 .. m PROVE d.body[k] = "empty"
  <2>1. k \in 1 .. m /\ k \in Len(text) + 1 .. Len(rest)
    BY <1>7, <1>11, <1>13
  <2>2. rest[k] = R!AsLine(d.body[k]) /\ rest[k].name = "empty"
    BY <1>7, <1>8, <2>1
  <2>3. d.body[k] \in R!Line
    BY <1>1, <1>3, <2>1
  <2>4. QED BY <1>9, <2>2, <2>3
<1>16. QED BY <1>4, <1>6, <1>14, <1>15 DEF L, m

-----------------------------------------------------------------------------
(* The store of the reports.                                               *)

\* The id of a report that is being made is nobody else's and was not used.
IdsAreFresh ==
    \A c \in Sender : use[c].pc \in {"write", "rename"} =>
        /\ use[c].id \in ReportId \ Olds /\ use[c].draft \in Drafts
        /\ sent[use[c].id] = None
        /\ \A e \in Sender \ {c} : use[e].id # use[c].id

\* A report has one file, of the older form only if it was there at first, and
\* a new one is what was submitted.
OneForm ==
    \A i \in ReportId :
        /\ i \notin Olds => json[i] = None
        /\ eml[i] # None => json[i] = None /\ (i \in Olds \/ sent[i] # None)
        /\ eml[i] \notin {None, R!Old} => sent[i] \in Drafts /\ eml[i] = R!Mail(sent[i])

\* What was deleted was there once and has no file.
DeletedOnce ==
    \A i \in deleted : eml[i] = None /\ json[i] = None /\ (i \in Olds \/ sent[i] # None)

ReportsInv == R!TypeOK /\ IdsAreFresh /\ OneForm /\ DeletedOnce

LEMMA ReportsInitially == R!Init => ReportsInv
BY DEF R!Init, ReportsInv, R!TypeOK, R!Content, R!Idle, IdsAreFresh, OneForm, DeletedOnce

\* A client that leaves its report, or has none yet.
LEMMA FreshKept ==
    ASSUME R!TypeOK, IdsAreFresh, NEW c \in Sender, NEW o,
           o.pc \notin {"write", "rename"}, o.id \in {use[c].id, None},
           use' = [use EXCEPT ![c] = o],
           \A i \in ReportId : sent'[i] = sent[i] \/ i = use[c].id
    PROVE  IdsAreFresh'
<1>1. use'[c] = o /\ \A e \in Sender \ {c} : use'[e] = use[e]
  BY DEF R!TypeOK
<1>2. None \notin ReportId
  BY FilesAssumption DEF R!ReportsAssumption
<1>3. QED BY <1>1, <1>2 DEF IdsAreFresh

\* Steps that change no file.
LEMMA ReportsQuiet ==
    ASSUME ReportsInv, NEW c \in Sender,
           R!Begin(c) \/ R!Submit(c) \/ R!Write(c) \/ R!Show(c) \/ R!Die(c)
    PROVE  ReportsInv'
<1>1. UNCHANGED <<eml, json, sent, deleted>>
  BY DEF R!Begin, R!Submit, R!Write, R!Show, R!Die
<1>2. OneForm' /\ DeletedOnce'
  BY <1>1 DEF ReportsInv, OneForm, DeletedOnce
<1>3. R!TypeOK' /\ IdsAreFresh'
  <2> USE DEF ReportsInv, R!TypeOK, IdsAreFresh, R!At
  <2>1. CASE R!Begin(c)
    <3> DEFINE o == [use[c] EXCEPT !.pc = "migrate", !.todo = {i \in ReportId : json[i] # None}]
    <3>1. use' = [use EXCEPT ![c] = o] BY <2>1 DEF R!Begin
    <3>2. R!TypeOK'
      <4>1. o \in [pc : {"idle", "migrate", "ready", "write", "rename"}, id : ReportId \cup {None},
                   draft : Drafts \cup {None}, todo : SUBSET ReportId]
        <5> HIDE DEF o
        <5>1. use[c] \in [pc : {"idle", "migrate", "ready", "write", "rename"}, id : ReportId \cup {None},
                          draft : Drafts \cup {None}, todo : SUBSET ReportId]
          OBVIOUS
        <5>2. {i \in ReportId : json[i] # None} \in SUBSET ReportId
          OBVIOUS
        <5> HIDE DEF ReportsInv, R!TypeOK, IdsAreFresh
        <5>3. QED BY <5>1, <5>2 DEF o
      <4> HIDE DEF o
      <4>2. QED BY <1>1, <3>1, <4>1
    <3>3. o.pc = "migrate" /\ o.id = use[c].id OBVIOUS
    <3> HIDE DEF o
    <3>4. IdsAreFresh'
      <4> HIDE DEF R!TypeOK, IdsAreFresh
      <4>1. R!TypeOK /\ IdsAreFresh OBVIOUS
      <4>2. \A i \in ReportId : sent'[i] = sent[i] BY <1>1
      <4>3. QED BY <3>1, <3>3, <4>1, <4>2, FreshKept
    <3>5. QED BY <3>2, <3>4
  <2>2. CASE R!Submit(c)
    <3>1. PICK i \in ReportId \ Olds, d \in Drafts :
              /\ sent[i] = None /\ \A b \in Sender : use[b].id # i
              /\ use' = [use EXCEPT ![c].pc = "write", ![c].id = i, ![c].draft = d]
      BY <2>2 DEF R!Submit
    <3>2. QED BY <1>1, <3>1
  <2>3. CASE R!Write(c) BY <1>1, <2>3 DEF R!Write
  <2>4. CASE R!Show(c) \/ R!Die(c)
    <3>1. use' = [use EXCEPT ![c] = R!Idle] BY <2>4 DEF R!Show, R!Die
    <3>2. R!TypeOK' BY <1>1, <3>1 DEF R!Idle
    <3>3. R!Idle.pc = "idle" /\ R!Idle.id = None BY DEF R!Idle
    <3>4. IdsAreFresh'
      <4> HIDE DEF R!TypeOK, IdsAreFresh
      <4>1. R!TypeOK /\ IdsAreFresh OBVIOUS
      <4>2. \A i \in ReportId : sent'[i] = sent[i] BY <1>1
      <4>3. QED BY <3>1, <3>3, <4>1, <4>2, FreshKept
    <3>5. QED BY <3>2, <3>4
  <2>5. QED BY <2>1, <2>2, <2>3, <2>4
<1>4. QED BY <1>2, <1>3 DEF ReportsInv

LEMMA ReportsMigrate ==
    ASSUME ReportsInv, NEW c \in Sender, R!Migrate(c) PROVE ReportsInv'
<1>1. UNCHANGED <<sent, deleted>> BY DEF R!Migrate
<1>2. /\ use' \in [Sender -> [pc : {"idle", "migrate", "ready", "write", "rename"},
                               id : ReportId \cup {None}, draft : Drafts \cup {None},
                               todo : SUBSET ReportId]]
      /\ use'[c].pc \in {"migrate", "ready"}
      /\ \A e \in Sender : use'[e].id = use[e].id /\ use'[e].draft = use[e].draft
                           /\ (e # c => use'[e].pc = use[e].pc)
  BY DEF R!Migrate, ReportsInv, R!TypeOK, R!At
<1>3. IdsAreFresh'
  BY <1>1, <1>2 DEF ReportsInv, IdsAreFresh
<1>4. CASE UNCHANGED <<eml, json>>
  BY <1>1, <1>2, <1>3, <1>4 DEF ReportsInv, R!TypeOK, OneForm, DeletedOnce
<1>5. ASSUME NEW i \in ReportId, eml[i] = None, json[i] # None, R!Renamed(i) PROVE ReportsInv'
  <2>1. json[i] = R!Old /\ i \in Olds /\ i \notin deleted
    BY <1>5 DEF ReportsInv, R!TypeOK, OneForm, DeletedOnce
  <2>2. eml' = [eml EXCEPT ![i] = R!Old] /\ json' = [json EXCEPT ![i] = None]
    BY <1>5, <2>1 DEF R!Renamed
  <2>3. R!TypeOK'
    BY <1>1, <1>2, <2>2 DEF ReportsInv, R!TypeOK, R!Content
  <2>4. OneForm' /\ DeletedOnce'
    BY <1>1, <2>1, <2>2 DEF ReportsInv, R!TypeOK, OneForm, DeletedOnce
  <2>5. QED BY <1>3, <2>3, <2>4 DEF ReportsInv
<1>6. QED BY <1>4, <1>5 DEF R!Migrate, ReportsInv, R!TypeOK

LEMMA ReportsChange ==
    ASSUME ReportsInv, NEW c \in Sender, R!Rename(c) \/ R!Delete(c) PROVE ReportsInv'
<1>0. None \notin Drafts
  BY FilesAssumption DEF R!ReportsAssumption
<1>1. UNCHANGED json /\ use' = [use EXCEPT ![c] = R!Idle]
  BY DEF R!Rename, R!Delete
<1>2. CASE R!Rename(c)
  <2> DEFINE i == use[c].id
             d == use[c].draft
  <2>1. /\ i \in ReportId \ Olds /\ d \in Drafts /\ sent[i] = None
        /\ \A e \in Sender \ {c} : use[e].id # i
    BY <1>2 DEF R!Rename, R!At, ReportsInv, IdsAreFresh
  <2>2. /\ eml' = [eml EXCEPT ![i] = R!Mail(d)] /\ sent' = [sent EXCEPT ![i] = d]
        /\ deleted' = deleted
    BY <1>2 DEF R!Rename
  <2> HIDE DEF i, d
  <2>3. R!TypeOK'
    BY <1>1, <2>1, <2>2 DEF ReportsInv, R!TypeOK, R!Idle, R!Content
  <2>4. IdsAreFresh'
    <3>1. R!Idle.pc = "idle" /\ R!Idle.id = None BY DEF R!Idle
    <3>2. \A x \in ReportId : sent'[x] = sent[x] \/ x = use[c].id
      BY <2>1, <2>2 DEF ReportsInv, R!TypeOK, i
    <3>3. R!TypeOK /\ IdsAreFresh BY DEF ReportsInv
    <3>4. QED BY <1>1, <3>1, <3>2, <3>3, FreshKept
  <2>5. json[i] = None /\ i \notin deleted
    BY <2>1 DEF ReportsInv, OneForm, DeletedOnce
  <2>6. sent'[i] = d /\ eml'[i] = R!Mail(d) /\ d # None
        /\ \A x \in ReportId \ {i} : sent'[x] = sent[x] /\ eml'[x] = eml[x]
    BY <1>0, <2>1, <2>2 DEF ReportsInv, R!TypeOK
  <2>7. OneForm'
    BY <1>1, <2>1, <2>5, <2>6 DEF ReportsInv, OneForm
  <2>8. DeletedOnce'
    BY <1>1, <2>1, <2>2, <2>5, <2>6 DEF ReportsInv, R!TypeOK, DeletedOnce
  <2>9. QED BY <2>3, <2>4, <2>7, <2>8 DEF ReportsInv
<1>3. CASE R!Delete(c)
  <2>1. PICK i \in ReportId :
            /\ eml' = [eml EXCEPT ![i] = None]
            /\ deleted' = IF eml[i] = None THEN deleted ELSE deleted \cup {i}
    BY <1>3 DEF R!Delete
  <2>2. sent' = sent BY <1>3 DEF R!Delete
  <2>3. R!TypeOK'
    BY <1>1, <2>1, <2>2 DEF ReportsInv, R!TypeOK, R!Idle, R!Content
  <2>4. IdsAreFresh'
    <3>1. R!Idle.pc = "idle" /\ R!Idle.id = None BY DEF R!Idle
    <3>2. R!TypeOK /\ IdsAreFresh BY DEF ReportsInv
    <3>3. QED BY <1>1, <2>2, <3>1, <3>2, FreshKept
  <2>5. OneForm' /\ DeletedOnce'
    BY <1>1, <2>1, <2>2 DEF ReportsInv, R!TypeOK, OneForm, DeletedOnce
  <2>6. QED BY <2>3, <2>4, <2>5 DEF ReportsInv
<1>4. QED BY <1>2, <1>3

LEMMA ReportsStep == ASSUME ReportsInv, [R!Next]_(R!vars) PROVE ReportsInv'
<1>1. CASE UNCHANGED R!vars
  BY <1>1 DEF R!vars, ReportsInv, R!TypeOK, IdsAreFresh, OneForm, DeletedOnce
<1>2. QED
  BY <1>1, ReportsQuiet, ReportsMigrate, ReportsChange DEF R!Next

LEMMA ReportsInvariant == R!Spec => []ReportsInv
<1>1. ReportsInv /\ [R!Next]_(R!vars) => ReportsInv'
  BY ReportsStep
<1>2. QED BY <1>1, ReportsInitially, PTL DEF R!Spec

\* Delete, migrateLegacySuffix: a deleted report is gone for good.
THEOREM DeletedStaysGone == R!Spec => []DeletedIsGone
<1>1. ReportsInv => DeletedIsGone
  BY DEF ReportsInv, DeletedOnce, DeletedIsGone, R!DeletedIsGone, R!Listed
<1>2. QED BY <1>1, ReportsInvariant, PTL

\* Create, toRFC2822String, parseRFC2822Format: whatever is submitted is there
\* whole, and a report with a subject of one line reads as it was sent, but for
\* commas in tags and empty lines at its end.
THEOREM ReportsReadBack == R!Spec => []ReportReadsBack
<1>1. ReportsInv => ReportReadsBack
  <2> SUFFICES ASSUME ReportsInv, NEW i \in ReportId
               PROVE  /\ eml[i] # Broken
                      /\ eml[i] \notin {None, Broken, R!Old} /\ Len(sent[i].subject) = 1 =>
                            /\ R!Seen(i).subject = sent[i].subject
                            /\ R!Seen(i).tags = R!Split(sent[i].tags)
                            /\ LET n == Len(R!Seen(i).body) IN
                                  /\ R!Seen(i).body = SubSeq(sent[i].body, 1, n)
                                  /\ \A k \in n + 1 .. Len(sent[i].body) : sent[i].body[k] = "empty"
    BY DEF ReportReadsBack, R!ReportReadsBack
  <2>1. Drafts \subseteq R!Report /\ Broken \notin {None, R!Old} \cup {R!Mail(d) : d \in Drafts}
    BY FilesAssumption DEF R!ReportsAssumption
  <2>2. eml[i] \notin {None, R!Old} => sent[i] \in Drafts /\ eml[i] = R!Mail(sent[i])
    BY DEF ReportsInv, OneForm
  <2>3. eml[i] # Broken
    BY <2>1, <2>2
  <2>4. ASSUME eml[i] \notin {None, Broken, R!Old}, Len(sent[i].subject) = 1
        PROVE  LET P == R!Seen(i)
                   n == Len(P.body)
               IN  /\ P.subject = sent[i].subject /\ P.tags = R!Split(sent[i].tags)
                   /\ P.body = SubSeq(sent[i].body, 1, n)
                   /\ \A k \in n + 1 .. Len(sent[i].body) : sent[i].body[k] = "empty"
    <3>1. sent[i] \in R!Report /\ eml[i] = R!Mail(sent[i])
      BY <2>1, <2>2, <2>4
    <3>2. R!Seen(i) = R!Parsed(R!Formatted(sent[i]))
      BY <3>1 DEF R!Seen, R!Mail
    <3>3. QED BY <2>4, <3>1, <3>2, ReadsBack
  <2>5. QED BY <2>3, <2>4
<1>2. QED BY <1>1, ReportsInvariant, PTL

-----------------------------------------------------------------------------
(* The settings that the console edits.                                    *)

\* A save that nobody has crossed finds the file as it has left it.
SavesAlone ==
    \A p \in Page :
        /\ ~Y!At(p, "idle") => save[p].text \in Y!Document
        /\ save[p].pc \in {"truncate", "write", "saved"} => save[p].orig \in Y!Document \cup {Broken}
        /\ Y!At(p, "write") /\ ~between[p] => yaml = None
        /\ Y!At(p, "saved") /\ ~between[p] => yaml = Y!Merged(save[p].orig, save[p].text)

SettingsInv == Y!TypeOK /\ SavesAlone

\* A hollow value is of its kind.
LEMMA HollowNode ==
    ASSUME NEW kind \in {"list", "map"}, NEW c \in Comment \cup {None}
    PROVE  Y!Hollow(kind, c) \in Y!Node
BY DEF Y!Hollow, Y!Node, Y!List, Y!Map

LEMMA ReplacedNode ==
    ASSUME NEW o \in Y!Node, NEW n \in Y!Node
    PROVE  Y!Replaced(o, n) \in Y!Node
<1>1. o.comment \in Comment \cup {None}
  BY DEF Y!Node, Y!Leaf, Y!List, Y!Map
<1>2. CASE n.kind = "scalar" \/ (o.kind = "list" /\ n.kind = "list")
  <2>1. Y!Replaced(o, n) = [n EXCEPT !.comment = o.comment]
    BY <1>2 DEF Y!Replaced
  <2>2. QED BY <1>1, <2>1 DEF Y!Node, Y!Leaf, Y!List, Y!Map
<1>3. CASE ~(n.kind = "scalar" \/ (o.kind = "list" /\ n.kind = "list"))
  <2>1. Y!Replaced(o, n) = Y!Hollow(n.kind, o.comment)
    BY <1>3 DEF Y!Replaced
  <2>2. n.kind \in {"list", "map"}
    BY <1>3 DEF Y!Node, Y!Leaf, Y!List, Y!Map
  <2>3. QED BY <1>1, <2>1, <2>2, HollowNode
<1>4. QED BY <1>2, <1>3

\* Within a mapping there are only scalars.
LEMMA ReplacedLeaf ==
    ASSUME NEW o \in Y!Leaf \cup {None}, NEW n \in Y!Leaf \cup {None}
    PROVE  /\ Y!Merged2(o, n) \in Y!Leaf \cup {None}
           /\ Y!Merged2(o, n) = IF o = None THEN n ELSE IF n = None THEN o
                                ELSE [n EXCEPT !.comment = o.comment]
BY DEF Y!Merged2, Y!Replaced, Y!Leaf

\* The values of two mappings.
LEMMA MergedMap ==
    ASSUME NEW o \in Y!Node, NEW n \in Y!Node, o.kind = "map", n.kind = "map"
    PROVE  /\ Y!MergedNode(o, n) \in Y!Node \cup {None}
           /\ Y!MergedNode(o, n) = Y!Wanted(o, n)
<1>1. o \in Y!Map /\ n \in Y!Map
  BY DEF Y!Node, Y!Leaf, Y!List, Y!Map
<1> DEFINE v == [s \in Sub |-> Y!Merged2(o.value[s], n.value[s])]
           w == [s \in Sub |->
                    IF o.value[s] = None THEN n.value[s] ELSE IF n.value[s] = None THEN o.value[s]
                    ELSE [n.value[s] EXCEPT !.comment = o.value[s].comment]]
<1>2. \A s \in Sub : o.value[s] \in Y!Leaf \cup {None} /\ n.value[s] \in Y!Leaf \cup {None}
  BY <1>1 DEF Y!Map
<1>3. v \in [Sub -> Y!Leaf \cup {None}] /\ v = w
  BY <1>2, ReplacedLeaf
<1>4. [o EXCEPT !.value = v] \in Y!Map
  BY <1>1, <1>3 DEF Y!Map
<1> HIDE DEF v, w
<1>5. CASE o = None \/ n = None
  BY <1>5 DEF Y!MergedNode, Y!Wanted
<1>6. CASE o # None /\ n # None
  <2>1. Y!MergedNode(o, n) = [o EXCEPT !.value = v]
    BY <1>6 DEF Y!MergedNode, v
  <2>2. Y!Wanted(o, n) = [o EXCEPT !.value = w]
    BY <1>6 DEF Y!Wanted, w
  <2>3. QED BY <1>3, <1>4, <2>1, <2>2 DEF Y!Node
<1>7. QED BY <1>5, <1>6

\* mergeYAMLNodes gives what is wanted, or a hollow value where kinds differ.
LEMMA MergedIsWanted ==
    ASSUME NEW o \in Y!Node \cup {None}, NEW n \in Y!Node \cup {None}
    PROVE  /\ Y!MergedNode(o, n) \in Y!Node \cup {None}
           /\ \/ Y!MergedNode(o, n) = Y!Wanted(o, n)
              \/ /\ o # None /\ n # None /\ o.kind # n.kind
                 /\ Y!MergedNode(o, n) = Y!Hollow(n.kind, o.comment)
<1>1. CASE o = None \/ n = None
  BY <1>1 DEF Y!MergedNode, Y!Wanted
<1>2. CASE o # None /\ n # None /\ o.kind = "map" /\ n.kind = "map"
  BY <1>2, MergedMap
<1>3. CASE o # None /\ n # None /\ ~(o.kind = "map" /\ n.kind = "map")
  <2> DEFINE r == [n EXCEPT !.comment = o.comment]
  <2>1. o \in Y!Node /\ n \in Y!Node BY <1>3
  <2>2. Y!MergedNode(o, n) = Y!Replaced(o, n)
    BY <1>3 DEF Y!MergedNode
  <2>3. Y!Wanted(o, n) = r
    BY <1>3 DEF Y!Wanted
  <2>4. o.kind \in {"scalar", "list", "map"} /\ n.kind \in {"scalar", "list", "map"}
    BY <2>1 DEF Y!Node, Y!Leaf, Y!List, Y!Map
  <2>5. CASE n.kind = "scalar" \/ (o.kind = "list" /\ n.kind = "list")
    <3>1. Y!Replaced(o, n) = r
      BY <2>5 DEF Y!Replaced
    <3> HIDE DEF r
    <3>2. QED BY <2>1, <2>2, <2>3, <3>1, ReplacedNode
  <2>6. CASE ~(n.kind = "scalar" \/ (o.kind = "list" /\ n.kind = "list"))
    <3>1. o.kind # n.kind BY <1>3, <2>4, <2>6
    <3>2. Y!Replaced(o, n) = Y!Hollow(n.kind, o.comment) BY <2>6 DEF Y!Replaced
    <3>3. QED BY <1>3, <2>1, <2>2, <3>1, <3>2, ReplacedNode
  <2>7. QED BY <2>5, <2>6
<1>4. QED BY <1>1, <1>2, <1>3

LEMMA MergedDocument ==
    ASSUME NEW o \in Y!Document \cup {Broken}, NEW t \in Y!Document
    PROVE  Y!Merged(o, t) \in Y!Document
<1>1. CASE o = Broken BY <1>1 DEF Y!Merged
<1>2. CASE o # Broken
  <2>1. \A k \in Key : o[k] \in Y!Node \cup {None} /\ t[k] \in Y!Node \cup {None}
    BY <1>2 DEF Y!Document
  <2>2. \A k \in Key : Y!MergedNode(o[k], t[k]) \in Y!Node \cup {None}
    BY <2>1, MergedIsWanted
  <2>3. QED BY <1>2, <2>2 DEF Y!Merged, Y!Document
<1>3. QED BY <1>1, <1>2

LEMMA SettingsInitially == Y!Init => SettingsInv
BY FilesAssumption
   DEF Y!SettingsAssumption, Y!Init, SettingsInv, Y!TypeOK, SavesAlone, Y!Idle, Y!At

\* A step of one page.
LEMMA SettingsPage ==
    ASSUME SettingsInv, NEW p \in Page,
           Y!Save(p) \/ Y!Read(p) \/ Y!Truncate(p) \/ Y!Write(p) \/ Y!Told(p)
    PROVE  SettingsInv'
<1>0. /\ save[p].text \in Y!Document \cup {None}
      /\ save[p].orig \in Y!Document \cup {None, Broken}
      /\ saves \in Nat /\ MaxSaves \in Nat
  BY FilesAssumption DEF SettingsInv, Y!TypeOK, Y!SettingsAssumption
<1> USE DEF SettingsInv, Y!TypeOK, SavesAlone, Y!At
<1>1. CASE Y!Save(p)
  <2>1. PICK t \in Texts : save' = [save EXCEPT ![p] = [Y!Idle EXCEPT !.pc = "read", !.text = t]]
    BY <1>1 DEF Y!Save
  <2>2. t \in Y!Document BY FilesAssumption DEF Y!SettingsAssumption
  <2>3. /\ saves < MaxSaves /\ saves' = saves + 1
        /\ yaml' = yaml /\ between' = [between EXCEPT ![p] = FALSE]
    BY <1>1 DEF Y!Save
  <2>4. saves' \in 0 .. MaxSaves BY <1>0, <2>3
  <2>5. QED BY <2>1, <2>2, <2>3, <2>4 DEF Y!Idle
<1>2. CASE Y!Read(p)
  BY <1>0, <1>2 DEF Y!Read, Y!Idle
<1>3. CASE Y!Truncate(p)
  BY <1>0, <1>3 DEF Y!Truncate, Y!Crossed
<1>4. CASE Y!Write(p)
  <2>1. Y!Merged(save[p].orig, save[p].text) \in Y!Document
    BY <1>4, MergedDocument DEF Y!Write
  <2>2. QED BY <1>0, <1>4, <2>1 DEF Y!Write, Y!Crossed
<1>5. CASE Y!Told(p)
  BY <1>0, <1>5 DEF Y!Told, Y!Idle
<1>6. QED BY <1>1, <1>2, <1>3, <1>4, <1>5

LEMMA SettingsStep == ASSUME SettingsInv, [Y!Next]_(Y!vars) PROVE SettingsInv'
<1>1. CASE Y!Other
  BY <1>1, FilesAssumption
     DEF Y!Other, SettingsInv, Y!TypeOK, SavesAlone, Y!At, Y!SettingsAssumption
<1>2. CASE Y!Die
  BY <1>2 DEF Y!Die, Y!Idle, SettingsInv, Y!TypeOK, SavesAlone, Y!At
<1>3. CASE UNCHANGED Y!vars
  BY <1>3 DEF Y!vars, SettingsInv, Y!TypeOK, SavesAlone, Y!At
<1>4. QED BY <1>1, <1>2, <1>3, SettingsPage DEF Y!Next

LEMMA SettingsInvariant == Y!Spec => []SettingsInv
<1>1. SettingsInv /\ [Y!Next]_(Y!vars) => SettingsInv'
  BY SettingsStep
<1>2. QED BY <1>1, SettingsInitially, PTL DEF Y!Spec

\* saveYAMLWithComments, mergeYAMLNodes: whatever the file and the text are, a
\* save that nobody has crossed puts the user's values into the file, beside the
\* comments and the keys that were there, or a hollow value of the new kind.
THEOREM SavesTakeEffect == Y!Spec => []SaveTakesEffect
<1>1. SettingsInv => SaveTakesEffect
  <2> SUFFICES ASSUME SettingsInv, NEW p \in Page, Y!Alone(p), NEW k \in Key
               PROVE  LET o == save[p].orig[k]
                          n == save[p].text[k]
                      IN  \/ yaml[k] = Y!Wanted(o, n)
                          \/ /\ o # None /\ n # None /\ o.kind # n.kind
                             /\ yaml[k] = Y!Hollow(n.kind, o.comment)
    BY DEF SaveTakesEffect, Y!SaveTakesEffect
  <2>1. /\ save[p].text \in Y!Document /\ save[p].orig \in Y!Document
        /\ yaml = Y!Merged(save[p].orig, save[p].text)
    BY DEF SettingsInv, SavesAlone, Y!Alone, Y!At
  <2>2. yaml[k] = Y!MergedNode(save[p].orig[k], save[p].text[k])
    BY <2>1 DEF Y!Merged, Y!Alone
  <2>3. save[p].orig[k] \in Y!Node \cup {None} /\ save[p].text[k] \in Y!Node \cup {None}
    BY <2>1 DEF Y!Document
  <2>4. QED BY <2>2, <2>3, MergedIsWanted
<1>2. QED BY <1>1, SettingsInvariant, PTL

-----------------------------------------------------------------------------
\* Timers, verdicts, temporary files, reports and settings keep to their types,
\* whatever their processes do side by side: no record, verdict or document is
\* ever made of a file that could not be parsed, and the writers of verdicts do
\* not run out of files.
THEOREM FileTypes == Spec /\ H!Spec /\ F!Spec /\ R!Spec /\ Y!Spec => []TypesOK
<1>1. TypeOK /\ H!TypeOK /\ F!TypeOK /\ ReportsInv /\ SettingsInv => TypesOK
  BY DEF TypesOK, ReportsInv, SettingsInv
<1>2. QED
  BY <1>1, TimerTypes, HealthInvariant, StoreInvariant, ReportsInvariant, SettingsInvariant, PTL
=============================================================================

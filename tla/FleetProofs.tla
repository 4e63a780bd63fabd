---------------------------- MODULE FleetProofs ----------------------------
(***************************************************************************)
(* Proofs about Fleet for any launchers, any pool of names and any number  *)
(* of terminals, and the types of Daemons.                                 *)
(***************************************************************************)
EXTENDS Processes, TLAPS

\* Launches under way and processes go by a name of the pool.
Named ==
    /\ \A l \in Launcher : op[l].at # "idle" => op[l].name \in Name
    /\ \A p \in Proc : ship[p].at # "none" => ship[p].name \in Name

\* A supervisor has the child it has started for its name.
Supervised ==
    \A n \in Name : sup[n] # None => ship[sup[n]].at # "none" /\ ship[sup[n]].name = n

\* Two launches of one name at once have doubled it.
OneLaunch ==
    \A k, l \in Launcher :
        op[k].at # "idle" /\ op[l].at # "idle" /\ op[k].name = op[l].name
            => k = l \/ op[k].name \in doubled

\* A launch that has looked has found nobody, and still nobody is there.
LookedInVain ==
    \A l \in Launcher :
        op[l].at = "checked" /\ op[l].how # "run" /\ op[l].name \notin doubled
            => Crew(op[l].name) = {}

\* Between the fork and the record there is nobody else.
ForkedAlone ==
    \A l \in Launcher :
        op[l].at = "forked" /\ op[l].name \notin doubled
            => Crew(op[l].name) \subseteq {op[l].proc}

\* A ship that is up is the one in the PID file, whoever has removed files of
\* that name meanwhile.
OnFile ==
    \A p \in Living :
        ship[p].name \notin doubled => ship[p].at = "boot" \/ pidFile[ship[p].name] = p

\* A ship that was told to stop has its marker: nobody else has cleared it.
ToldIsMarked ==
    \A p \in Proc :
        ship[p].at = "told" /\ ship[p].name \notin doubled \cup robbed
            => ship[p].name \in marker

\* A stop goes by a name of the pool, and has opened the pipe of a ship of
\* that name.
StopBound ==
    \A k \in Stopper :
        /\ stop[k].at # "idle" => stop[k].name \in Name
        /\ stop[k].at = "open" =>
              /\ stop[k].proc \in Proc
              /\ ship[stop[k].proc].at # "none" /\ ship[stop[k].proc].name = stop[k].name

\* The marker a stop has written is there until it tells the ship, unless
\* another exit handler has taken it.
StopMarked ==
    \A k \in Stopper :
        stop[k].at \in {"marked", "open"} /\ stop[k].name \notin robbed
            => stop[k].name \in marker

Stopping == StopBound /\ StopMarked

\* The inductive invariant.  OneShipPerName alone does not say why a launch
\* that has looked may fork.
IInv ==
    /\ TypeOK
    /\ Named
    /\ Supervised
    /\ OneLaunch
    /\ LookedInVain
    /\ ForkedAlone
    /\ OnFile
    /\ ToldIsMarked
    /\ Stopping
    /\ OneShipPerName

USE DEF stops

LEMMA InitInv == Init => IInv
<1> SUFFICES ASSUME Init PROVE IInv
  OBVIOUS
<1> USE FleetAssumption, PoolAssumption DEF Init, NoShip, NoOp, NoStop, Living, Crew
<1>1. TypeOK
  BY DEF TypeOK, RegistryTypeOK, RegistryInit, ShipState, OpState, StopState, How, Beat
<1>2. Named /\ Supervised /\ OneLaunch /\ LookedInVain /\ ForkedAlone /\ OnFile /\ ToldIsMarked
  BY DEF Named, Supervised, OneLaunch, LookedInVain, ForkedAlone, OnFile, ToldIsMarked
<1>3. OneShipPerName /\ Stopping
  BY DEF OneShipPerName, Stopping, StopBound, StopMarked
<1>4. QED
  BY <1>1, <1>2, <1>3 DEF IInv

-----------------------------------------------------------------------------
(* The registry keeps its types whatever is done to it.                    *)

LEMMA RegistryTypes ==
    ASSUME RegistryTypeOK, NEW n, NEW w \in Writer, NEW b \in Beat
    PROVE  /\ (WriteReservation(n, w) \/ Reserve(n, w) \/ DoRelease(n) \/ DoGC)
                => resv' \in [Name -> Writer \cup {"free"}]
           /\ DoStatus(n, b) => beat' \in [Name -> Beat]
BY DEF RegistryTypeOK, WriteReservation, Reserve, DoRelease, DoGC, DoStatus

LEMMA WritesIsWriter == \A how : Writes(how) \in Writer
BY DEF Writes, Writer

-----------------------------------------------------------------------------
(* Launches up to the fork.                                                *)

\* A process that is a ship's by now was it before.
NoneComes ==
    \A p \in Proc :
        /\ ship'[p].name = ship[p].name
        /\ ship[p].at \in {"none", "zombie", "dead"} => ship'[p].at \in {"none", "zombie", "dead"}
        /\ ship[p].at = "none" <=> ship'[p].at = "none"

\* Who is there and who is on the way.
Alone ==
    Named /\ Supervised /\ OneLaunch /\ LookedInVain /\ ForkedAlone /\ OneShipPerName

\* Steps that only end launches and ships.
LEMMA LeaversKeep ==
    ASSUME IInv, NoneComes, doubled \subseteq doubled',
           \A l \in Launcher : op'[l] = op[l] \/ op'[l] = NoOp,
           \A n \in Name : sup'[n] = sup[n] \/ sup'[n] = None
    PROVE  Alone'
<1>1. \A n \in Name : Crew(n)' \subseteq Crew(n)
  BY DEF NoneComes, Crew, Living
<1>2. Named' /\ Supervised'
  <2>0. \A n \in Name : sup[n] \in Proc \cup {None}
    BY DEF IInv, TypeOK
  <2>1. \A p \in Proc : ship'[p].at # "none" => ship'[p].name \in Name
    BY DEF NoneComes, IInv, Named
  <2>2. \A l \in Launcher : op'[l].at # "idle" => op'[l].name \in Name
    BY DEF IInv, Named, NoOp
  <2>3. Supervised'
    BY <2>0 DEF NoneComes, IInv, Supervised
  <2>4. QED
    BY <2>1, <2>2, <2>3 DEF Named
<1>3. OneLaunch'
  BY DEF IInv, OneLaunch, NoOp
<1>4. LookedInVain' /\ ForkedAlone'
  <2>1. \A l \in Launcher : op'[l].at # "idle" => op'[l] = op[l] /\ op[l].name \in Name
    BY DEF IInv, Named, NoOp
  <2>2. QED
    BY <1>1, <2>1 DEF IInv, LookedInVain, ForkedAlone
<1>5. OneShipPerName'
  BY <1>1 DEF IInv, OneShipPerName
<1>6. QED
  BY <1>2, <1>3, <1>4, <1>5 DEF Alone

\* Steps that leave the stops and the markers alone; a process that comes
\* takes no name from another.
LEMMA StopsKept ==
    ASSUME IInv, UNCHANGED <<marker, stops>>,
           \A p \in Proc : ship[p].at # "none" =>
                             ship'[p].at # "none" /\ ship'[p].name = ship[p].name
    PROVE  Stopping'
BY DEF IInv, Stopping, StopBound, StopMarked

\* Steps that change nothing but the registry.
LEMMA RegistryOnly ==
    ASSUME IInv, RegistryTypeOK', UNCHANGED <<files, sup, ship, op, doubled, stops>>
    PROVE  IInv'
<1>1. TypeOK'
  BY DEF IInv, TypeOK, files
<1>2. Alone'
  BY LeaversKeep DEF NoneComes
<1>3. OnFile' /\ ToldIsMarked'
  BY DEF IInv, OnFile, ToldIsMarked, Living, files
<1>s. Stopping'
  BY StopsKept DEF files
<1>4. QED
  BY <1>1, <1>2, <1>3, <1>s DEF IInv, Alone

\* isShipRunning, LaunchShip: whoever goes on has looked and found nobody, or
\* does not look, or has crossed another launch.
LEMMA CheckKeeps ==
    ASSUME IInv, NEW l \in Launcher, NEW how \in How, NEW n \in Name,
           op[l] = NoOp, CheckRunning(l, how, n), RegistryTypeOK',
           UNCHANGED <<pipe, marker, sup, ship, stops>>
    PROVE  IInv'
<1> USE FleetAssumption, PoolAssumption
<1>1. /\ op' = [op EXCEPT ![l] = [@ EXCEPT !.at = "checked", !.how = how, !.name = n]]
      /\ doubled' = IF Overlaps(l, n) THEN doubled \cup {n} ELSE doubled
      /\ \/ how = "run" /\ pidFile' = pidFile
         \/ how # "run" /\ ~Running(n) /\ pidFile' = [pidFile EXCEPT ![n] = None]
  BY DEF CheckRunning, RunCmd, Begin, DropStalePid
<1>2. op'[l] = [at |-> "checked", how |-> how, name |-> n, proc |-> None]
  <2>1. op'[l] = [NoOp EXCEPT !.at = "checked", !.how = how, !.name = n]
    BY <1>1 DEF IInv, TypeOK
  <2>2. QED
    BY <2>1 DEF NoOp
<1>3. \A k \in Launcher \ {l} : op'[k] = op[k]
  BY <1>1 DEF IInv, TypeOK
<1>4. TypeOK'
  <2>1. op'[l] \in OpState
    BY <1>2 DEF OpState, Name
  <2>2. op' \in [Launcher -> OpState]
    BY <1>1, <1>3, <2>1 DEF IInv, TypeOK
  <2>3. pidFile' \in [Name -> Proc \cup {None}]
    BY <1>1 DEF IInv, TypeOK
  <2>4. QED
    BY <1>1, <2>2, <2>3 DEF IInv, TypeOK
<1>5. Named' /\ Supervised'
  BY <1>2, <1>3 DEF IInv, Named, Supervised
<1>6. doubled \subseteq doubled'
  BY <1>1
<1>7. n \notin doubled' => \A k \in Launcher \ {l} : op[k].at # "idle" => op[k].name # n
  <2>1. \A k \in Launcher : op[k].at \in {"idle", "checked", "forked"}
    BY DEF IInv, TypeOK, OpState
  <2>2. QED
    BY <1>1, <2>1 DEF Overlaps
<1>8. OneLaunch'
  BY <1>2, <1>3, <1>6, <1>7 DEF IInv, OneLaunch
<1>9. n \notin doubled' /\ how # "run" => Crew(n) = {}
  <2>1. SUFFICES ASSUME n \notin doubled', how # "run", NEW p \in Crew(n) PROVE FALSE
    BY DEF Crew
  <2>2. p \in Living /\ ship[p].name = n /\ ship[p].at \notin {"none", "zombie", "dead"}
    BY DEF Crew, Living
  <2>3. pidFile[n] = p
    BY <1>1, <1>6, <2>1, <2>2 DEF IInv, OnFile, Overlaps
  <2>4. p # None
    BY DEF Crew, Living, Proc
  <2>5. Running(n)
    BY <2>2, <2>3, <2>4 DEF Running, Signalled
  <2>6. QED
    BY <1>1, <2>1, <2>5
<1>10. \A m : Crew(m)' = Crew(m)
  BY DEF Crew, Living
<1>11. LookedInVain'
  BY <1>2, <1>3, <1>6, <1>9, <1>10 DEF IInv, LookedInVain
<1>12. ForkedAlone'
  BY <1>2, <1>3, <1>6, <1>10 DEF IInv, ForkedAlone
<1>13. OnFile'
  <2>1. SUFFICES ASSUME NEW p \in Living, ship[p].name \notin doubled', ship[p].at # "boot"
                 PROVE  pidFile'[ship[p].name] = p
    BY DEF OnFile, Living
  <2>2. pidFile[ship[p].name] = p /\ ship[p].at \notin {"none", "dead"} /\ p \in Proc
    BY <1>6, <2>1 DEF IInv, OnFile, Living
  <2>3. ship[p].name # n \/ pidFile' = pidFile
    BY <1>1, <2>2 DEF Running, Signalled, Proc
  <2>4. ship[p].name \in Name /\ pidFile \in [Name -> Proc \cup {None}]
    BY <2>2 DEF IInv, TypeOK, Named
  <2>5. QED
    BY <1>1, <2>2, <2>3, <2>4
<1>14. ToldIsMarked' /\ OneShipPerName'
  BY <1>6, <1>10 DEF IInv, ToldIsMarked, OneShipPerName
<1>s. Stopping'
  BY StopsKept
<1>15. QED
  BY <1>s, <1>4, <1>5, <1>8, <1>11, <1>12, <1>13, <1>14 DEF IInv

LEMMA LaunchStep ==
    ASSUME IInv, NEW l \in Launcher, NEW how \in How, NEW n \in Name,
           LaunchAny(l, how) \/ LaunchNamed(l, how, n) \/ Respawn(l, n)
    PROVE  IInv'
<1> USE WritesIsWriter, RegistryTypes
<1>0. RegistryTypeOK
  BY DEF IInv, TypeOK
<1>1. CASE LaunchAny(l, how)
  <2>1. PICK m \in Name :
          \/ CheckRunning(l, how, m) /\ WriteReservation(m, Writes(how))
          \/ /\ IF how = "scale" THEN DoRelease(m) ELSE WriteReservation(m, Writes(how))
             /\ UNCHANGED <<op, doubled, pidFile>>
    BY <1>1 DEF LaunchAny
  <2>2. UNCHANGED <<beat, pipe, marker, sup, ship, stops>> /\ op[l] = NoOp
    BY <1>1 DEF LaunchAny
  <2>3. resv' \in [Name -> Writer \cup {"free"}]
    BY <1>0, <2>1 DEF RegistryTypeOK, WriteReservation, DoRelease
  <2>4. RegistryTypeOK'
    BY <1>0, <2>2, <2>3 DEF RegistryTypeOK
  <2>5. QED
    BY <2>1, <2>2, <2>4, CheckKeeps, RegistryOnly DEF files
<1>2. CASE LaunchNamed(l, how, n)
  <2>1. UNCHANGED <<beat, pipe, marker, sup, ship, stops>> /\ op[l] = NoOp
    BY <1>2 DEF LaunchNamed
  <2>2. resv' \in [Name -> Writer \cup {"free"}]
    BY <1>0, <1>2 DEF RegistryTypeOK, LaunchNamed, Reserve, WriteReservation
  <2>3. RegistryTypeOK'
    BY <1>0, <2>1, <2>2 DEF RegistryTypeOK
  <2>4. CheckRunning(l, how, n) \/ UNCHANGED <<op, doubled, pidFile>>
    BY <1>2 DEF LaunchNamed
  <2>5. QED
    BY <2>1, <2>3, <2>4, CheckKeeps, RegistryOnly DEF files
<1>3. CASE Respawn(l, n)
  <2>1. RegistryTypeOK' /\ "respawn" \in How
    BY <1>0, <1>3 DEF Respawn, registry, RegistryTypeOK, How
  <2>2. QED
    BY <1>3, <2>1, CheckKeeps DEF Respawn
<1>4. QED
  BY <1>1, <1>2, <1>3

\* A launch that ends before the fork.
LEMMA FailsKeep ==
    ASSUME IInv, NEW l \in Launcher, LaunchFails(l)
    PROVE  IInv'
<1>1. /\ op' = [op EXCEPT ![l] = NoOp]
      /\ UNCHANGED <<beat, files, sup, ship, doubled, stops>>
  BY DEF LaunchFails
<1>2. TypeOK'
  <2>1. NoOp \in OpState
    BY PoolAssumption DEF NoOp, OpState, How
  <2>2. op' \in [Launcher -> OpState]
    BY <1>1, <2>1 DEF IInv, TypeOK
  <2>3. resv' \in [Name -> Writer \cup {"free"}]
    BY DEF LaunchFails, DoRelease, IInv, TypeOK, RegistryTypeOK
  <2>4. QED
    BY <1>1, <2>2, <2>3 DEF IInv, TypeOK, RegistryTypeOK, files
<1>3. Alone'
  <2>1. \A k \in Launcher : op'[k] = op[k] \/ op'[k] = NoOp
    BY <1>1 DEF IInv, TypeOK
  <2>2. QED
    BY <1>1, <2>1, LeaversKeep DEF NoneComes
<1>4. OnFile' /\ ToldIsMarked'
  BY <1>1 DEF IInv, OnFile, ToldIsMarked, Living, files
<1>s. Stopping'
  BY <1>1, StopsKept DEF files
<1>5. QED
  BY <1>s, <1>2, <1>3, <1>4 DEF IInv, Alone

-----------------------------------------------------------------------------
(* The fork, the record and the restart.                                   *)

\* LaunchShip: the terminal that is forked is alone, if the launch has looked
\* and nobody else has doubled the name.
LEMMA ForkKeeps ==
    ASSUME IInv, NEW l \in Launcher, Fork(l)
    PROVE  IInv'
<1> USE PoolAssumption
<1>0. PICK n \in Name : n = op[l].name
  BY DEF Fork, IInv, Named
<1>1. PICK p \in Proc :
        /\ Fresh(p)
        /\ ship' = [ship EXCEPT ![p] = [at |-> "boot", name |-> n, web |-> op[l].how = "web"]]
        /\ op' = [op EXCEPT ![l] = [@ EXCEPT !.at = "forked", !.proc = p]]
        /\ sup' = sup \/ sup' = [sup EXCEPT ![n] = p]
  BY <1>0 DEF Fork, StartChild
<1>2. /\ op[l].at = "checked" /\ op[l] \in OpState /\ op[l].name = n
      /\ ship[p].at = "none" /\ UNCHANGED <<resv, files, stops>>
      /\ doubled' = IF op[l].how = "run" THEN doubled \cup {n} ELSE doubled
      /\ beat' = IF op[l].how = "run" THEN [beat EXCEPT ![n] = "idle"] ELSE beat
  BY <1>0, <1>1 DEF Fork, Fresh, IInv, TypeOK, Named
<1>3. /\ op'[l].at = "forked" /\ op'[l].how = op[l].how /\ op'[l].name = n /\ op'[l].proc = p
      /\ \A k \in Launcher \ {l} : op'[k] = op[k]
  BY <1>1, <1>2 DEF IInv, TypeOK, OpState
<1>4. /\ ship'[p].at = "boot" /\ ship'[p].name = n
      /\ \A q \in Proc \ {p} : ship'[q] = ship[q]
  BY <1>1 DEF IInv, TypeOK
<1>5. TypeOK'
  <2>1. op'[l] \in OpState
    BY <1>1, <1>2 DEF OpState, IInv, TypeOK
  <2>2. op' \in [Launcher -> OpState]
    BY <1>1, <1>3, <2>1 DEF IInv, TypeOK
  <2>3. ship'[p] \in ShipState
    BY <1>1, <1>2 DEF IInv, TypeOK, ShipState, Name
  <2>4. ship' \in [Proc -> ShipState]
    BY <1>1, <1>4, <2>3 DEF IInv, TypeOK
  <2>5. sup' \in [Name -> Proc \cup {None}] /\ doubled' \subseteq Name
    BY <1>1, <1>2 DEF IInv, TypeOK
  <2>6. RegistryTypeOK'
    BY <1>2 DEF IInv, TypeOK, RegistryTypeOK, Beat
  <2>7. QED
    BY <1>2, <2>2, <2>4, <2>5, <2>6 DEF IInv, TypeOK, files
<1>6. Named' /\ Supervised'
  <2>1. Named'
    BY <1>2, <1>3, <1>4 DEF IInv, Named
  <2>2. \A m \in Name : sup[m] # None => sup[m] \in Proc \ {p}
    BY <1>2 DEF IInv, TypeOK, Supervised
  <2>3. \A m \in Name : sup'[m] = sup[m] \/ (m = n /\ sup'[m] = p)
    BY <1>1 DEF IInv, TypeOK
  <2>4. QED
    BY <1>4, <2>1, <2>2, <2>3 DEF IInv, Supervised
<1>7. doubled \subseteq doubled'
  BY <1>2
<1>8. OneLaunch'
  BY <1>2, <1>3, <1>7 DEF IInv, OneLaunch
<1>9. /\ \A m : m # n => Crew(m)' \subseteq Crew(m)
      /\ Crew(n)' \subseteq Crew(n) \cup {p}
  BY <1>4 DEF Crew, Living
<1>10. n \notin doubled' => Crew(n)' \subseteq {p}
  <2>1. n \notin doubled' => Crew(n) = {}
    BY <1>2 DEF IInv, LookedInVain
  <2>2. QED
    BY <1>9, <2>1
<1>11. \A k \in Launcher \ {l} : op[k].at # "idle" /\ op[k].name \notin doubled => op[k].name # n
  BY <1>2 DEF IInv, OneLaunch
<1>12. LookedInVain'
  BY <1>3, <1>7, <1>9, <1>11 DEF IInv, LookedInVain
<1>13. ForkedAlone'
  BY <1>3, <1>7, <1>9, <1>10, <1>11 DEF IInv, ForkedAlone
<1>14. OnFile'
  BY <1>2, <1>4, <1>7 DEF IInv, OnFile, Living, files
<1>15. ToldIsMarked'
  BY <1>2, <1>4, <1>7 DEF IInv, ToldIsMarked, files
<1>16. OneShipPerName'
  <2>1. SUFFICES ASSUME NEW m \in Name, m \notin doubled', NEW q \in Crew(m)', NEW r \in Crew(m)'
                 PROVE  q = r
    BY DEF OneShipPerName
  <2>2. CASE m = n
    BY <1>10, <2>1, <2>2
  <2>3. CASE m # n
    BY <1>7, <1>9, <2>1, <2>3 DEF IInv, OneShipPerName
  <2>4. QED
    BY <2>2, <2>3
<1>s. Stopping'
  BY <1>2, <1>4, StopsKept DEF files
<1>17. QED
  BY <1>s, <1>5, <1>6, <1>8, <1>12, <1>13, <1>14, <1>15, <1>16 DEF IInv

\* spawnSessionAt: what is recorded is the one ship of the name, if it lives.
LEMMA RecordKeeps ==
    ASSUME IInv, NEW l \in Launcher, Record(l)
    PROVE  IInv'
<1> DEFINE n == op[l].name
<1> USE PoolAssumption
<1>1. /\ op[l].at = "forked" /\ op[l] \in OpState /\ n \in Name
      /\ pidFile' = [pidFile EXCEPT ![n] = op[l].proc]
      /\ beat' = [beat EXCEPT ![n] = "active"]
      /\ op' = [op EXCEPT ![l] = NoOp]
      /\ UNCHANGED <<resv, pipe, marker, sup, ship, doubled, stops>>
  BY DEF Record, DoStatus, IInv, TypeOK, Named
<1>2. TypeOK'
  <2>1. op' \in [Launcher -> OpState]
    BY <1>1 DEF IInv, TypeOK, NoOp, OpState, How
  <2>2. pidFile' \in [Name -> Proc \cup {None}]
    BY <1>1 DEF IInv, TypeOK, OpState
  <2>3. RegistryTypeOK'
    BY <1>1 DEF IInv, TypeOK, RegistryTypeOK, Beat
  <2>4. QED
    BY <1>1, <2>1, <2>2, <2>3 DEF IInv, TypeOK
<1>3. Alone'
  <2>1. \A k \in Launcher : op'[k] = op[k] \/ op'[k] = NoOp
    BY <1>1 DEF IInv, TypeOK
  <2>2. QED
    BY <1>1, <2>1, LeaversKeep DEF NoneComes
<1>4. OnFile'
  <2>1. SUFFICES ASSUME NEW p \in Living, ship[p].name \notin doubled, ship[p].at # "boot"
                 PROVE  pidFile'[ship[p].name] = p
    BY <1>1 DEF OnFile, Living
  <2>2. pidFile[ship[p].name] = p /\ ship[p].name \in Name
    BY <2>1 DEF IInv, OnFile, Living, Named
  <2>3. ship[p].name = n => p = op[l].proc
    BY <1>1, <2>1 DEF IInv, ForkedAlone, Crew
  <2>4. QED
    BY <1>1, <2>2, <2>3 DEF IInv, TypeOK
<1>5. ToldIsMarked'
  BY <1>1 DEF IInv, ToldIsMarked
<1>s. Stopping'
  BY <1>1, StopsKept
<1>6. QED
  BY <1>s, <1>2, <1>3, <1>4, <1>5 DEF IInv, Alone

\* "run --exec" doubles its name, whoever else goes by it.
LEMMA ForegroundKeeps ==
    ASSUME IInv, NEW l \in Launcher, RunForeground(l)
    PROVE  IInv'
<1> USE PoolAssumption
<1>0. PICK n \in Name : n = op[l].name
  BY DEF RunForeground, IInv, Named
<1>1. PICK p \in Proc :
        Fresh(p) /\ ship' = [ship EXCEPT ![p] = [at |-> "fore", name |-> n, web |-> FALSE]]
  BY <1>0 DEF RunForeground
<1>2. /\ op[l].at = "checked" /\ op[l].name = n /\ ship[p].at = "none"
      /\ beat' = [beat EXCEPT ![n] = "idle"] /\ op' = [op EXCEPT ![l] = NoOp]
      /\ doubled' = doubled \cup {n} /\ UNCHANGED <<resv, files, sup, stops>>
  BY <1>0, <1>1 DEF RunForeground, DoStatus, Fresh, IInv, TypeOK, Named
<1>3. /\ ship'[p].at = "fore" /\ ship'[p].name = n
      /\ \A q \in Proc \ {p} : ship'[q] = ship[q]
      /\ op'[l] = NoOp /\ \A k \in Launcher \ {l} : op'[k] = op[k]
  BY <1>1, <1>2 DEF IInv, TypeOK
<1>4. TypeOK'
  <2>1. op' \in [Launcher -> OpState]
    BY <1>2 DEF IInv, TypeOK, NoOp, OpState, How
  <2>2. ship' \in [Proc -> ShipState]
    BY <1>1, <1>2 DEF IInv, TypeOK, ShipState, Name
  <2>3. RegistryTypeOK'
    BY <1>2 DEF IInv, TypeOK, RegistryTypeOK, Beat
  <2>4. QED
    BY <1>2, <2>1, <2>2, <2>3 DEF IInv, TypeOK, files
<1>5. Named' /\ Supervised' /\ OneLaunch'
  <2>1. \A m \in Name : sup[m] # None => sup[m] \in Proc \ {p}
    BY <1>2 DEF IInv, TypeOK, Supervised
  <2>2. Named' /\ OneLaunch'
    BY <1>2, <1>3 DEF IInv, Named, OneLaunch, NoOp
  <2>3. QED
    BY <1>2, <1>3, <2>1, <2>2 DEF IInv, Supervised
<1>6. \A m : m # n => Crew(m)' \subseteq Crew(m)
  BY <1>3 DEF Crew, Living
<1>7. LookedInVain' /\ ForkedAlone'
  <2>1. \A k \in Launcher : op'[k].at # "idle" => op'[k] = op[k]
    BY <1>3 DEF NoOp
  <2>2. \A m : m \notin doubled' => Crew(m)' \subseteq Crew(m) /\ m \notin doubled
    BY <1>2, <1>6
  <2>3. QED
    BY <2>1, <2>2 DEF IInv, LookedInVain, ForkedAlone
<1>8. OnFile' /\ ToldIsMarked'
  BY <1>2, <1>3 DEF IInv, OnFile, ToldIsMarked, Living, files
<1>9. OneShipPerName'
  BY <1>2, <1>6 DEF IInv, OneShipPerName
<1>s. Stopping'
  BY <1>2, <1>3, StopsKept DEF files
<1>10. QED
  BY <1>s, <1>4, <1>5, <1>7, <1>8, <1>9 DEF IInv

\* LaunchShip, the supervisor: a restart leaves the name to its new child, or
\* has doubled it.
LEMMA RestartKeeps ==
    ASSUME IInv, NEW l \in Launcher, NEW n \in Name, RestartShip(l, n)
    PROVE  IInv'
<1> DEFINE old == sup[n]
<1> USE PoolAssumption
<1>1. PICK p \in Proc :
        /\ Fresh(p)
        /\ ship' = [ship EXCEPT ![old] = [@ EXCEPT !.at = "dead", !.web = FALSE],
                                ![p] = [at |-> "boot", name |-> n, web |-> TRUE]]
        /\ sup' = [sup EXCEPT ![n] = p]
        /\ op' = [op EXCEPT ![l] = [at |-> "forked", how |-> "web", name |-> n, proc |-> p]]
  BY DEF RestartShip
<1>2. /\ op[l] = NoOp /\ old \in Proc \ {p} /\ ship[p].at = "none" /\ ship[old].name = n
      /\ doubled' = IF Crew(n) \ {old} # {} \/ Overlaps(l, n) THEN doubled \cup {n} ELSE doubled
      /\ UNCHANGED <<registry, files, stops>>
  BY <1>1 DEF RestartShip, Fresh, IInv, TypeOK, Supervised
<1>3. /\ op'[l] = [at |-> "forked", how |-> "web", name |-> n, proc |-> p]
      /\ \A k \in Launcher \ {l} : op'[k] = op[k]
  BY <1>1 DEF IInv, TypeOK
<1>4. /\ ship'[p] = [at |-> "boot", name |-> n, web |-> TRUE]
      /\ \A q \in Proc \ {p, old} : ship'[q] = ship[q]
      /\ ship'[old] = [ship[old] EXCEPT !.at = "dead", !.web = FALSE]
  BY <1>1, <1>2 DEF IInv, TypeOK
<1>5. ship' \in [Proc -> ShipState]
  <2>1. ship'[p] \in ShipState
    BY <1>4 DEF ShipState, Name
  <2>2. ship'[old] \in ShipState
    <3>1. ship[old] \in ShipState
      BY <1>2 DEF IInv, TypeOK
    <3>2. QED
      BY <1>4, <3>1 DEF ShipState
  <2>3. \A q \in Proc : ship'[q] \in ShipState
    BY <1>4, <2>1, <2>2 DEF IInv, TypeOK
  <2>4. QED
    BY <1>1, <2>3 DEF IInv, TypeOK
<1>6. TypeOK'
  <2>1. op' \in [Launcher -> OpState]
    BY <1>1 DEF IInv, TypeOK, OpState, How, Name
  <2>2. sup' \in [Name -> Proc \cup {None}] /\ doubled' \subseteq Name
    BY <1>1, <1>2 DEF IInv, TypeOK
  <2>3. QED
    BY <1>2, <1>5, <2>1, <2>2 DEF IInv, TypeOK, RegistryTypeOK, registry, files
<1>7. /\ ship'[old].at = "dead" /\ ship'[old].name = n
      /\ ship'[p].at = "boot" /\ ship'[p].name = n
      /\ \A q \in Proc \ {p} : ship'[q].name = ship[q].name
  <2>1. ship[old] \in ShipState
    BY <1>2 DEF IInv, TypeOK
  <2>2. ship'[old].at = "dead" /\ ship'[old].name = n
    BY <1>2, <1>4, <2>1 DEF ShipState
  <2>3. ship'[p].at = "boot" /\ ship'[p].name = n
    BY <1>4
  <2>4. \A q \in Proc \ {p, old} : ship'[q].name = ship[q].name
    BY <1>4
  <2>5. QED
    BY <1>2, <2>2, <2>3, <2>4
<1>8. Named' /\ Supervised'
  <2>1. \A q \in Proc : ship'[q].at # "none" => ship'[q].name \in Name
    BY <1>4, <1>7 DEF IInv, Named
  <2>2. \A k \in Launcher : op'[k].at # "idle" => op'[k].name \in Name
    BY <1>3 DEF IInv, Named
  <2>3. \A m \in Name : sup[m] # None => sup[m] \in Proc \ {p}
    BY <1>2 DEF IInv, TypeOK, Supervised
  <2>4. sup'[n] = p /\ \A m \in Name \ {n} : sup'[m] = sup[m]
    BY <1>1 DEF IInv, TypeOK
  <2>5. Supervised'
    BY <1>4, <1>7, <2>3, <2>4 DEF IInv, Supervised
  <2>6. QED
    BY <2>1, <2>2, <2>5 DEF Named
<1>9. doubled \subseteq doubled'
  BY <1>2
<1>10. n \notin doubled' => \A k \in Launcher \ {l} : op[k].at # "idle" => op[k].name # n
  <2>1. \A k \in Launcher : op[k].at \in {"idle", "checked", "forked"}
    BY DEF IInv, TypeOK, OpState
  <2>2. QED
    BY <1>2, <2>1 DEF Overlaps
<1>11. OneLaunch'
  BY <1>3, <1>9, <1>10 DEF IInv, OneLaunch
<1>12. \A m : m # n => Crew(m)' \subseteq Crew(m)
  BY <1>2, <1>4, <1>7 DEF Crew, Living
<1>13. n \notin doubled' => Crew(n)' \subseteq {p}
  <2>1. n \notin doubled' => Crew(n) \subseteq {old}
    BY <1>2
  <2>2. old \notin Crew(n)'
    BY <1>7 DEF Crew, Living
  <2>3. Crew(n)' \subseteq Crew(n) \cup {p, old}
    BY <1>4 DEF Crew, Living
  <2>4. QED
    BY <2>1, <2>2, <2>3
<1>14. LookedInVain' /\ ForkedAlone'
  BY <1>3, <1>9, <1>10, <1>12, <1>13 DEF IInv, LookedInVain, ForkedAlone
<1>15. OnFile' /\ ToldIsMarked'
  <2>1. \A q \in Proc \ {p, old} : ship'[q] = ship[q]
    BY <1>4
  <2>2. OnFile'
    BY <1>2, <1>7, <1>9, <2>1 DEF IInv, OnFile, Living, files
  <2>3. ToldIsMarked'
    BY <1>2, <1>7, <1>9, <2>1 DEF IInv, ToldIsMarked, files
  <2>4. QED
    BY <2>2, <2>3
<1>16. OneShipPerName'
  <2>1. SUFFICES ASSUME NEW m \in Name, m \notin doubled', NEW q \in Crew(m)', NEW r \in Crew(m)'
                 PROVE  q = r
    BY DEF OneShipPerName
  <2>2. CASE m = n
    BY <1>13, <2>1, <2>2
  <2>3. CASE m # n
    BY <1>9, <1>12, <2>1, <2>3 DEF IInv, OneShipPerName
  <2>4. QED
    BY <2>2, <2>3
<1>s. Stopping'
  BY <1>2, <1>4, <1>7, StopsKept DEF files
<1>17. QED
  BY <1>s, <1>6, <1>8, <1>11, <1>14, <1>15, <1>16 DEF IInv
-----------------------------------------------------------------------------
(* What processes do.                                                      *)

\* The terminal that is up has the PID file; nobody else of that name is up.
LEMMA BootKeeps ==
    ASSUME IInv, NEW p \in Proc, Boot(p)
    PROVE  IInv'
<1> USE PoolAssumption
<1>0. PICK n \in Name : n = ship[p].name
  BY DEF Boot, IInv, Named
<1>1. /\ ship[p].at = "boot" /\ ship[p] \in ShipState
      /\ ship' = [ship EXCEPT ![p].at = "run"]
      /\ pidFile' = [pidFile EXCEPT ![n] = p]
      /\ pipe' = pipe \cup {n}
      /\ UNCHANGED <<registry, marker, sup, op, doubled, stops>>
  BY <1>0 DEF Boot, IInv, TypeOK
<1>2. /\ ship'[p].at = "run" /\ ship'[p].name = n
      /\ \A q \in Proc \ {p} : ship'[q] = ship[q]
  BY <1>0, <1>1 DEF IInv, TypeOK, ShipState
<1>3. TypeOK'
  BY <1>1 DEF IInv, TypeOK, RegistryTypeOK, registry, ShipState
<1>4. Alone'
  <2>1. NoneComes
    BY <1>0, <1>1, <1>2 DEF NoneComes
  <2>2. QED
    BY <1>1, <2>1, LeaversKeep
<1>5. OnFile'
  <2>1. SUFFICES ASSUME NEW q \in Living, ship[q].name \notin doubled, q # p, ship[q].at # "boot"
                 PROVE  pidFile'[ship[q].name] = q
    BY <1>0, <1>1, <1>2 DEF OnFile, Living, IInv, TypeOK
  <2>2. pidFile[ship[q].name] = q /\ ship[q].name \in Name
    BY <2>1 DEF IInv, OnFile, Living, Named
  <2>3. ship[q].name # n
    BY <1>0, <1>1, <2>1 DEF IInv, OneShipPerName, Crew, Living
  <2>4. QED
    BY <1>1, <2>2, <2>3 DEF IInv, TypeOK
<1>6. ToldIsMarked'
  BY <1>1, <1>2 DEF IInv, ToldIsMarked
<1>s. Stopping'
  BY <1>0, <1>1, <1>2, StopsKept
<1>7. QED
  BY <1>s, <1>3, <1>4, <1>5, <1>6 DEF IInv, Alone

\* A ship that ends in whatever way stays in its files.
LEMMA EndKeeps ==
    ASSUME IInv, NEW p \in Proc, NEW a,
           a \in {"exit", "zombie", "dead"},
           ship[p].at \notin {"none", "zombie", "dead"},
           a = "exit" => ship[p].at = "run",
           ship' = [ship EXCEPT ![p].at = a],
           RegistryTypeOK',
           UNCHANGED <<files, sup, op, doubled, stops>>
    PROVE  IInv'
<1>1. /\ ship'[p].at = a /\ ship'[p].name = ship[p].name
      /\ \A q \in Proc \ {p} : ship'[q] = ship[q]
  BY DEF IInv, TypeOK, ShipState
<1>2. TypeOK'
  BY DEF IInv, TypeOK, ShipState, files
<1>3. Alone'
  BY <1>1, LeaversKeep DEF NoneComes
<1>4. OnFile'
  BY <1>1 DEF IInv, OnFile, Living, files
<1>5. ToldIsMarked'
  BY <1>1 DEF IInv, ToldIsMarked, files
<1>s. Stopping'
  BY <1>1, StopsKept DEF files
<1>6. QED
  BY <1>s, <1>2, <1>3, <1>4, <1>5 DEF IInv, Alone

LEMMA ReportQuitKeep ==
    ASSUME IInv, NEW p \in Proc, Report(p) \/ Quit(p)
    PROVE  IInv'
<1>1. CASE Report(p)
  <2>1. RegistryTypeOK'
    BY <1>1 DEF Report, DoStatus, IInv, TypeOK, RegistryTypeOK, Beat
  <2>2. QED
    BY <1>1, <2>1, RegistryOnly DEF Report
<1>2. CASE Quit(p)
  <2>1. RegistryTypeOK'
    BY <1>2 DEF Quit, registry, IInv, TypeOK, RegistryTypeOK
  <2>2. QED
    BY <1>2, <2>1, EndKeeps DEF Quit
<1>3. QED
  BY <1>1, <1>2

LEMMA KillKeeps ==
    ASSUME IInv, NEW p \in Proc, ForegroundEnds(p) \/ Kill(p)
    PROVE  IInv'
<1>1. PICK a \in {"zombie", "dead"} : ship' = [ship EXCEPT ![p].at = a]
  BY DEF ForegroundEnds, Kill, Over
<1>2. ship[p].at \notin {"none", "zombie", "dead"} /\ UNCHANGED <<files, sup, op, doubled, stops>>
  BY DEF ForegroundEnds, Kill
<1>3. RegistryTypeOK'
  BY DEF ForegroundEnds, Kill, DoStatus, DoRelease, registry, IInv, TypeOK, RegistryTypeOK, Beat
<1>4. QED
  BY <1>1, <1>2, <1>3, EndKeeps

\* OnExit: the marker that is cleared is its own, since it is alone.
LEMMA OnExitReadKeeps ==
    ASSUME IInv, NEW p \in Proc, OnExitRead(p)
    PROVE  IInv'
<1>0. PICK n \in Name : n = ship[p].name
  BY DEF OnExitRead, IInv, Named
<1>1. /\ ship[p].at \in {"told", "exit"}
      /\ ship' = [ship EXCEPT ![p].at = "leave"]
      /\ marker' = marker \ {n}
      /\ UNCHANGED <<pidFile, pipe, sup, op, doubled, stop>>
  BY <1>0 DEF OnExitRead
<1>r. robbed' = IF \E k \in Stopper : stop[k].name = n /\ stop[k].at \in {"marked", "open"}
                THEN robbed \cup {n} ELSE robbed
  BY <1>0 DEF OnExitRead
<1>2. /\ ship'[p].at = "leave" /\ ship'[p].name = n
      /\ \A q \in Proc \ {p} : ship'[q] = ship[q]
  BY <1>0, <1>1 DEF IInv, TypeOK, ShipState
<1>3. TypeOK'
  <2>1. RegistryTypeOK'
    BY <1>0 DEF OnExitRead, DoStatus, DoRelease, IInv, TypeOK, RegistryTypeOK, Beat
  <2>2. QED
    BY <1>1, <1>r, <2>1 DEF IInv, TypeOK, ShipState
<1>4. Alone'
  <2>1. NoneComes
    BY <1>0, <1>1, <1>2 DEF NoneComes
  <2>2. QED
    BY <1>1, <2>1, LeaversKeep
<1>5. OnFile'
  BY <1>0, <1>1, <1>2 DEF IInv, OnFile, Living
<1>6. ToldIsMarked'
  <2>1. SUFFICES ASSUME NEW q \in Proc, q # p, ship[q].at = "told",
                        ship[q].name \notin doubled \cup robbed
                 PROVE  ship[q].name \in marker'
    BY <1>1, <1>2, <1>r DEF ToldIsMarked
  <2>2. ship[q].name # n
    BY <1>0, <1>1, <2>1 DEF IInv, OneShipPerName, Crew, Living
  <2>3. QED
    BY <1>1, <2>1, <2>2 DEF IInv, ToldIsMarked
<1>s. Stopping'
  <2>1. StopBound'
    BY <1>0, <1>1, <1>2 DEF IInv, Stopping, StopBound
  <2>2. StopMarked'
    BY <1>1, <1>r DEF IInv, Stopping, StopMarked
  <2>3. QED
    BY <2>1, <2>2 DEF Stopping
<1>7. QED
  BY <1>s, <1>3, <1>4, <1>5, <1>6 DEF IInv, Alone

\* ... and so is the PID file it removes.
LEMMA OnExitRemoveKeeps ==
    ASSUME IInv, NEW p \in Proc, OnExitRemove(p)
    PROVE  IInv'
<1>0. PICK n \in Name : n = ship[p].name
  BY DEF OnExitRemove, IInv, Named
<1>1. PICK a \in {"zombie", "dead"} :
        /\ ship[p].at = "leave"
        /\ ship' = [ship EXCEPT ![p].at = a]
        /\ pipe' = pipe \ {n}
        /\ pidFile' = [pidFile EXCEPT ![n] = None]
        /\ UNCHANGED <<registry, marker, sup, op, doubled, stops>>
  BY <1>0 DEF OnExitRemove, Over
<1>2. /\ ship'[p].at = a /\ ship'[p].name = n
      /\ \A q \in Proc \ {p} : ship'[q] = ship[q]
  BY <1>0, <1>1 DEF IInv, TypeOK, ShipState
<1>3. TypeOK'
  BY <1>1 DEF IInv, TypeOK, RegistryTypeOK, registry, ShipState
<1>4. Alone'
  <2>1. NoneComes
    BY <1>0, <1>1, <1>2 DEF NoneComes
  <2>2. QED
    BY <1>1, <2>1, LeaversKeep
<1>5. OnFile'
  <2>1. SUFFICES ASSUME NEW q \in Living, ship[q].name \notin doubled, q # p, ship[q].at # "boot"
                 PROVE  pidFile'[ship[q].name] = q
    BY <1>1, <1>2 DEF OnFile, Living
  <2>2. pidFile[ship[q].name] = q /\ ship[q].name \in Name
    BY <2>1 DEF IInv, OnFile, Living, Named
  <2>3. ship[q].name # n
    BY <1>0, <1>1, <2>1 DEF IInv, OneShipPerName, Crew, Living
  <2>4. QED
    BY <1>1, <2>2, <2>3 DEF IInv, TypeOK
<1>6. ToldIsMarked'
  BY <1>1, <1>2 DEF IInv, ToldIsMarked
<1>s. Stopping'
  BY <1>0, <1>1, <1>2, StopsKept
<1>7. QED
  BY <1>s, <1>3, <1>4, <1>5, <1>6 DEF IInv, Alone

-----------------------------------------------------------------------------
(* Stops, the end of the web daemon and the passing of time.               *)

\* StopShip: a step of a stop that leaves the ships and the launches alone.
LEMMA StopStep ==
    ASSUME IInv, TypeOK', Stopping', UNCHANGED <<sup, ship, op>>,
           marker \subseteq marker', doubled \subseteq doubled',
           robbed \subseteq robbed' \cup marker',
           \A n \in Name : \/ pidFile'[n] = pidFile[n]
                           \/ n \in doubled' \/ ~Running(n)
    PROVE  IInv'
<1>1. Alone'
  BY LeaversKeep DEF NoneComes
<1>2. OnFile'
  <2>1. SUFFICES ASSUME NEW q \in Living, ship[q].name \notin doubled', ship[q].at # "boot"
                 PROVE  pidFile'[ship[q].name] = q
    BY DEF OnFile, Living
  <2>2. pidFile[ship[q].name] = q /\ ship[q].name \in Name
    BY <2>1 DEF IInv, OnFile, Living, Named
  <2>3. Running(ship[q].name)
    BY <2>1, <2>2, FleetAssumption DEF Running, Signalled, Living, Proc
  <2>4. QED
    BY <2>1, <2>2, <2>3
<1>3. ToldIsMarked'
  BY DEF IInv, ToldIsMarked
<1>4. QED
  BY <1>1, <1>2, <1>3 DEF IInv, Alone

LEMMA StopTypes ==
    ASSUME IInv, NEW k \in Stopper, NEW at \in {"past", "drop"}
    PROVE  /\ stop[k] \in StopState /\ NoStop \in StopState
           /\ [stop[k] EXCEPT !.at = at] \in StopState
           /\ [stop[k] EXCEPT !.at = at].name = stop[k].name
           /\ [stop[k] EXCEPT !.at = at].at = at
BY PoolAssumption DEF IInv, TypeOK, StopState, NoStop

\* A stop that goes on to a state of which nothing is asked.
LEMMA StopGoesOn ==
    ASSUME IInv, NEW k \in Stopper, stop[k].at # "idle",
           \/ stop' = [stop EXCEPT ![k] = NoStop]
           \/ \E at \in {"past", "drop"} : stop' = [stop EXCEPT ![k].at = at],
           UNCHANGED <<marker, robbed>>,
           \A p \in Proc : ship[p].at # "none" =>
                             ship'[p].at # "none" /\ ship'[p].name = ship[p].name
    PROVE  stop' \in [Stopper -> StopState] /\ Stopping'
<1>1. stop \in [Stopper -> StopState]
  BY DEF IInv, TypeOK
<1>2. /\ stop'[k] \in StopState
      /\ \/ stop'[k].at = "idle"
         \/ stop'[k].at \in {"past", "drop"} /\ stop'[k].name = stop[k].name
  <2>1. CASE stop' = [stop EXCEPT ![k] = NoStop]
    BY <1>1, <2>1, StopTypes DEF NoStop
  <2>2. ASSUME NEW at \in {"past", "drop"}, stop' = [stop EXCEPT ![k].at = at]
        PROVE  /\ stop'[k] \in StopState
               /\ stop'[k].at \in {"past", "drop"} /\ stop'[k].name = stop[k].name
    <3>1. stop'[k] = [stop[k] EXCEPT !.at = at]
      BY <1>1, <2>2
    <3>2. QED
      BY <3>1, StopTypes
  <2>3. QED
    BY <2>1, <2>2
<1>3. \A j \in Stopper \ {k} : stop'[j] = stop[j]
  BY <1>1
<1>4. stop' \in [Stopper -> StopState]
  BY <1>1, <1>2, <1>3
<1>5. StopBound' /\ StopMarked'
  BY <1>2, <1>3 DEF IInv, Stopping, StopBound, StopMarked
<1>6. QED
  BY <1>4, <1>5 DEF Stopping

\* The marker is there before the ship is told.
LEMMA SetMarkerKeeps ==
    ASSUME IInv, NEW k \in Stopper, NEW n \in Name, SetMarker(k, n)
    PROVE  IInv'
<1>1. /\ marker' = marker \cup {n}
      /\ stop' = [stop EXCEPT ![k] = [NoStop EXCEPT !.at = "marked", !.name = n]]
      /\ robbed' = robbed \ {n}
      /\ UNCHANGED <<registry, pidFile, pipe, sup, ship, op, doubled>>
  BY DEF SetMarker
<1>2. /\ stop'[k] = [at |-> "marked", name |-> n, proc |-> None]
      /\ \A j \in Stopper \ {k} : stop'[j] = stop[j]
  BY <1>1 DEF IInv, TypeOK, NoStop
<1>3. TypeOK'
  <2>1. stop'[k] \in StopState
    BY <1>2, PoolAssumption DEF StopState, Name
  <2>2. stop' \in [Stopper -> StopState]
    BY <1>1, <1>2, <2>1 DEF IInv, TypeOK
  <2>3. QED
    BY <1>1, <2>2 DEF IInv, TypeOK, RegistryTypeOK, registry
<1>4. Stopping'
  BY <1>1, <1>2 DEF IInv, Stopping, StopBound, StopMarked
<1>5. QED
  BY <1>1, <1>3, <1>4, StopStep

\* Who is found at the pipe goes by the name.
LEMMA OpenPipeKeeps ==
    ASSUME IInv, NEW k \in Stopper, OpenPipe(k)
    PROVE  IInv'
<1> DEFINE n == stop[k].name
<1>1. stop[k].at = "marked" /\ UNCHANGED <<registry, files, sup, ship, op, doubled, robbed>>
  BY DEF OpenPipe
<1>2. stop' \in [Stopper -> StopState] /\ Stopping'
  <2>1. CASE StopGoes(k, "past")
    BY <1>1, <2>1, StopGoesOn DEF StopGoes, files
  <2>2. CASE \E p \in Listening(n) :
               stop' = [stop EXCEPT ![k] = [@ EXCEPT !.at = "open", !.proc = p]]
    <3>1. PICK p \in Proc :
            /\ ship[p].at = "run" /\ ship[p].name = n
            /\ stop' = [stop EXCEPT ![k] = [@ EXCEPT !.at = "open", !.proc = p]]
      BY <2>2 DEF Listening, Crew, Living
    <3>2. stop \in [Stopper -> StopState] /\ stop[k] \in StopState
      BY DEF IInv, TypeOK
    <3>3. /\ stop'[k] = [stop[k] EXCEPT !.at = "open", !.proc = p]
          /\ \A j \in Stopper \ {k} : stop'[j] = stop[j]
      BY <3>1, <3>2
    <3>4. /\ stop'[k] \in StopState
          /\ stop'[k].at = "open" /\ stop'[k].name = n /\ stop'[k].proc = p
      BY <3>2, <3>3 DEF StopState
    <3>5. stop' \in [Stopper -> StopState]
      BY <3>1, <3>2, <3>3, <3>4
    <3>6. Stopping'
      BY <1>1, <3>1, <3>3, <3>4 DEF IInv, Stopping, StopBound, StopMarked, files
    <3>7. QED
      BY <3>5, <3>6
  <2>3. QED
    BY <2>1, <2>2 DEF OpenPipe
<1>3. TypeOK'
  BY <1>1, <1>2 DEF IInv, TypeOK, RegistryTypeOK, registry, files
<1>4. QED
  BY <1>1, <1>2, <1>3, StopStep DEF files

\* The ship that is told has its marker, unless another has taken it.
LEMMA TellKeeps ==
    ASSUME IInv, NEW k \in Stopper, Tell(k)
    PROVE  IInv'
<1> DEFINE p == stop[k].proc
<1>1. /\ stop[k].at = "open" /\ p \in Proc /\ stop[k].name = ship[p].name
      /\ stop' = [stop EXCEPT ![k].at = "past"]
      /\ UNCHANGED <<registry, files, sup, op, doubled, robbed>>
  BY DEF Tell, StopGoes, IInv, Stopping, StopBound
<1>2. \A q \in Proc :
        \/ ship'[q] = ship[q]
        \/ q = p /\ ship[q].at = "run" /\ ship'[q] = [ship[q] EXCEPT !.at = "told"]
  BY <1>1 DEF Tell, IInv, TypeOK
<1>3. \A q \in Proc :
        /\ ship'[q] \in ShipState /\ ship'[q].name = ship[q].name
        /\ \/ ship'[q].at = ship[q].at
           \/ q = p /\ ship[q].at = "run" /\ ship'[q].at = "told"
  <2>1. ASSUME NEW q \in Proc
        PROVE  /\ [ship[q] EXCEPT !.at = "told"] \in ShipState
               /\ [ship[q] EXCEPT !.at = "told"].name = ship[q].name
               /\ [ship[q] EXCEPT !.at = "told"].at = "told"
               /\ ship[q] \in ShipState
    BY DEF IInv, TypeOK, ShipState
  <2>2. QED
    BY <1>2, <2>1
<1>4. Stopping' /\ stop' \in [Stopper -> StopState]
  BY <1>1, <1>3, StopGoesOn DEF files
<1>5. TypeOK'
  <2>1. ship' \in [Proc -> ShipState]
    BY <1>3 DEF Tell, IInv, TypeOK
  <2>2. QED
    BY <1>1, <1>4, <2>1 DEF IInv, TypeOK, RegistryTypeOK, registry, files
<1>6. Alone'
  <2>1. NoneComes
    BY <1>3 DEF NoneComes
  <2>2. QED
    BY <1>1, <2>1, LeaversKeep
<1>7. OnFile'
  BY <1>1, <1>3 DEF IInv, OnFile, Living, files
<1>8. ToldIsMarked'
  BY <1>1, <1>3 DEF IInv, ToldIsMarked, Stopping, StopMarked, files
<1>9. QED
  BY <1>4, <1>5, <1>6, <1>7, <1>8 DEF IInv, Alone

\* Only the PID file of a process that is gone is dropped, or the name is
\* doubled.
LEMMA StopEndKeeps ==
    ASSUME IInv, NEW k \in Stopper, LookAtPid(k) \/ DropPid(k) \/ CutOff(k)
    PROVE  IInv'
<1> DEFINE n == stop[k].name
<1>1. /\ stop[k].at # "idle" /\ n \in Name
      /\ UNCHANGED <<registry, pipe, marker, sup, ship, op, robbed>>
  BY DEF LookAtPid, DropPid, CutOff, files, IInv, Stopping, StopBound
<1>2. \/ stop' = [stop EXCEPT ![k] = NoStop]
      \/ \E at \in {"past", "drop"} : stop' = [stop EXCEPT ![k].at = at]
  BY DEF LookAtPid, DropPid, CutOff
<1>3. /\ doubled' \in {doubled, doubled \cup {n}}
      /\ \/ pidFile' = pidFile
         \/ /\ pidFile' = [pidFile EXCEPT ![n] = None]
            /\ n \in doubled' \/ ~Running(n)
  BY DEF LookAtPid, DropPid, CutOff, DropStalePid, files
<1>4. stop' \in [Stopper -> StopState] /\ Stopping'
  BY <1>1, <1>2, StopGoesOn
<1>5. TypeOK'
  BY <1>1, <1>3, <1>4 DEF IInv, TypeOK, RegistryTypeOK, registry
<1>6. QED
  BY <1>1, <1>3, <1>4, <1>5, StopStep DEF IInv, TypeOK

\* The daemon goes with its launches and its supervisors, not with its ships.
LEMMA WebExitShips ==
    ASSUME IInv, WebExit
    PROVE  \A p \in Proc :
             /\ ship'[p] \in ShipState
             /\ ship'[p].name = ship[p].name
             /\ ship'[p].at = IF ship[p].at = "zombie" THEN "dead" ELSE ship[p].at
<1>1. SUFFICES ASSUME NEW p \in Proc
               PROVE  /\ ship'[p] \in ShipState
                      /\ ship'[p].name = ship[p].name
                      /\ ship'[p].at = IF ship[p].at = "zombie" THEN "dead" ELSE ship[p].at
  OBVIOUS
<1>2. ship[p] \in ShipState
  BY DEF IInv, TypeOK
<1>3. QED
  BY <1>2 DEF WebExit, ShipState

LEMMA WebExitKeeps ==
    ASSUME IInv, WebExit
    PROVE  IInv'
<1> USE PoolAssumption
<1>1. /\ ship' = [p \in Proc |->
                  [ship[p] EXCEPT !.web = FALSE, !.at = IF @ = "zombie" THEN "dead" ELSE @]]
      /\ op' = [l \in Launcher |-> IF op[l].how = "web" THEN NoOp ELSE op[l]]
      /\ sup' = [n \in Name |-> None]
      /\ UNCHANGED <<registry, files, doubled, stops>>
  BY DEF WebExit
<1>2. \A p \in Proc :
        /\ ship'[p] \in ShipState
        /\ ship'[p].name = ship[p].name
        /\ ship'[p].at = IF ship[p].at = "zombie" THEN "dead" ELSE ship[p].at
  BY WebExitShips
<1>3. TypeOK'
  <2>1. op' \in [Launcher -> OpState]
    <3>1. NoOp \in OpState
      BY DEF NoOp, OpState, How
    <3>2. QED
      BY <1>1, <3>1 DEF IInv, TypeOK
  <2>2. ship' \in [Proc -> ShipState]
    BY <1>1, <1>2
  <2>3. QED
    BY <1>1, <2>1, <2>2 DEF IInv, TypeOK, RegistryTypeOK, registry, files
<1>4. Alone'
  <2>1. NoneComes
    BY <1>2 DEF NoneComes
  <2>2. QED
    BY <1>1, <2>1, LeaversKeep
<1>5. OnFile'
  <2>1. pidFile' = pidFile /\ doubled' = doubled
    BY <1>1 DEF files
  <2>2. \A p \in Living' : p \in Living /\ p \in Proc /\ ship'[p].at = ship[p].at
    BY <1>2 DEF Living
  <2>3. QED
    BY <1>2, <2>1, <2>2 DEF IInv, OnFile
<1>6. ToldIsMarked'
  <2>1. marker' = marker /\ doubled' = doubled /\ robbed' = robbed
    BY <1>1 DEF files
  <2>2. \A p \in Proc : ship'[p].at = "told" => ship[p].at = "told"
    BY <1>2
  <2>3. QED
    BY <1>2, <2>1, <2>2 DEF IInv, ToldIsMarked
<1>s. Stopping'
  <2>1. UNCHANGED <<marker, stops>>
    BY <1>1 DEF files
  <2>2. \A p \in Proc : ship[p].at # "none" =>
                         ship'[p].at # "none" /\ ship'[p].name = ship[p].name
    BY <1>2
  <2>3. QED
    BY <2>1, <2>2, StopsKept
<1>7. QED
  BY <1>s, <1>3, <1>4, <1>5, <1>6 DEF IInv, Alone

LEMMA TimeKeeps ==
    ASSUME IInv, GarbageCollect \/ \E n \in Name : Expire(n)
    PROVE  IInv'
<1>1. RegistryTypeOK'
  <2>1. CASE GarbageCollect
    BY <2>1 DEF GarbageCollect, DoGC, IInv, TypeOK, RegistryTypeOK
  <2>2. CASE \E n \in Name : Expire(n)
    BY <2>2 DEF Expire, Age, DoStatus, IInv, TypeOK, RegistryTypeOK, Beat
  <2>3. QED
    BY <2>1, <2>2
<1>2. QED
  BY <1>1, RegistryOnly DEF GarbageCollect, Expire

-----------------------------------------------------------------------------
LEMMA NextInv == IInv /\ [Next]_vars => IInv'
<1> SUFFICES ASSUME IInv, [Next]_vars PROVE IInv'
  OBVIOUS
<1>1. CASE \E l \in Launcher, how \in How : LaunchAny(l, how)
  <2>1. 1 \in Name
    BY PoolAssumption DEF Name
  <2>2. QED
    BY <1>1, <2>1, LaunchStep
<1>2. CASE \E l \in Launcher, how \in How, n \in Name : LaunchNamed(l, how, n)
  BY <1>2, LaunchStep
<1>3. CASE \E l \in Launcher, n \in Name : Respawn(l, n) \/ RestartShip(l, n)
  <2>1. "respawn" \in How
    BY DEF How
  <2>2. QED
    BY <1>3, <2>1, LaunchStep, RestartKeeps
<1>4. CASE \E l \in Launcher : LaunchFails(l) \/ Fork(l) \/ Record(l) \/ RunForeground(l)
  BY <1>4, FailsKeep, ForkKeeps, RecordKeeps, ForegroundKeeps
<1>5. CASE \E p \in Proc :
             \/ Boot(p) \/ Report(p) \/ Quit(p) \/ OnExitRead(p) \/ OnExitRemove(p)
             \/ ForegroundEnds(p) \/ Kill(p)
  BY <1>5, BootKeeps, ReportQuitKeep, OnExitReadKeeps, OnExitRemoveKeeps, KillKeeps
<1>6. CASE \E k \in Stopper :
             \/ OpenPipe(k) \/ Tell(k) \/ LookAtPid(k) \/ DropPid(k) \/ CutOff(k)
             \/ \E n \in Name : SetMarker(k, n)
  BY <1>6, SetMarkerKeeps, OpenPipeKeeps, TellKeeps, StopEndKeeps
<1>7. CASE WebExit \/ GarbageCollect \/ \E n \in Name : Expire(n)
  BY <1>7, WebExitKeeps, TimeKeeps
<1>8. CASE UNCHANGED vars
  <2>1. RegistryTypeOK'
    BY <1>8 DEF vars, registry, IInv, TypeOK, RegistryTypeOK
  <2>2. QED
    BY <1>8, <2>1, RegistryOnly DEF vars
<1>9. QED
  BY <1>1, <1>2, <1>3, <1>4, <1>5, <1>6, <1>7, <1>8 DEF Next

LEMMA Inductive == Spec => []IInv
BY InitInv, NextInv, PTL DEF Spec

\* The registry, the files and the launches keep their types, whatever launches,
\* stops and crashes are under way.
THEOREM TypeCorrect == Spec => []TypeOK
<1>1. IInv => TypeOK
  BY DEF IInv
<1>2. QED
  BY <1>1, Inductive, PTL

\* isShipRunning, LaunchShip: two terminals run under one name only if one was
\* started without looking, or two launches have crossed.
THEOREM OneShipOfAName == Spec => []OneShipPerName
<1>1. IInv => OneShipPerName
  BY DEF IInv
<1>2. QED
  BY <1>1, Inductive, PTL

\* A ship that was told to stop is in one of three states afterwards: still
\* told, over without its exit handler, or leaving, with its stop honoured.
LEMMA ToldLeaves ==
    ASSUME IInv, Next, NEW p \in Proc,
           ship[p].at = "told", ship'[p].at = "leave",
           ship[p].name \notin doubled \cup robbed
    PROVE  beat'[ship[p].name] = "none"
<1>1. OnExitRead(p)
  <2>1. \A q \in Proc : ship[q] \in ShipState /\ ship[q].at \in {"none", "boot", "run",
            "fore", "told", "exit", "leave", "zombie", "dead"}
    BY DEF IInv, TypeOK, ShipState
  <2>2. ship \in [Proc -> ShipState]
    BY DEF IInv, TypeOK
  <2>3. ASSUME NEW l \in Launcher,
               \/ LaunchFails(l) \/ Record(l)
               \/ \E how \in How : LaunchAny(l, how)
               \/ \E n \in Name : Respawn(l, n) \/ \E how \in How : LaunchNamed(l, how, n)
        PROVE  FALSE
    BY <2>3 DEF LaunchFails, Record, LaunchAny, Respawn, LaunchNamed
  <2>4. ASSUME NEW l \in Launcher, Fork(l) \/ RunForeground(l)
        PROVE  FALSE
    <3>1. PICK q \in Proc : ship'[q].at # "leave" /\ \A r \in Proc \ {q} : ship'[r] = ship[r]
      <4>1. PICK q \in Proc, web \in BOOLEAN, a \in {"boot", "fore"} :
              ship' = [ship EXCEPT ![q] = [at |-> a, name |-> op[l].name, web |-> web]]
        BY <2>4 DEF Fork, StartChild, RunForeground
      <4>2. QED
        BY <2>2, <4>1
    <3>2. QED
      BY <3>1
  <2>5. ASSUME NEW l \in Launcher, NEW n \in Name, RestartShip(l, n)
        PROVE  FALSE
    <3>1. PICK q \in Proc :
            /\ ship' = [ship EXCEPT ![sup[n]] = [@ EXCEPT !.at = "dead", !.web = FALSE],
                                    ![q] = [at |-> "boot", name |-> n, web |-> TRUE]]
      BY <2>5 DEF RestartShip
    <3>2. p = q => ship'[p].at = "boot"
      BY <2>2, <3>1
    <3>3. p # q /\ p = sup[n] => ship'[p] = [ship[p] EXCEPT !.at = "dead", !.web = FALSE]
      BY <2>2, <3>1
    <3>4. p # q /\ p # sup[n] => ship'[p] = ship[p]
      BY <2>2, <3>1
    <3>5. QED
      BY <2>1, <3>2, <3>3, <3>4 DEF ShipState
  <2>6. ASSUME NEW q \in Proc, \/ Boot(q) \/ Report(q) \/ Quit(q) \/ OnExitRemove(q)
                               \/ ForegroundEnds(q) \/ Kill(q) \/ (OnExitRead(q) /\ q # p)
        PROVE  FALSE
    <3>1. ship' = ship \/ q # p \/ ship'[p].at # "leave"
      BY <2>1, <2>2, <2>6 DEF Boot, Report, Quit, OnExitRemove, ForegroundEnds, Kill, Over, ShipState
    <3>2. q # p => ship'[p] = ship[p]
      BY <2>2, <2>6 DEF Boot, Report, Quit, OnExitRead, OnExitRemove, ForegroundEnds, Kill, Over
    <3>3. QED
      BY <3>1, <3>2
  <2>7. ASSUME NEW k \in Stopper,
               \/ OpenPipe(k) \/ Tell(k) \/ LookAtPid(k) \/ DropPid(k) \/ CutOff(k)
               \/ \E n \in Name : SetMarker(k, n)
        PROVE  FALSE
    <3>1. CASE Tell(k)
      BY <2>1, <2>2, <3>1 DEF Tell, ShipState
    <3>2. CASE ~Tell(k)
      BY <2>7, <3>2 DEF OpenPipe, LookAtPid, DropPid, CutOff, SetMarker
    <3>3. QED
      BY <3>1, <3>2
  <2>8. ASSUME WebExit \/ GarbageCollect \/ \E n \in Name : Expire(n)
        PROVE  FALSE
    <3>1. CASE WebExit
      BY <2>1, <3>1, WebExitShips
    <3>2. CASE GarbageCollect \/ \E n \in Name : Expire(n)
      BY <3>2 DEF GarbageCollect, Expire
    <3>3. QED
      BY <2>8, <3>1, <3>2
  <2>9. QED
    BY <2>3, <2>4, <2>5, <2>6, <2>7, <2>8 DEF Next
<1>2. ship[p].name \in marker
  BY DEF IInv, ToldIsMarked
<1>3. DoStatus(ship[p].name, "none")
  BY <1>1, <1>2 DEF OnExitRead
<1>4. ship[p].name \in Name /\ beat \in [Name -> Beat]
  BY DEF IInv, TypeOK, RegistryTypeOK, Named
<1>5. QED
  BY <1>3, <1>4 DEF DoStatus

\* StopShip, OnExit: a ship that was told to stop is never reported as crashed,
\* unless two ships have shared its name and so its marker, or an exit handler
\* of that name has run between the marker and the word of a stop.
THEOREM StopsAreHonoured == Spec => StopIsHonoured
<1>1. IInv /\ [Next]_vars =>
        [\A p \in Proc :
           (ship[p].at = "told" /\ ship'[p].at = "leave"
               /\ ship[p].name \notin doubled \cup robbed)
             => beat'[ship[p].name] = "none"]_vars
  BY ToldLeaves DEF vars
<1>2. QED
  BY <1>1, Inductive, PTL DEF Spec, StopIsHonoured

-----------------------------------------------------------------------------
(* The daemons.                                                            *)

\* Processes that die are dead; the commands they ran are over.
LEMMA DeathTypes ==
    ASSUME D!TypeOK, NEW X, D!Dies(X), NEW jobs \in [D!Runner -> D!Job]
    PROVE  /\ proc' \in [Pid -> D!ProcState] /\ port' \in [Pid -> {"ours", "bare", "other"}]
           /\ D!Killed(X, jobs) \in [D!Runner -> D!Job]
BY DEF D!TypeOK, D!Dies, D!Killed, D!Idle, D!Job, D!ProcState

\* A command that goes on, or is over.
LEMMA JobTypes ==
    ASSUME D!TypeOK, NEW c \in D!Runner
    PROVE  /\ D!Idle \in D!Job
           /\ \A at \in {"probe", "stale", "unlink", "fork", "record", "kill", "remove", "scan",
                         "wait", "over"} : [job[c] EXCEPT !.at = at] \in D!Job
           /\ \A at \in {"clean", "probe"} : \A verb \in D!Op \cup {None} :
                         [D!Idle EXCEPT !.op = verb, !.at = at] \in D!Job
           /\ D!AfterStop(c) \in D!Job
BY DEF D!TypeOK, D!Idle, D!Job, D!AfterStop

\* A signal that was sent to the process in the PID file.
LEMMA SignalTypes ==
    ASSUME D!TypeOK, NEW s \in {"term", "hup"}, D!Signal(s)
    PROVE  /\ proc' \in [Pid -> D!ProcState]
           /\ sig' \in [Pid -> {"hup", "term", None}]
<1>1. CASE proc' = [proc EXCEPT ![file] = "dead"] /\ UNCHANGED sig
  BY <1>1 DEF D!TypeOK, D!ProcState
<1>2. CASE UNCHANGED proc /\ sig' = [sig EXCEPT ![file] =
                                        IF @ = None /\ proc[file] = "serving" THEN s ELSE @]
  BY <1>2 DEF D!TypeOK
<1>3. QED
  BY <1>1, <1>2 DEF D!Signal

\* The commands, by whomever.
LEMMA CommandTypes == ASSUME D!TypeOK, NEW c \in D!Runner, D!Command(c) PROVE D!TypeOK'
<1> USE DEF D!TypeOK
<1>0. job \in [D!Runner -> D!Job]
  OBVIOUS
<1>1. CASE D!CleanPorts(c)
  <2> DEFINE jobs == [job EXCEPT ![c].at = "probe"]
             X == {x \in Pid : D!Daemon(x) /\ port[x] = "other"}
  <2>1. jobs \in [D!Runner -> D!Job]
    BY JobTypes
  <2>2. D!Dies(X) /\ job' = D!Killed(X, jobs) /\ UNCHANGED <<crew, sig, file>>
    BY <1>1 DEF D!CleanPorts
  <2> HIDE DEF jobs, X
  <2>3. QED
    BY <2>1, <2>2, DeathTypes
<1>2. CASE D!Probe(c)
  BY <1>2, JobTypes DEF D!Probe
<1>3. CASE D!LookAtFile(c) \/ D!Unlink(c)
  BY <1>3, JobTypes DEF D!LookAtFile, D!Unlink, D!Go
<1>4. CASE D!Fork(c)
  <2>1. PICK x \in Pid :
           /\ proc' = [proc EXCEPT ![x] = "boot"]
           /\ port' = [port EXCEPT ![x] = "ours"]
           /\ job' = [job EXCEPT ![c] = IF D!Is("worker") THEN D!Idle
                                        ELSE [@ EXCEPT !.at = "record", !.child = x]]
    BY <1>4 DEF D!Fork, D!Fresh
  <2>2. [job[c] EXCEPT !.at = "record", !.child = x] \in D!Job
    BY DEF D!Job
  <2>3. job' \in [D!Runner -> D!Job]
    BY <2>1, <2>2, JobTypes
  <2>4. QED
    BY <1>4, <2>1, <2>3 DEF D!Fork, D!ProcState
<1>5. CASE D!Record(c)
  <2>1. job[c].child \in Pid \cup {None}
    BY DEF D!Job
  <2>2. QED
    BY <1>5, <2>1, JobTypes DEF D!Record
<1>6. CASE D!Kill(c)
  <2>1. CASE file = None
    BY <1>6, <2>1, JobTypes DEF D!Kill
  <2>2. CASE file # None
    <3> DEFINE jobs == [job EXCEPT ![c].at = "remove"]
    <3>1. jobs \in [D!Runner -> D!Job]
      BY JobTypes
    <3>2. D!Dies({file}) /\ job' = D!Killed({file}, jobs) /\ UNCHANGED <<crew, sig, file>>
      BY <1>6, <2>2 DEF D!Kill
    <3> HIDE DEF jobs
    <3>3. QED
      BY <3>1, <3>2, DeathTypes
  <2>3. QED
    BY <2>1, <2>2
<1>7. CASE D!RemoveFile(c)
  BY <1>7, JobTypes DEF D!RemoveFile
<1>8. CASE D!Scan(c)
  <2> DEFINE jobs == [job EXCEPT ![c].at = "over"]
  <2>1. jobs \in [D!Runner -> D!Job]
    BY JobTypes
  <2>2. D!Dies(D!Doomed) /\ job' = D!Killed(D!Doomed, jobs) /\ UNCHANGED <<crew, sig, file>>
    BY <1>8 DEF D!Scan
  <2> HIDE DEF jobs
  <2>3. QED
    BY <2>1, <2>2, DeathTypes
<1>9. CASE D!Over(c) \/ D!AwaitExit(c)
  <2>1. job[c].op \in D!Op \cup {None}
    BY DEF D!Job
  <2>2. \A at \in {"clean", "probe"} : [D!Idle EXCEPT !.op = job[c].op, !.at = at] \in D!Job
    BY <2>1, JobTypes
  <2>3. job' \in [D!Runner -> D!Job]
    BY <1>9, <2>2, JobTypes DEF D!Over, D!AwaitExit
  <2>4. QED
    BY <1>9, <2>3 DEF D!Over, D!AwaitExit
<1>10. CASE D!StopWorker(c)
  <2>1. proc' \in [Pid -> D!ProcState] /\ sig' \in [Pid -> {"hup", "term", None}]
    BY <1>10, SignalTypes DEF D!StopWorker
  <2>2. QED
    BY <1>10, <2>1, JobTypes DEF D!StopWorker
<1>11. QED
  BY <1>1, <1>2, <1>3, <1>4, <1>5, <1>6, <1>7, <1>8, <1>9, <1>10 DEF D!Command

\* The daemons themselves.
LEMMA ProcessTypes == ASSUME D!TypeOK, NEW x \in Pid, D!Process(x) PROVE D!TypeOK'
<1> USE DEF D!TypeOK, D!ProcState
<1>1. CASE D!Bind(x)
  BY <1>1 DEF D!Bind
<1>2. CASE D!EnsurePIDFile(x)
  BY <1>2 DEF D!EnsurePIDFile
<1>3. CASE D!WritePIDFile(x) \/ D!NotifyMe(x)
  BY <1>3 DEF D!WritePIDFile, D!NotifyMe
<1>4. CASE D!TakeSignal(x)
  BY <1>4 DEF D!TakeSignal
<1>5. CASE D!Close(x)
  BY <1>5 DEF D!Close
<1>6. QED
  BY <1>1, <1>2, <1>3, <1>4, <1>5 DEF D!Process

\* Crashes, hangs, stops, signals, and what is started by hand or by cron.
LEMMA DisturbTypes ==
    ASSUME D!TypeOK, D!Disturb \/ \E c \in Caller : D!Autostart(c)
    PROVE  D!TypeOK'
<1> USE DEF D!TypeOK
<1>0. job \in [D!Runner -> D!Job] /\ Caller \subseteq D!Runner
  BY DEF D!Runner
<1>1. ASSUME NEW x \in Pid, D!Hang(x) PROVE D!TypeOK'
  BY <1>1 DEF D!Hang, D!ProcState
<1>r. ASSUME NEW x \in Pid, D!Reuse(x) PROVE D!TypeOK'
  BY <1>r DEF D!Reuse, D!ProcState
<1>2. ASSUME NEW x \in Pid, D!Crash(x) PROVE D!TypeOK'
  <2>1. D!Killed({x}, job) \in [D!Runner -> D!Job]
    BY <1>0 DEF D!Killed, D!Idle, D!Job
  <2>2. QED
    BY <1>2, <2>1 DEF D!Crash, D!ProcState
<1>3. ASSUME NEW c \in D!Runner, NEW verb \in D!Op, D!StopStarts(c, verb) PROVE D!TypeOK'
  <2>1. [op |-> verb, child |-> None, at |-> "kill"] \in D!Job
    BY DEF D!Job
  <2>2. QED
    BY <1>3, <2>1 DEF D!StopStarts
<1>4. ASSUME NEW c \in Caller, D!NotifyWorker(c) PROVE D!TypeOK'
  BY <1>4, SignalTypes DEF D!NotifyWorker
<1>5. ASSUME NEW c \in Caller, D!StartForeground(c) PROVE D!TypeOK'
  <2>1. PICK x \in Pid, p \in {"ours", "bare", "other"} :
           proc' = [proc EXCEPT ![x] = "boot"] /\ port' = [port EXCEPT ![x] = p]
    BY <1>5 DEF D!StartForeground, D!Fresh
  <2>2. QED
    BY <1>5, <2>1 DEF D!StartForeground, D!ProcState
<1>6. ASSUME NEW c \in Caller, D!Autostart(c) PROVE D!TypeOK'
  <2>1. \A at \in {"clean", "probe"} : [D!Idle EXCEPT !.op = "autostart", !.at = at] \in D!Job
    BY <1>0, JobTypes DEF D!Op
  <2>2. QED
    BY <1>0, <1>6, <2>1 DEF D!Autostart
<1>7. QED
  BY <1>r, <1>1, <1>2, <1>3, <1>4, <1>5, <1>6 DEF D!Disturb

LEMMA DaemonTypes == D!Spec => []D!TypeOK
<1>1. D!Init => D!TypeOK
  BY DEF D!Init, D!TypeOK, D!ProcState, D!Job, D!Idle
<1>2. D!TypeOK /\ [D!Next]_D!vars => D!TypeOK'
  <2>1. ASSUME D!TypeOK, UNCHANGED D!vars PROVE D!TypeOK'
    BY <2>1 DEF D!TypeOK, D!vars
  <2>2. ASSUME D!TypeOK, D!Next PROVE D!TypeOK'
    BY <2>2, CommandTypes, ProcessTypes, DisturbTypes DEF D!Next
  <2>3. QED
    BY <2>1, <2>2
<1>3. QED
  BY <1>1, <1>2, PTL DEF D!Spec

\* Ships, launches and names (session/, shipnames/) and daemons, their PID
\* files, ports and signals (modelproxy/daemon.go, web/autostart.go,
\* timer/worker.go) keep to their types: a PID file names a process or none,
\* whoever writes and removes it.
THEOREM ProcessesTypes == Spec /\ D!Spec => []TypesOK
<1>1. TypeOK /\ D!TypeOK => TypesOK
  BY DEF TypesOK
<1>2. QED
  BY <1>1, TypeCorrect, DaemonTypes, PTL
=============================================================================

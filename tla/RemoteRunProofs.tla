-------------------------- MODULE RemoteRunProofs --------------------------
(***************************************************************************)
(* What the controller receives and what a host runs, for any hosts, any   *)
(* number of claims and any number of kills and lost requests.             *)
(***************************************************************************)
EXTENDS RemoteRun, TLAPS

-----------------------------------------------------------------------------
(* The inductive invariant.                                                *)

\* The token in force is that of the last claim, or revoked; a finish request
\* that is being served has stored its result, and nothing else happens to the
\* record meanwhile; the marker follows a result.
RecordOK ==
    /\ run.gen \in {0, run.last}
    /\ serving # NotServing =>
        /\ run.status = "running" /\ ~run.exit
        /\ serving.gen # 0 /\ run.gen = serving.gen /\ run.got = serving.gen /\ serving.host \in Hosts
    /\ run.exit => run.got # 0
    /\ run.exit /\ run.status = "running" => run.gen = run.got
    /\ seen # "none" => run.status = "running"

\* A supervisor belongs to the active claim, and a daemon beyond its recovery
\* has none, except the one it executes; a generation is prepared once.
HostOK(h) ==
    /\ sup[h] \subseteq {disk[h].active} /\ sup[h] \cap exits[h] = {}
    /\ wk[h].at \notin {"off", "down", "recover", "execute"} => sup[h] = {}
    /\ wk[h].at \in {"execute", "publish", "pushed", "post", "clean"} =>
        wk[h].gen = disk[h].active /\ wk[h].gen # 0
    /\ wk[h].at = "prepare" => wk[h].gen \notin exits[h]
    /\ wk[h].bound # 0 => wk[h].at = "poll" /\ wk[h].bound \notin exits[h]

\* The files name granted generations, the pending one not after the active one.
FilesOK(h) ==
    /\ \A g \in exits[h] : g <= run.last
    /\ disk[h].active <= run.last /\ disk[h].pending <= run.last
    /\ disk[h].active # 0 => disk[h].pending <= disk[h].active
    /\ wk[h].at = "post" => disk[h].pending = wk[h].gen
    /\ wk[h].at = "clean" => run.exit

\* What is or may be sent to the controller as work was pushed before.
StagedOK(h) ==
    /\ disk[h].pending # 0 => disk[h].pending \in pushed
    /\ wk[h].at \in {"pushed", "post"} => wk[h].gen \in pushed
LateOK == \A r \in late : r.op = "finish" => r.gen \in pushed

KeptOn(h) ==
    \A g \in exits[h] : Current(h, g) => g \in {run.got, disk[h].active, disk[h].pending}

HostsOK == \A h \in Hosts : HostOK(h) /\ FilesOK(h) /\ StagedOK(h) /\ KeptOn(h)
IInv == TypeOK /\ RecordOK /\ ResultIntact /\ ResultPushed /\ LateOK /\ HostsOK

\* What a step of the controller does not take back.
Verdict ==
    run.exit \/ run.status = "timeout" =>
        /\ <<run'.got, run'.kind, run'.exit, run'.last>> = <<run.got, run.kind, run.exit, run.last>>
        /\ run.status # "running" => run'.status = run.status
Forward ==
    /\ Verdict
    /\ run.last <= run'.last /\ (run.exit => run'.exit)
    /\ \A k \in Hosts, g \in Gens :
        g <= run.last /\ Current(k, g)' => Current(k, g) /\ (g = run.got => g = run'.got)

ServerType == run \in Runs /\ serving \in Finishes /\ seen \in {"none", "fresh", "outdated"}
ServerInv == ServerType /\ RecordOK /\ ResultIntact /\ ResultPushed

-----------------------------------------------------------------------------
(* The steps of the controller.                                            *)

LEMMA Unserved ==
  /\ NotServing \in Finishes
  /\ \A s \in Finishes : s.host \in Hosts => s # NotServing
<1>1. NotServing \in Finishes /\ NotServing.host = NoHost
  BY RemoteRunAssumption DEF NotServing, Finishes
<1> QED
  BY <1>1, RemoteRunAssumption DEF Finishes

LEMMA ServerRests ==
  ASSUME ServerInv, UNCHANGED server, pushed \subseteq pushed'
  PROVE  ServerInv' /\ Forward
<1>1. UNCHANGED <<run, serving, seen>>
  BY DEF server
<1>2. ServerInv'
  BY <1>1 DEF ServerInv, ServerType, RecordOK, ResultIntact, ResultPushed
<1>3. run.last \in Nat
  BY DEF ServerInv, ServerType, Runs
<1> QED
  BY <1>1, <1>2, <1>3 DEF Forward, Verdict, Current

\* A run that is claimed has no result, so the next generation starts clean.
LEMMA GrantKeeps ==
  ASSUME ServerInv, NEW h \in Hosts, Unlocked, Claimable, Grant(h), UNCHANGED <<serving, pushed>>
  PROVE  ServerInv' /\ Forward /\ run'.last = run.last + 1
<1>1. run \in Runs /\ run.last \in Nat /\ run.last + 1 \in 0 .. MaxGen
  BY RemoteRunAssumption DEF ServerInv, ServerType, Runs, Claimable
<1>2. PICK n \in 0 .. MaxGen : n = run.last + 1
  BY <1>1
<1>3. run' = [run EXCEPT !.host = h, !.gen = n, !.last = n, !.leased = TRUE] /\ seen' = Outdated
  BY <1>1, <1>2 DEF Grant
<1>4. /\ run' \in Runs /\ run'.gen = n /\ run'.last = n /\ run'.got = run.got /\ run'.kind = run.kind
      /\ run'.exit = run.exit /\ run'.status = run.status
  BY <1>1, <1>3 DEF Runs
<1>5. seen' \in {"none", "fresh", "outdated"} /\ (seen' # "none" => seen # "none")
  BY <1>3 DEF ServerInv, ServerType, Outdated
<1>6. ServerInv'
  BY <1>4, <1>5 DEF ServerInv, ServerType, RecordOK, ResultIntact, ResultPushed, Unlocked, Claimable
<1>7. Verdict
  BY DEF Verdict, Claimable
<1>8. ASSUME NEW k \in Hosts, NEW g \in Gens, g <= run.last PROVE ~Current(k, g)'
  BY <1>1, <1>2, <1>4, <1>8 DEF Current, Gens
<1> QED
  BY <1>1, <1>2, <1>4, <1>6, <1>7, <1>8 DEF Forward

\* finish up to save_locked: the result is that of the lease in force.
LEMMA ReceiveKeeps ==
  ASSUME ServerInv, NEW h \in Hosts, NEW g \in 0 .. MaxGen, NEW kind \in {"work", "failure"},
         Unlocked, Accepts(h, g), BeginFinish(h, g, kind), UNCHANGED pushed,
         kind = "work" => g \in pushed
  PROVE  ServerInv' /\ Forward
<1> DEFINE s == [host |-> h, gen |-> g, kind |-> kind]
<1>1. run \in Runs /\ run.status = "running" /\ ~run.exit /\ g # 0 /\ run.gen = g /\ run.last = g
  BY DEF ServerInv, ServerType, RecordOK, Accepts, Current
<1>2. run' = [run EXCEPT !.got = g, !.kind = kind] /\ seen' = Outdated /\ serving' = s
  BY DEF BeginFinish
<1>3. /\ run' \in Runs /\ run'.gen = g /\ run'.last = g /\ run'.got = g /\ run'.kind = kind
      /\ ~run'.exit /\ run'.status = "running" /\ run'.host = run.host /\ run'.leased = run.leased
      /\ run'.over = run.over
  BY <1>1, <1>2 DEF Runs
<1>4. s \in Finishes /\ s.gen = g /\ s.host = h
  BY DEF Finishes
<1>5. seen' \in {"none", "fresh", "outdated"}
  BY <1>2 DEF ServerInv, ServerType, Outdated
<1> HIDE DEF s
<1>6. ServerInv'
  BY <1>1, <1>2, <1>3, <1>4, <1>5 DEF ServerInv, ServerType, RecordOK, ResultIntact, ResultPushed
<1>7. run.last \in Nat
  BY <1>1 DEF Runs
<1> QED
  BY <1>1, <1>3, <1>6, <1>7 DEF Forward, Verdict, Current

\* finish writes the marker.
LEMMA MarkKeeps ==
  ASSUME ServerInv, serving # NotServing, run' = [run EXCEPT !.exit = TRUE], serving' = NotServing,
         UNCHANGED <<seen, pushed>>
  PROVE  ServerInv' /\ Forward /\ run'.exit
<1>1. run \in Runs /\ run.status = "running" /\ ~run.exit /\ run.got # 0 /\ run.gen = run.got
  BY DEF ServerInv, ServerType, RecordOK
<1>2. /\ run' \in Runs /\ run'.gen = run.gen /\ run'.last = run.last /\ run'.got = run.got
      /\ run'.kind = run.kind /\ run'.exit /\ run'.status = "running"
  BY <1>1 DEF Runs
<1>3. ServerInv'
  BY <1>1, <1>2, Unserved DEF ServerInv, ServerType, RecordOK, ResultIntact, ResultPushed
<1>4. run.last \in Nat
  BY <1>1 DEF Runs
<1>5. Verdict
  BY <1>1 DEF Verdict
<1>6. \A k, g : ~Current(k, g)'
  BY <1>2 DEF Current
<1> QED
  BY <1>1, <1>2, <1>3, <1>4, <1>5, <1>6 DEF Forward

\* Changes of the record that leave claim, result and status alone.
LEMMA RecordKeeps ==
  ASSUME ServerInv, NEW r \in Runs, run' = r, UNCHANGED pushed, serving' \in {serving, NotServing},
         seen' \in {"none", "fresh", "outdated"}, seen' # "none" => run.status = "running",
         r.status = run.status, r.host = run.host, r.gen = run.gen, r.last = run.last, r.got = run.got,
         r.kind = run.kind, r.exit = run.exit, r.leased => run.leased, run.over => r.over
  PROVE  ServerInv' /\ Forward
<1>1. ServerInv'
  BY Unserved DEF ServerInv, ServerType, RecordOK, ResultIntact, ResultPushed
<1>2. run.last \in Nat
  BY DEF ServerInv, ServerType, Runs
<1> QED
  BY <1>1, <1>2 DEF Forward, Verdict, Current

\* The scheduler revokes or finalizes.
LEMMA TimeoutKeeps ==
  ASSUME ServerInv, Timeout
  PROVE  ServerInv' /\ Forward
<1>1. UNCHANGED <<serving, pushed>> /\ seen # "none" /\ serving = NotServing /\ seen' = "none" /\ run \in Runs
  BY DEF Timeout, Unlocked, ServerInv, ServerType
<1>2. CASE seen # "fresh"
  <2>1. run' = run
    BY <1>2 DEF Timeout
  <2> QED
    BY <1>1, <2>1, RecordKeeps
<1>3. CASE seen = "fresh"
  <2>1. run' = [run EXCEPT !.status = "timeout", !.gen = 0, !.leased = FALSE]
    BY <1>3 DEF Timeout
  <2>2. /\ run' \in Runs /\ run'.status = "timeout" /\ run'.gen = 0 /\ run'.last = run.last /\ run'.got = run.got
        /\ run'.kind = run.kind /\ run'.exit = run.exit
    <3>1. 0 \in 0 .. MaxGen
      BY RemoteRunAssumption
    <3> QED
      BY <1>1, <2>1, <3>1 DEF Runs
  <2>3. run.status = "running" /\ run.last \in Nat
    BY <1>1 DEF ServerInv, RecordOK, ServerType, Runs
  <2>4. ServerInv'
    BY <1>1, <2>2 DEF ServerInv, ServerType, RecordOK, ResultIntact, ResultPushed
  <2> QED
    BY <2>2, <2>3, <2>4 DEF Forward, Verdict, Current
<1> QED
  BY <1>2, <1>3

LEMMA FinalizeKeeps ==
  ASSUME ServerInv, Finalize
  PROVE  ServerInv' /\ Forward
<1>1. /\ UNCHANGED <<serving, pushed>> /\ run.status = "running" /\ run.exit /\ serving = NotServing
      /\ seen' = "none" /\ run \in Runs /\ run' = [run EXCEPT !.status = "done"]
  BY DEF Finalize, Unlocked, ServerInv, ServerType
<1>2. /\ run' \in Runs /\ run'.status = "done" /\ run'.gen = run.gen /\ run'.last = run.last
      /\ run'.got = run.got /\ run'.kind = run.kind /\ run'.exit = run.exit
  BY <1>1 DEF Runs
<1>3. ServerInv'
  BY <1>1, <1>2 DEF ServerInv, ServerType, RecordOK, ResultIntact, ResultPushed
<1>4. run.last \in Nat
  BY <1>1 DEF Runs
<1>5. Verdict
  BY <1>1, <1>2, Zenon DEF Verdict
<1>6. \A k, g : ~Current(k, g)'
  BY <1>2 DEF Current
<1> QED
  BY <1>1, <1>2, <1>3, <1>4, <1>5, <1>6 DEF Forward

\* Time, the scheduler's reading, and a kill of the web process.
LEMMA OthersKeep ==
  ASSUME ServerInv, Inspect \/ Pass \/ LeaseLapses \/ DeadlinePasses \/ WebDies
  PROVE  ServerInv' /\ Forward
<1>1. run \in Runs /\ seen \in {"none", "fresh", "outdated"}
  BY DEF ServerInv, ServerType
<1>2. CASE Inspect \/ Pass \/ WebDies
  <2>1. /\ run' = run /\ UNCHANGED pushed /\ serving' \in {serving, NotServing}
        /\ seen' \in {"none", "fresh", "outdated"} /\ (seen' # "none" => run.status = "running")
    BY <1>1, <1>2 DEF Inspect, Pass, WebDies, ServerInv, RecordOK
  <2> QED
    BY <1>1, <2>1, RecordKeeps
<1>3. CASE LeaseLapses
  <2>1. run' = [run EXCEPT !.leased = FALSE] /\ UNCHANGED <<serving, seen, pushed>>
    BY <1>3 DEF LeaseLapses
  <2>2. /\ run' \in Runs /\ run'.status = run.status /\ run'.host = run.host /\ run'.gen = run.gen
        /\ run'.last = run.last /\ run'.got = run.got /\ run'.kind = run.kind /\ run'.exit = run.exit
        /\ ~run'.leased /\ run'.over = run.over
    BY <1>1, <2>1 DEF Runs
  <2>3. seen' # "none" => run.status = "running"
    BY <2>1 DEF ServerInv, RecordOK
  <2> QED
    BY <1>1, <2>1, <2>2, <2>3, RecordKeeps
<1>4. CASE DeadlinePasses
  <2>1. run' = [run EXCEPT !.over = TRUE] /\ UNCHANGED <<serving, seen, pushed>>
    BY <1>4 DEF DeadlinePasses
  <2>2. /\ run' \in Runs /\ run'.status = run.status /\ run'.host = run.host /\ run'.gen = run.gen
        /\ run'.last = run.last /\ run'.got = run.got /\ run'.kind = run.kind /\ run'.exit = run.exit
        /\ run'.over /\ run'.leased = run.leased
    BY <1>1, <2>1 DEF Runs
  <2>3. seen' # "none" => run.status = "running"
    BY <2>1 DEF ServerInv, RecordOK
  <2> QED
    BY <1>1, <2>1, <2>2, <2>3, RecordKeeps
<1> QED
  BY <1>2, <1>3, <1>4

-----------------------------------------------------------------------------
(* What a step on one host has to show.                                    *)

LeftType == left \in [hosts : SUBSET Hosts, crashes : Nat, lost : Nat]
HostInv(h) == HostOK(h) /\ FilesOK(h) /\ StagedOK(h) /\ KeptOn(h)

LEMMA ServerOf == IInv => ServerInv
BY DEF IInv, TypeOK, ServerInv, ServerType

\* The controller's steps do not disturb a host.
LEMMA OtherHosts ==
  ASSUME IInv, Forward, NEW k \in Hosts, pushed \subseteq pushed', run' \in Runs,
         wk'[k] = wk[k], disk'[k] = disk[k], sup'[k] = sup[k], exits'[k] = exits[k]
  PROVE  HostInv(k)'
<1>1. /\ run.last \in Nat /\ run'.last \in Nat /\ run.last <= run'.last /\ (run.exit => run'.exit)
      /\ disk[k].active \in Nat /\ disk[k].pending \in Nat /\ exits[k] \subseteq Gens
  BY DEF IInv, TypeOK, Runs, Files, Forward, Gens
<1>2. HostOK(k) /\ FilesOK(k) /\ StagedOK(k) /\ KeptOn(k)
  BY DEF IInv, HostsOK
<1>3. HostOK(k)' /\ StagedOK(k)'
  BY <1>2 DEF HostOK, StagedOK
<1>4. FilesOK(k)'
  BY <1>1, <1>2 DEF FilesOK, Gens
<1>5. KeptOn(k)'
  <2>1. SUFFICES ASSUME NEW g \in exits[k], Current(k, g)'
                 PROVE  g \in {run'.got, disk[k].active, disk[k].pending}
    BY DEF KeptOn
  <2>2. g \in Gens /\ g <= run.last
    BY <1>1, <1>2 DEF FilesOK
  <2> QED
    BY <1>2, <2>1, <2>2 DEF Forward, KeptOn
<1> QED
  BY <1>3, <1>4, <1>5 DEF HostInv

\* Both sides together.
LEMMA Together ==
  ASSUME IInv, NEW h \in Hosts, ServerInv', Forward, HostInv(h)', LateOK', LeftType',
         late' \subseteq Requests, pushed \subseteq pushed', pushed' \subseteq Gens,
         wk' \in [Hosts -> Workers], disk' \in [Hosts -> Files],
         sup' \in [Hosts -> SUBSET Gens], exits' \in [Hosts -> SUBSET Gens],
         \A k \in Hosts : k # h => wk'[k] = wk[k] /\ disk'[k] = disk[k] /\ sup'[k] = sup[k] /\ exits'[k] = exits[k]
  PROVE  IInv'
<1>1. TypeOK' /\ RecordOK' /\ ResultIntact' /\ ResultPushed'
  BY DEF ServerInv, ServerType, TypeOK, LeftType
<1>2. \A k \in Hosts : HostInv(k)'
  BY OtherHosts DEF ServerInv, ServerType
<1> QED
  BY <1>1, <1>2 DEF IInv, HostsOK, HostInv

\* A step in which the daemon on h moves on and nothing else changes there.
LEMMA WorkerMoves ==
  ASSUME IInv, NEW h \in Hosts, NEW w \in Workers, wk' = [wk EXCEPT ![h] = w],
         UNCHANGED <<disk, sup, exits>>, ServerInv', Forward, LateOK', LeftType',
         late' \subseteq Requests, pushed \subseteq pushed', pushed' \subseteq Gens,
         w.at \notin {"off", "down", "recover", "execute"} => sup[h] = {},
         w.at \in {"execute", "publish", "pushed", "post", "clean"} => w.gen = disk[h].active /\ w.gen # 0,
         w.at = "prepare" => w.gen \notin exits[h],
         w.bound # 0 => w.at = "poll" /\ w.bound \notin exits[h],
         w.at = "post" => disk[h].pending = w.gen,
         w.at = "clean" => run'.exit,
         w.at \in {"pushed", "post"} => w.gen \in pushed'
  PROVE  IInv'
<1>1. wk' \in [Hosts -> Workers] /\ wk'[h] = w /\ \A k \in Hosts : k # h => wk'[k] = wk[k]
  BY DEF IInv, TypeOK
<1>2. /\ run.last \in Nat /\ run'.last \in Nat /\ run.last <= run'.last
      /\ disk[h].active \in Nat /\ disk[h].pending \in Nat /\ exits[h] \subseteq Gens
  BY DEF IInv, TypeOK, Runs, Files, Forward, Gens, ServerInv, ServerType
<1>3. HostOK(h) /\ FilesOK(h) /\ StagedOK(h) /\ KeptOn(h)
  BY DEF IInv, HostsOK
<1>4. HostOK(h)'
  BY <1>1, <1>3 DEF HostOK
<1>5. FilesOK(h)'
  BY <1>1, <1>2, <1>3 DEF FilesOK, Gens
<1>6. StagedOK(h)'
  BY <1>1, <1>3 DEF StagedOK
<1>7. KeptOn(h)'
  <2>1. SUFFICES ASSUME NEW g \in exits[h], Current(h, g)'
                 PROVE  g \in {run'.got, disk[h].active, disk[h].pending}
    BY DEF KeptOn
  <2>2. g \in Gens /\ g <= run.last
    BY <1>2, <1>3 DEF FilesOK
  <2> QED
    BY <1>3, <2>1, <2>2 DEF Forward, KeptOn
<1> QED
  BY <1>1, <1>4, <1>5, <1>6, <1>7, Together DEF HostInv, IInv, TypeOK

\* A step that leaves the hosts alone.
LEMMA HostsRest ==
  ASSUME IInv, ServerInv', Forward, UNCHANGED host, LateOK', LeftType', late' \subseteq Requests,
         pushed \subseteq pushed', pushed' \subseteq Gens
  PROVE  IInv'
<1>1. UNCHANGED <<wk, disk, sup, exits>>
  BY DEF host
<1>2. TypeOK' /\ RecordOK' /\ ResultIntact' /\ ResultPushed'
  BY <1>1 DEF ServerInv, ServerType, TypeOK, LeftType, IInv
<1>3. \A k \in Hosts : HostInv(k)'
  BY <1>1, OtherHosts DEF ServerInv, ServerType
<1> QED
  BY <1>2, <1>3 DEF IInv, HostsOK, HostInv

\* Where a daemon may be next.
LEMMA DownType == Down \in Workers /\ Down.at = "down" /\ Down.gen = 0 /\ Down.bound = 0 /\ ~Down.recovering
<1>1. 0 \in 0 .. MaxGen
  BY RemoteRunAssumption
<1> QED
  BY <1>1 DEF Down, Workers, Stages

LEMMA MovesIs ==
  ASSUME IInv, NEW h \in Hosts, NEW at \in Stages, Moves(h, at)
  PROVE  \E w \in Workers : /\ wk' = [wk EXCEPT ![h] = w]
                            /\ w.at = at /\ w.gen = wk[h].gen /\ w.bound = wk[h].bound
<1> DEFINE w == [wk[h] EXCEPT !.at = at]
<1>1. wk[h] \in Workers
  BY DEF IInv, TypeOK
<1>2. w \in Workers /\ w.at = at /\ w.gen = wk[h].gen /\ w.bound = wk[h].bound
  BY <1>1 DEF Workers
<1>3. wk' = [wk EXCEPT ![h] = w]
  BY DEF Moves
<1> QED
  BY <1>2, <1>3

LEMMA ContinuesIs ==
  ASSUME IInv, NEW h \in Hosts, Continues(h)
  PROVE  \E w \in Workers : /\ wk' = [wk EXCEPT ![h] = w]
                            /\ w.at \in {"deliver", "recover"} /\ w.bound = 0
<1> DEFINE at == IF wk[h].recovering THEN "deliver" ELSE "recover"
           w == [Down EXCEPT !.at = at]
<1>1. at \in Stages /\ at \in {"deliver", "recover"}
  BY DEF Stages
<1> HIDE DEF at
<1>2. w \in Workers /\ w.at = at /\ w.bound = 0
  BY <1>1, DownType DEF Workers
<1>3. wk' = [wk EXCEPT ![h] = w]
  BY DEF Continues, at
<1> QED
  BY <1>1, <1>2, <1>3

\* The daemon exits: whatever it was in, only the files remain.
LEMMA DiesKeeps ==
  ASSUME IInv, NEW h \in Hosts, Dies(h), UNCHANGED <<disk, sup, exits>>, ServerInv', Forward,
         LateOK', LeftType', late' \subseteq Requests, UNCHANGED pushed
  PROVE  IInv'
<1>1. wk' = [wk EXCEPT ![h] = Down] /\ pushed \subseteq Gens
  BY DEF Dies, IInv, TypeOK
<1> QED
  BY <1>1, DownType, WorkerMoves

\* What the daemon's steps leave alone.
LEMMA Still ==
  ASSUME IInv, UNCHANGED <<late, pushed, left>>
  PROVE  LateOK' /\ LeftType' /\ late' \subseteq Requests /\ pushed \subseteq pushed' /\ pushed' \subseteq Gens
BY DEF IInv, TypeOK, LateOK, LeftType

LEMMA HostHas ==
  ASSUME IInv, NEW h \in Hosts
  PROVE  HostOK(h) /\ FilesOK(h) /\ StagedOK(h) /\ KeptOn(h) /\ wk[h] \in Workers /\ disk[h] \in Files
         /\ sup[h] \subseteq Gens /\ exits[h] \subseteq Gens /\ ServerInv
BY ServerOf DEF IInv, HostsOK, TypeOK

-----------------------------------------------------------------------------
(* The steps of the daemon, one by one.                                    *)

LEMMA StartStep ==
  ASSUME IInv, NEW h \in Hosts, Start(h)
  PROVE  IInv'
<1>1. wk[h].at = "down" /\ Moves(h, "recover") /\ UNCHANGED <<server, late, disk, sup, exits, pushed, left>>
  BY DEF Start
<1>2. "recover" \in Stages
  BY DEF Stages
<1>3. PICK w \in Workers : wk' = [wk EXCEPT ![h] = w] /\ w.at = "recover" /\ w.bound = wk[h].bound
  BY <1>1, <1>2, MovesIs
<1>4. w.bound = 0
  BY <1>1, <1>3, HostHas DEF HostOK
<1>5. ServerInv' /\ Forward
  BY <1>1, ServerOf, ServerRests
<1> QED
  BY <1>1, <1>3, <1>4, <1>5, Still, WorkerMoves

\* A kill of the daemon.
LEMMA DaemonDiesStep ==
  ASSUME IInv, NEW h \in Hosts, DaemonDies(h)
  PROVE  IInv'
<1>1. Dies(h) /\ UNCHANGED <<server, late, disk, sup, exits, pushed>> /\ left.crashes > 0
      /\ left' = [left EXCEPT !.crashes = @ - 1]
  BY DEF DaemonDies
<1>2. LeftType'
  <2>1. PICK n \in Nat : n = left.crashes - 1
    BY <1>1 DEF IInv, TypeOK
  <2> QED
    BY <1>1, <2>1 DEF IInv, TypeOK, LeftType
<1>3. ServerInv' /\ Forward
  BY <1>1, ServerOf, ServerRests
<1>4. LateOK' /\ late' \subseteq Requests
  BY <1>1 DEF IInv, LateOK, TypeOK
<1> QED
  BY <1>1, <1>2, <1>3, <1>4, DiesKeeps

\* A step in which files on h change while no supervisor runs there.
LEMMA FilesMove ==
  ASSUME IInv, NEW h \in Hosts, NEW w \in Workers, NEW d \in Files,
         wk' = [wk EXCEPT ![h] = w], disk' = [disk EXCEPT ![h] = d], UNCHANGED <<sup, exits>>,
         ServerInv', Forward, LateOK', LeftType',
         late' \subseteq Requests, pushed \subseteq pushed', pushed' \subseteq Gens,
         sup[h] = {}, w.bound = 0, w.at \notin {"execute", "prepare"},
         w.at \in {"publish", "pushed", "post", "clean"} => w.gen = d.active /\ w.gen # 0,
         w.at = "post" => d.pending = w.gen,
         w.at = "clean" => run'.exit,
         w.at \in {"pushed", "post"} => w.gen \in pushed',
         d.active \in {0, disk[h].active}, d.pending \in {0, disk[h].pending, disk[h].active},
         d.pending # 0 => d.pending \in pushed',
         \A g \in exits[h] : Current(h, g)' => g \in {run'.got, d.active, d.pending}
  PROVE  IInv'
<1>1. wk' \in [Hosts -> Workers] /\ wk'[h] = w /\ \A k \in Hosts : k # h => wk'[k] = wk[k]
  BY DEF IInv, TypeOK
<1>2. disk' \in [Hosts -> Files] /\ disk'[h] = d /\ \A k \in Hosts : k # h => disk'[k] = disk[k]
  BY DEF IInv, TypeOK
<1>3. /\ run.last \in Nat /\ run'.last \in Nat /\ run.last <= run'.last
      /\ disk[h].active \in Nat /\ disk[h].pending \in Nat /\ exits[h] \subseteq Gens
      /\ d.active \in Nat /\ d.pending \in Nat
  BY DEF IInv, TypeOK, Runs, Files, Forward, Gens, ServerInv, ServerType
<1>4. HostOK(h)'
  BY <1>1, <1>2 DEF HostOK
<1>5. FilesOK(h)'
  <2>1. FilesOK(h)
    BY HostHas
  <2>2. \A g \in exits[h] : g <= run'.last
    BY <1>3, <2>1 DEF FilesOK, Gens
  <2>3. d.active <= run'.last /\ d.pending <= run'.last /\ (d.active # 0 => d.pending <= d.active)
    BY <1>3, <2>1 DEF FilesOK
  <2> QED
    BY <1>1, <1>2, <2>2, <2>3 DEF FilesOK
<1>6. StagedOK(h)'
  BY <1>1, <1>2 DEF StagedOK
<1>7. KeptOn(h)'
  BY <1>2 DEF KeptOn
<1> QED
  BY <1>1, <1>2, <1>4, <1>5, <1>6, <1>7, Together DEF HostInv, IInv, TypeOK

\* What one file less or more comes to.
LEMMA FilesAre ==
  ASSUME NEW f \in Files, NEW g \in 0 .. MaxGen
  PROVE  /\ [f EXCEPT !.active = 0] \in Files /\ [f EXCEPT !.active = 0].active = 0
         /\ [f EXCEPT !.active = 0].pending = f.pending
         /\ [f EXCEPT !.pending = g] \in Files /\ [f EXCEPT !.pending = g].active = f.active
         /\ [f EXCEPT !.pending = g].pending = g
         /\ [f EXCEPT !.active = 0, !.pending = 0] \in Files
         /\ [f EXCEPT !.active = 0, !.pending = 0].active = 0
         /\ [f EXCEPT !.active = 0, !.pending = 0].pending = 0
<1>1. 0 \in 0 .. MaxGen
  BY RemoteRunAssumption
<1> QED
  BY <1>1 DEF Files

\* What is not current now is not current after a step that moves forward.
LEMMA NotCurrentStays ==
  ASSUME IInv, NEW h \in Hosts, Forward, NEW g \in exits[h], Current(h, g)'
  PROVE  /\ Current(h, g) /\ g \in {run'.got, disk[h].active, disk[h].pending} /\ g # 0
         /\ disk[h].pending = g /\ disk[h].active # 0 => disk[h].active = g
<1>1. g \in Gens /\ g <= run.last /\ run.last \in Nat /\ KeptOn(h) /\ FilesOK(h)
      /\ disk[h].active \in Nat /\ disk[h].pending \in Nat
  BY HostHas DEF FilesOK, IInv, TypeOK, Runs, Files
<1>2. Current(h, g) /\ g \in {run'.got, disk[h].active, disk[h].pending}
  BY <1>1 DEF Forward, KeptOn
<1>3. g = run.last /\ g # 0
  BY <1>2 DEF Current, IInv, RecordOK
<1> QED
  BY <1>1, <1>2, <1>3 DEF FilesOK

\* recover_active_claims finds no claim, or quarantines one without an exit code.
LEMMA RecoverNothingStep ==
  ASSUME IInv, NEW h \in Hosts, RecoverNothing(h)
  PROVE  IInv'
<1> DEFINE d == [disk[h] EXCEPT !.active = 0]
<1>1. /\ wk[h].at = "recover" /\ disk[h].active \notin sup[h] \cup exits[h] /\ disk' = [disk EXCEPT ![h] = d]
      /\ Moves(h, "deliver") /\ UNCHANGED <<server, late, sup, exits, pushed, left>>
  BY DEF RecoverNothing
<1>2. d \in Files /\ d.active = 0 /\ d.pending = disk[h].pending
  <2>1. 0 \in 0 .. MaxGen
    BY RemoteRunAssumption
  <2> QED
    BY <2>1, HostHas, FilesAre
<1> HIDE DEF d
<1>3. "deliver" \in Stages
  BY DEF Stages
<1>4. PICK w \in Workers : wk' = [wk EXCEPT ![h] = w] /\ w.at = "deliver" /\ w.bound = wk[h].bound
  BY <1>1, <1>3, MovesIs
<1>5. w.bound = 0 /\ sup[h] = {} /\ StagedOK(h)
  BY <1>1, <1>4, HostHas DEF HostOK
<1>6. ServerInv' /\ Forward
  BY <1>1, ServerOf, ServerRests
<1>7. \A g \in exits[h] : Current(h, g)' => g \in {run'.got, d.active, d.pending}
  BY <1>1, <1>2, <1>6, NotCurrentStays
<1> QED
  BY <1>1, <1>2, <1>4, <1>5, <1>6, <1>7, Still, FilesMove DEF StagedOK

\* A recovered claim that has finished is published.
LEMMA RecoverFinishedStep ==
  ASSUME IInv, NEW h \in Hosts, RecoverFinished(h)
  PROVE  IInv'
<1> DEFINE w == [Down EXCEPT !.at = "publish", !.gen = disk[h].active, !.recovering = TRUE]
<1>1. wk[h].at = "recover" /\ disk[h].active \in exits[h] /\ wk' = [wk EXCEPT ![h] = w]
      /\ UNCHANGED <<server, late, disk, sup, exits, pushed, left>>
  BY DEF RecoverFinished
<1>2. w \in Workers /\ w.at = "publish" /\ w.gen = disk[h].active /\ w.bound = 0
  <2>1. disk[h].active \in 0 .. MaxGen /\ "publish" \in Stages
    BY HostHas DEF Files, Stages
  <2> QED
    BY <2>1, DownType DEF Workers
<1> HIDE DEF w
<1>3. sup[h] = {} /\ disk[h].active # 0
  BY <1>1, HostHas DEF HostOK, Gens
<1>4. ServerInv' /\ Forward
  BY <1>1, ServerOf, ServerRests
<1> QED
  BY <1>1, <1>2, <1>3, <1>4, Still, WorkerMoves

LEMMA DeliverNothingStep ==
  ASSUME IInv, NEW h \in Hosts, DeliverNothing(h)
  PROVE  IInv'
<1>1. wk[h].at = "deliver" /\ Moves(h, "poll") /\ UNCHANGED <<server, late, disk, sup, exits, pushed, left>>
  BY DEF DeliverNothing
<1>2. "poll" \in Stages
  BY DEF Stages
<1>3. PICK w \in Workers : wk' = [wk EXCEPT ![h] = w] /\ w.at = "poll" /\ w.bound = wk[h].bound
  BY <1>1, <1>2, MovesIs
<1>4. w.bound = 0 /\ sup[h] = {}
  BY <1>1, <1>3, HostHas DEF HostOK
<1>5. ServerInv' /\ Forward
  BY <1>1, ServerOf, ServerRests
<1> QED
  BY <1>1, <1>3, <1>4, <1>5, Still, WorkerMoves

\* deliver_pending_results: the result is taken, was taken, or is quarantined.
LEMMA DeliverStep ==
  ASSUME IInv, NEW h \in Hosts, Deliver(h)
  PROVE  IInv'
<1> DEFINE g == disk[h].pending
           d == [disk[h] EXCEPT !.pending = 0]
<1>1. wk[h].at = "deliver" /\ g # 0 /\ Unlocked /\ UNCHANGED <<late, sup, exits, pushed, left>>
  BY DEF Deliver
<1>2. g \in 0 .. MaxGen /\ 0 \in 0 .. MaxGen
  BY HostHas, RemoteRunAssumption DEF Files
<1>3. CASE Accepts(h, g) /\ BeginFinish(h, g, "work") /\ UNCHANGED <<wk, disk>>
  <2>1. g \in pushed
    BY <1>1, HostHas DEF StagedOK
  <2> HIDE DEF g
  <2>2. ServerInv' /\ Forward
    BY <1>1, <1>2, <1>3, <2>1, ServerOf, ReceiveKeeps
  <2> QED
    BY <1>1, <1>3, <2>2, Still, HostsRest DEF host
<1>4. CASE /\ ~Accepts(h, g) /\ disk' = [disk EXCEPT ![h].pending = 0] /\ Moves(h, "poll")
           /\ UNCHANGED <<run, serving, seen>>
  <2>1. disk' = [disk EXCEPT ![h] = d]
    BY <1>4
  <2>2. d \in Files /\ d.active = disk[h].active /\ d.pending = 0
    BY <1>2, HostHas, FilesAre
  <2>3. "poll" \in Stages
    BY DEF Stages
  <2>4. PICK w \in Workers : wk' = [wk EXCEPT ![h] = w] /\ w.at = "poll" /\ w.bound = wk[h].bound
    BY <1>4, <2>3, MovesIs
  <2>5. w.bound = 0 /\ sup[h] = {}
    BY <1>1, <2>4, HostHas DEF HostOK
  <2>6. ServerInv' /\ Forward
    BY <1>1, <1>4, ServerOf, ServerRests DEF server
  <2>7. ~Current(h, g)
    BY <1>4 DEF Accepts, Owns, Current
  <2>8. \A x \in exits[h] : Current(h, x)' => x \in {run'.got, d.active, d.pending}
    BY <2>2, <2>6, <2>7, NotCurrentStays
  <2> HIDE DEF d
  <2> QED
    BY <1>1, <2>1, <2>2, <2>4, <2>5, <2>6, <2>8, Still, FilesMove
<1> QED
  BY <1>3, <1>4 DEF Deliver

\* One request more that nobody waits for.
LEMMA LoseIs ==
  ASSUME IInv, left.lost > 0, left' = [left EXCEPT !.lost = @ - 1], NEW r \in Requests,
         late' = late \cup {r}, r.op = "finish" => r.gen \in pushed, UNCHANGED pushed
  PROVE  LateOK' /\ LeftType' /\ late' \subseteq Requests
<1>1. PICK n \in Nat : n = left.lost - 1
  BY DEF IInv, TypeOK
<1>2. LeftType'
  BY <1>1 DEF IInv, TypeOK, LeftType
<1> QED
  BY <1>2 DEF IInv, TypeOK, LateOK

LEMMA DeliverDeferredStep ==
  ASSUME IInv, NEW h \in Hosts, DeliverDeferred(h)
  PROVE  IInv'
<1> DEFINE r == [op |-> "finish", host |-> h, gen |-> disk[h].pending]
<1>1. /\ wk[h].at = "deliver" /\ disk[h].pending # 0 /\ left.lost > 0 /\ left' = [left EXCEPT !.lost = @ - 1]
      /\ late' = late \cup {r} /\ Moves(h, "poll") /\ UNCHANGED <<server, disk, sup, exits, pushed>>
  BY DEF DeliverDeferred
<1>2. r \in Requests /\ r.gen = disk[h].pending
  BY HostHas DEF Files, Requests
<1> HIDE DEF r
<1>3. "poll" \in Stages
  BY DEF Stages
<1>4. PICK w \in Workers : wk' = [wk EXCEPT ![h] = w] /\ w.at = "poll" /\ w.bound = wk[h].bound
  BY <1>1, <1>3, MovesIs
<1>5. w.bound = 0 /\ sup[h] = {} /\ disk[h].pending \in pushed
  BY <1>1, <1>4, HostHas DEF HostOK, StagedOK
<1>6. ServerInv' /\ Forward
  BY <1>1, ServerOf, ServerRests
<1>7. LateOK' /\ LeftType' /\ late' \subseteq Requests
  BY <1>1, <1>2, <1>5, LoseIs
<1> QED
  BY <1>1, <1>4, <1>5, <1>6, <1>7, WorkerMoves DEF IInv, TypeOK

LEMMA LoseClaimStep ==
  ASSUME IInv, NEW h \in Hosts, LoseClaim(h)
  PROVE  IInv'
<1> DEFINE r == [op |-> "claim", host |-> h, gen |-> 0]
<1>1. /\ left.lost > 0 /\ left' = [left EXCEPT !.lost = @ - 1] /\ late' = late \cup {r}
      /\ UNCHANGED <<server, host, pushed>>
  BY DEF LoseClaim
<1>2. r \in Requests /\ r.op = "claim"
  BY RemoteRunAssumption DEF Requests
<1> HIDE DEF r
<1>3. ServerInv' /\ Forward
  BY <1>1, ServerOf, ServerRests
<1>4. LateOK' /\ LeftType' /\ late' \subseteq Requests
  BY <1>1, <1>2, LoseIs
<1> QED
  BY <1>1, <1>3, <1>4, HostsRest DEF IInv, TypeOK

\* A granted generation is new: nothing of it was executed here.
LEMMA GrantNew ==
  ASSUME IInv, NEW h \in Hosts, Claimable
  PROVE  run.last + 1 \in 0 .. MaxGen /\ run.last + 1 \notin exits[h]
<1>1. run.last \in Nat /\ exits[h] \subseteq Gens /\ FilesOK(h)
  BY HostHas DEF IInv, TypeOK, Runs
<1> QED
  BY <1>1, RemoteRunAssumption DEF FilesOK, Claimable, Gens

LEMMA ClaimStep ==
  ASSUME IInv, NEW h \in Hosts, Claim(h)
  PROVE  IInv'
<1>1. wk[h].at = "poll" /\ wk[h].bound = 0 /\ Unlocked /\ UNCHANGED <<serving, late, disk, sup, exits, pushed, left>>
  BY DEF Claim
<1>2. sup[h] = {} /\ wk[h] \in Workers
  BY <1>1, HostHas DEF HostOK
<1>3. CASE Claimable /\ Grant(h) /\ wk' = [wk EXCEPT ![h].at = "prepare", ![h].gen = run.last + 1]
  <2>1. ServerInv' /\ Forward
    BY <1>1, <1>3, ServerOf, GrantKeeps
  <2>2. PICK n \in 0 .. MaxGen : n = run.last + 1 /\ n \notin exits[h]
    BY <1>3, GrantNew
  <2> DEFINE w == [wk[h] EXCEPT !.at = "prepare", !.gen = n]
  <2>3. w \in Workers /\ w.at = "prepare" /\ w.gen = n /\ w.bound = 0
    BY <1>1, <1>2 DEF Workers, Stages
  <2>4. wk' = [wk EXCEPT ![h] = w]
    BY <1>3, <2>2
  <2> HIDE DEF w
  <2> QED
    BY <1>1, <1>2, <2>1, <2>2, <2>3, <2>4, Still, WorkerMoves
<1>4. CASE ~Claimable /\ Moves(h, "recover") /\ UNCHANGED <<run, seen>>
  <2>1. "recover" \in Stages
    BY DEF Stages
  <2>2. PICK w \in Workers : wk' = [wk EXCEPT ![h] = w] /\ w.at = "recover" /\ w.bound = wk[h].bound
    BY <1>4, <2>1, MovesIs
  <2>3. ServerInv' /\ Forward
    BY <1>1, <1>4, ServerOf, ServerRests DEF server
  <2> QED
    BY <1>1, <2>2, <2>3, Still, WorkerMoves
<1> QED
  BY <1>3, <1>4 DEF Claim

LEMMA LateClaimStep ==
  ASSUME IInv, NEW h \in Hosts, LateClaim(h)
  PROVE  IInv'
<1>1. Unlocked /\ Claimable /\ Grant(h) /\ UNCHANGED <<serving, disk, sup, exits, pushed, left>> /\ late' \subseteq late
  BY DEF LateClaim
<1>2. ServerInv' /\ Forward
  BY <1>1, ServerOf, GrantKeeps
<1>3. LateOK' /\ LeftType' /\ late' \subseteq Requests /\ pushed \subseteq pushed' /\ pushed' \subseteq Gens
  BY <1>1 DEF IInv, TypeOK, LateOK, LeftType
<1>4. CASE wk[h].at = "poll" /\ wk[h].bound = 0 /\ wk' = [wk EXCEPT ![h].bound = run.last + 1]
  <2>1. PICK n \in 0 .. MaxGen : n = run.last + 1 /\ n \notin exits[h]
    BY <1>1, GrantNew
  <2> DEFINE w == [wk[h] EXCEPT !.bound = n]
  <2>2. wk[h] \in Workers /\ sup[h] = {}
    BY <1>4, HostHas DEF HostOK
  <2>3. w \in Workers /\ w.at = "poll" /\ w.bound = n
    BY <1>4, <2>2 DEF Workers
  <2>4. wk' = [wk EXCEPT ![h] = w]
    BY <1>4, <2>1
  <2> HIDE DEF w
  <2> QED
    BY <1>1, <1>2, <1>3, <2>1, <2>2, <2>3, <2>4, WorkerMoves
<1>5. CASE UNCHANGED wk
  BY <1>1, <1>2, <1>3, <1>5, HostsRest DEF host
<1> QED
  BY <1>4, <1>5 DEF LateClaim

LEMMA ReplayStep ==
  ASSUME IInv, NEW h \in Hosts, Replay(h)
  PROVE  IInv'
<1>1. wk[h].at = "poll" /\ wk[h].bound # 0 /\ UNCHANGED <<server, late, disk, sup, exits, pushed, left>>
  BY DEF Replay
<1>2. sup[h] = {} /\ wk[h].bound \notin exits[h] /\ wk[h].bound \in 0 .. MaxGen
  BY <1>1, HostHas DEF HostOK, Workers
<1>3. ServerInv' /\ Forward
  BY <1>1, ServerOf, ServerRests
<1>4. CASE wk' = [wk EXCEPT ![h] = [Down EXCEPT !.at = "prepare", !.gen = wk[h].bound]]
  <2> DEFINE w == [Down EXCEPT !.at = "prepare", !.gen = wk[h].bound]
  <2>1. w \in Workers /\ w.at = "prepare" /\ w.gen = wk[h].bound /\ w.bound = 0
    BY <1>2, DownType DEF Workers, Stages
  <2>2. wk' = [wk EXCEPT ![h] = w]
    BY <1>4
  <2> HIDE DEF w
  <2> QED
    BY <1>1, <1>2, <1>3, <2>1, <2>2, Still, WorkerMoves
<1>5. CASE Dies(h)
  BY <1>1, <1>3, <1>5, Still, DiesKeeps
<1> QED
  BY <1>4, <1>5 DEF Replay

\* The workload starts once its claim is on disk, and where no other runs.
LEMMA PrepareStep ==
  ASSUME IInv, NEW h \in Hosts, Prepare(h)
  PROVE  IInv'
<1> DEFINE g == wk[h].gen
           d == [disk[h] EXCEPT !.active = g]
<1>1. wk[h].at = "prepare" /\ UNCHANGED <<server, late, exits, pushed, left>>
  BY DEF Prepare
<1>2. ServerInv' /\ Forward
  BY <1>1, ServerOf, ServerRests
<1>3. /\ sup[h] = {} /\ g \notin exits[h] /\ wk[h].bound = 0 /\ wk[h] \in Workers /\ disk[h] \in Files
      /\ g \in 0 .. MaxGen /\ exits[h] \subseteq Gens
  BY <1>1, HostHas DEF HostOK, Workers
<1>4. CASE /\ Lockable(h) /\ Current(h, g) /\ sup' = [sup EXCEPT ![h] = @ \cup {g}]
           /\ disk' = [disk EXCEPT ![h].active = g] /\ Moves(h, "execute")
  <2>1. g = run.gen /\ g # 0 /\ g = run.last /\ g \in Gens
    BY <1>3, <1>4, RemoteRunAssumption DEF Current, IInv, RecordOK, Gens
  <2>2. sup' \in [Hosts -> SUBSET Gens] /\ sup'[h] = {g} /\ \A k \in Hosts : k # h => sup'[k] = sup[k]
    BY <1>3, <1>4, <2>1 DEF IInv, TypeOK
  <2>3. d \in Files /\ d.active = g /\ d.pending = disk[h].pending
    BY <1>3 DEF Files
  <2>4. disk' = [disk EXCEPT ![h] = d]
    BY <1>4
  <2> HIDE DEF d
  <2>5. disk' \in [Hosts -> Files] /\ disk'[h] = d /\ \A k \in Hosts : k # h => disk'[k] = disk[k]
    BY <2>3, <2>4 DEF IInv, TypeOK
  <2>6. PICK w \in Workers : wk' = [wk EXCEPT ![h] = w] /\ w.at = "execute" /\ w.gen = g /\ w.bound = wk[h].bound
    <3>1. "execute" \in Stages
      BY DEF Stages
    <3> QED
      BY <1>4, <3>1, MovesIs
  <2>7. wk' \in [Hosts -> Workers] /\ wk'[h] = w /\ \A k \in Hosts : k # h => wk'[k] = wk[k]
    BY <2>6 DEF IInv, TypeOK
  <2>8. UNCHANGED run
    BY <1>1 DEF server
  <2>9. HostOK(h)'
    BY <1>1, <1>3, <2>1, <2>2, <2>3, <2>5, <2>6, <2>7 DEF HostOK
  <2>10. FilesOK(h)'
    <3>1. FilesOK(h) /\ run.last \in Nat
      BY HostHas DEF IInv, TypeOK, Runs
    <3> QED
      BY <1>1, <2>1, <2>3, <2>5, <2>6, <2>7, <2>8, <3>1 DEF FilesOK
  <2>11. StagedOK(h)'
    BY <1>1, <2>3, <2>5, <2>6, <2>7, HostHas DEF StagedOK
  <2>12. KeptOn(h)'
    BY <1>1, <1>3, <2>1, <2>8 DEF KeptOn, Current
  <2> QED
    BY <1>1, <1>2, <2>2, <2>5, <2>7, <2>9, <2>10, <2>11, <2>12, Still, Together DEF HostInv, IInv, TypeOK
<1>5. CASE Moves(h, "unable") /\ UNCHANGED <<sup, disk>>
  <2>1. "unable" \in Stages
    BY DEF Stages
  <2>2. PICK w \in Workers : wk' = [wk EXCEPT ![h] = w] /\ w.at = "unable" /\ w.bound = wk[h].bound
    BY <1>5, <2>1, MovesIs
  <2> HIDE DEF g, d
  <2> QED
    BY <1>1, <1>2, <1>3, <1>5, <2>2, Still, WorkerMoves
<1>6. CASE Dies(h) /\ UNCHANGED <<sup, disk>>
  BY <1>1, <1>2, <1>6, Still, DiesKeeps
<1> QED
  BY <1>4, <1>5, <1>6 DEF Prepare

\* Down to the next claim, from where no supervisor runs.
LEMMA ContinuesKeeps ==
  ASSUME IInv, NEW h \in Hosts, Continues(h), UNCHANGED <<disk, sup, exits>>, sup[h] = {}, ServerInv', Forward,
         LateOK', LeftType', late' \subseteq Requests, UNCHANGED pushed
  PROVE  IInv'
<1>1. PICK w \in Workers : wk' = [wk EXCEPT ![h] = w] /\ w.at \in {"deliver", "recover"} /\ w.bound = 0
  BY ContinuesIs
<1> QED
  BY <1>1, WorkerMoves DEF IInv, TypeOK

LEMMA ReportUnableStep ==
  ASSUME IInv, NEW h \in Hosts, ReportUnable(h)
  PROVE  IInv'
<1>1. wk[h].at = "unable" /\ Unlocked /\ UNCHANGED <<late, disk, sup, exits, pushed, left>>
  BY DEF ReportUnable
<1>2. sup[h] = {} /\ wk[h].gen \in 0 .. MaxGen
  BY <1>1, HostHas DEF HostOK, Workers
<1>3. CASE Accepts(h, wk[h].gen) /\ BeginFinish(h, wk[h].gen, "failure") /\ UNCHANGED wk
  <2>1. ServerInv' /\ Forward
    BY <1>1, <1>2, <1>3, ServerOf, ReceiveKeeps
  <2> QED
    BY <1>1, <1>3, <2>1, Still, HostsRest DEF host
<1>4. CASE (Continues(h) \/ Dies(h)) /\ UNCHANGED <<run, serving, seen>>
  <2>1. ServerInv' /\ Forward
    BY <1>1, <1>4, ServerOf, ServerRests DEF server
  <2> QED
    BY <1>1, <1>2, <1>4, <2>1, Still, ContinuesKeeps, DiesKeeps
<1> QED
  BY <1>3, <1>4 DEF ReportUnable

\* A supervisor on h ends, with or without an exit code; files and record stay.
LEMMA SupervisorEnds ==
  ASSUME IInv, NEW h \in Hosts, NEW g \in sup[h], NEW X \in SUBSET {g},
         sup' = [sup EXCEPT ![h] = @ \ {g}], exits' = [exits EXCEPT ![h] = @ \cup X],
         UNCHANGED <<server, late, disk, pushed, left>>,
         UNCHANGED wk \/ Dies(h)
  PROVE  IInv'
<1>1. ServerInv' /\ Forward
  BY ServerOf, ServerRests
<1>2. HostOK(h) /\ FilesOK(h) /\ StagedOK(h) /\ KeptOn(h) /\ g \in Gens
  BY HostHas
<1>3. g = disk[h].active /\ sup[h] = {g}
  BY <1>2 DEF HostOK
<1>4. sup' \in [Hosts -> SUBSET Gens] /\ sup'[h] = {} /\ \A k \in Hosts : k # h => sup'[k] = sup[k]
  BY <1>3 DEF IInv, TypeOK
<1>5. exits' \in [Hosts -> SUBSET Gens] /\ exits'[h] = exits[h] \cup X /\ \A k \in Hosts : k # h => exits'[k] = exits[k]
  BY <1>2 DEF IInv, TypeOK
<1>6. /\ wk' \in [Hosts -> Workers] /\ \A k \in Hosts : k # h => wk'[k] = wk[k]
      /\ wk'[h] = wk[h] \/ (wk'[h].at = "down" /\ wk'[h].bound = 0)
  BY DownType DEF IInv, TypeOK, Dies
<1>7. wk[h].at \in {"off", "down", "recover", "execute"} /\ wk[h].bound = 0
  BY <1>2, <1>3 DEF HostOK
<1>8. UNCHANGED run
  BY DEF server
<1>9. HostOK(h)'
  BY <1>2, <1>4, <1>6, <1>7 DEF HostOK
<1>10. FilesOK(h)'
  BY <1>2, <1>3, <1>5, <1>6, <1>7, <1>8 DEF FilesOK
<1>11. StagedOK(h)'
  BY <1>2, <1>6, <1>7 DEF StagedOK
<1>12. KeptOn(h)'
  BY <1>2, <1>3, <1>5, <1>8 DEF KeptOn, Current
<1> QED
  BY <1>1, <1>4, <1>5, <1>6, <1>9, <1>10, <1>11, <1>12, Still, Together DEF HostInv, IInv, TypeOK

LEMMA ExitStep ==
  ASSUME IInv, NEW h \in Hosts, NEW g \in Gens, Exit(h, g)
  PROVE  IInv'
<1>1. /\ g \in sup[h] /\ sup' = [sup EXCEPT ![h] = @ \ {g}] /\ exits' = [exits EXCEPT ![h] = @ \cup {g}]
      /\ UNCHANGED <<server, late, wk, disk, pushed, left>>
  BY DEF Exit
<1> QED
  BY <1>1, SupervisorEnds

LEMMA FencedStep ==
  ASSUME IInv, NEW h \in Hosts, Fenced(h)
  PROVE  IInv'
<1>1. /\ wk[h].gen \in sup[h] /\ sup' = [sup EXCEPT ![h] = @ \ {wk[h].gen}] /\ Dies(h)
      /\ UNCHANGED <<server, late, disk, pushed, left>>
  BY DEF Fenced
<1>2. PICK X \in {{wk[h].gen}, {}} : exits' = [exits EXCEPT ![h] = @ \cup X]
  BY DEF Fenced
<1>3. X \in SUBSET {wk[h].gen}
  BY <1>2
<1> QED
  BY <1>1, <1>2, <1>3, SupervisorEnds

\* A claim that runs on without authority is stopped before the daemon polls.
LEMMA RecoverFencedStep ==
  ASSUME IInv, NEW h \in Hosts, RecoverFenced(h)
  PROVE  IInv'
<1> DEFINE g == disk[h].active
           d == [disk[h] EXCEPT !.active = 0]
<1>1. /\ wk[h].at = "recover" /\ g \in sup[h] \ exits[h] /\ sup' = [sup EXCEPT ![h] = @ \ {g}]
      /\ disk' = [disk EXCEPT ![h] = d] /\ Moves(h, "deliver") /\ UNCHANGED <<server, late, exits, pushed, left>>
  BY DEF RecoverFenced
<1>2. ServerInv' /\ Forward
  BY <1>1, ServerOf, ServerRests
<1>3. HostOK(h) /\ FilesOK(h) /\ StagedOK(h) /\ KeptOn(h) /\ disk[h] \in Files
  BY HostHas
<1>4. d \in Files /\ d.active = 0 /\ d.pending = disk[h].pending
  <2>1. 0 \in 0 .. MaxGen
    BY RemoteRunAssumption
  <2> QED
    BY <1>3, <2>1, FilesAre
<1> HIDE DEF d
<1>5. disk' \in [Hosts -> Files] /\ disk'[h] = d /\ \A k \in Hosts : k # h => disk'[k] = disk[k]
  BY <1>1, <1>4 DEF IInv, TypeOK
<1>6. sup' \in [Hosts -> SUBSET Gens] /\ sup'[h] = {} /\ \A k \in Hosts : k # h => sup'[k] = sup[k]
  BY <1>1, <1>3 DEF IInv, TypeOK, HostOK
<1>7. PICK w \in Workers : wk' = [wk EXCEPT ![h] = w] /\ w.at = "deliver" /\ w.bound = wk[h].bound
  <2>1. "deliver" \in Stages
    BY DEF Stages
  <2> QED
    BY <1>1, <2>1, MovesIs
<1>8. wk' \in [Hosts -> Workers] /\ wk'[h] = w /\ \A k \in Hosts : k # h => wk'[k] = wk[k]
  BY <1>7 DEF IInv, TypeOK
<1>9. UNCHANGED run
  BY <1>1 DEF server
<1>10. HostOK(h)'
  BY <1>1, <1>3, <1>6, <1>7, <1>8 DEF HostOK
<1>11. FilesOK(h)'
  <2>1. run.last \in Nat
    BY DEF IInv, TypeOK, Runs
  <2> QED
    BY <1>1, <1>3, <1>4, <1>5, <1>7, <1>8, <1>9, <2>1 DEF FilesOK
<1>12. StagedOK(h)'
  BY <1>1, <1>3, <1>4, <1>5, <1>7, <1>8 DEF StagedOK
<1>13. KeptOn(h)'
  BY <1>1, <1>3, <1>4, <1>5, <1>9 DEF KeptOn, Current
<1> QED
  BY <1>1, <1>2, <1>5, <1>6, <1>8, <1>10, <1>11, <1>12, <1>13, Still, Together DEF HostInv, IInv, TypeOK

LEMMA HostRebootsStep ==
  ASSUME IInv, NEW h \in Hosts, HostReboots(h)
  PROVE  IInv'
<1>1. /\ Dies(h) /\ sup' = [sup EXCEPT ![h] = {}] /\ left.crashes > 0
      /\ left' = [left EXCEPT !.crashes = @ - 1] /\ UNCHANGED <<server, late, disk, exits, pushed>>
  BY DEF HostReboots
<1>2. ServerInv' /\ Forward
  BY <1>1, ServerOf, ServerRests
<1>3. HostOK(h) /\ FilesOK(h) /\ StagedOK(h) /\ KeptOn(h)
  BY HostHas
<1>4. sup' \in [Hosts -> SUBSET Gens] /\ sup'[h] = {} /\ \A k \in Hosts : k # h => sup'[k] = sup[k]
  BY <1>1 DEF IInv, TypeOK
<1>5. /\ wk' \in [Hosts -> Workers] /\ wk'[h] = Down /\ \A k \in Hosts : k # h => wk'[k] = wk[k]
  BY <1>1, DownType DEF IInv, TypeOK, Dies
<1>6. UNCHANGED run
  BY <1>1 DEF server
<1>7. HostOK(h)'
  BY <1>1, <1>3, <1>4, <1>5, DownType DEF HostOK
<1>8. FilesOK(h)' /\ StagedOK(h)'
  BY <1>1, <1>3, <1>5, <1>6, DownType DEF FilesOK, StagedOK
<1>9. KeptOn(h)'
  BY <1>1, <1>3, <1>6 DEF KeptOn, Current
<1>10. LeftType' /\ LateOK'
  <2>1. PICK n \in Nat : n = left.crashes - 1
    BY <1>1 DEF IInv, TypeOK
  <2> QED
    BY <1>1, <2>1 DEF IInv, TypeOK, LeftType, LateOK
<1> QED
  BY <1>1, <1>2, <1>4, <1>5, <1>7, <1>8, <1>9, <1>10, Together DEF HostInv, IInv, TypeOK

\* A transcript chunk of the generation in force.
LEMMA UploadStep ==
  ASSUME IInv, NEW h \in Hosts, Upload(h)
  PROVE  IInv'
<1>1. /\ wk[h].at = "execute" /\ Current(h, wk[h].gen) /\ UNCHANGED <<serving, late, disk, sup, exits, pushed, left>>
  BY DEF Upload
<1>2. CASE run' = [run EXCEPT !.text = wk[h].gen] /\ seen' = Outdated /\ UNCHANGED wk
  <2>1. run \in Runs /\ wk[h].gen \in 0 .. MaxGen /\ seen \in {"none", "fresh", "outdated"}
    BY HostHas DEF IInv, TypeOK, Workers
  <2>2. /\ run' \in Runs /\ run'.status = run.status /\ run'.host = run.host /\ run'.gen = run.gen
        /\ run'.last = run.last /\ run'.got = run.got /\ run'.kind = run.kind /\ run'.exit = run.exit
        /\ run'.leased = run.leased /\ run'.over = run.over
    BY <1>2, <2>1 DEF Runs
  <2>3. seen' \in {"none", "fresh", "outdated"} /\ run.status = "running"
    BY <1>1, <1>2, <2>1 DEF Outdated, Current
  <2>4. ServerInv' /\ Forward
    BY <1>1, <2>2, <2>3, ServerOf, RecordKeeps
  <2> QED
    BY <1>1, <1>2, <2>4, Still, HostsRest DEF host
<1>3. CASE Dies(h) /\ UNCHANGED <<run, seen>>
  <2>1. ServerInv' /\ Forward
    BY <1>1, <1>3, ServerOf, ServerRests DEF server
  <2> QED
    BY <1>1, <1>3, <2>1, Still, DiesKeeps
<1> QED
  BY <1>2, <1>3 DEF Upload

LEMMA CollectStep ==
  ASSUME IInv, NEW h \in Hosts, Collect(h)
  PROVE  IInv'
<1>1. wk[h].at = "execute" /\ wk[h].gen \in exits[h] /\ Moves(h, "publish")
      /\ UNCHANGED <<server, late, disk, sup, exits, pushed, left>>
  BY DEF Collect
<1>2. "publish" \in Stages
  BY DEF Stages
<1>3. PICK w \in Workers : wk' = [wk EXCEPT ![h] = w] /\ w.at = "publish" /\ w.gen = wk[h].gen /\ w.bound = wk[h].bound
  BY <1>1, <1>2, MovesIs
<1>4. wk[h].gen = disk[h].active /\ wk[h].gen # 0 /\ sup[h] = {} /\ wk[h].bound = 0
  BY <1>1, HostHas DEF HostOK
<1>5. ServerInv' /\ Forward
  BY <1>1, ServerOf, ServerRests
<1> QED
  BY <1>1, <1>3, <1>4, <1>5, Still, WorkerMoves

\* A failed publication loses a result only when its lease is gone: what is
\* quarantined is refused, what is left is pending.
LEMMA PublicationFailsKeeps ==
  ASSUME IInv, NEW h \in Hosts, NEW refused \in BOOLEAN, PublicationFails(h, refused),
         wk[h].at \in {"publish", "pushed", "post"}, UNCHANGED <<server, sup, exits, pushed>>,
         ~Current(h, wk[h].gen) \/ (wk[h].at = "post" /\ ~refused),
         LateOK', LeftType', late' \subseteq Requests
  PROVE  IInv'
<1>1. ServerInv' /\ Forward
  BY ServerOf, ServerRests
<1>2. HostOK(h) /\ FilesOK(h) /\ StagedOK(h) /\ disk[h] \in Files /\ pushed \subseteq Gens /\ 0 \in 0 .. MaxGen
  BY HostHas, RemoteRunAssumption DEF IInv, TypeOK
<1>3. sup[h] = {} /\ wk[h].gen = disk[h].active /\ disk[h].active # 0
  BY <1>2 DEF HostOK
<1>4. CASE wk[h].recovering /\ disk[h].pending # 0
  <2> DEFINE d == [disk[h] EXCEPT !.active = 0, !.pending = IF refused THEN 0 ELSE @]
  <2>1. disk' = [disk EXCEPT ![h] = d] /\ Continues(h)
    BY <1>4 DEF PublicationFails
  <2>2. d \in Files /\ d.active = 0 /\ d.pending = IF refused THEN 0 ELSE disk[h].pending
    <3>1. CASE refused
      <4>1. d = [disk[h] EXCEPT !.active = 0, !.pending = 0]
        BY <3>1
      <4> QED
        BY <1>2, <3>1, <4>1, FilesAre
    <3>2. CASE ~refused
      <4>1. d = [disk[h] EXCEPT !.active = 0]
        BY <1>2, <3>2 DEF Files
      <4> QED
        BY <1>2, <3>2, <4>1, FilesAre
    <3> QED
      BY <3>1, <3>2
  <2> HIDE DEF d
  <2>3. PICK w \in Workers : wk' = [wk EXCEPT ![h] = w] /\ w.at \in {"deliver", "recover"} /\ w.bound = 0
    BY <2>1, ContinuesIs
  <2>4. ASSUME NEW g \in exits[h], Current(h, g)' PROVE g \in {run'.got, d.active, d.pending}
    <3>1. /\ Current(h, g) /\ g \in {run'.got, disk[h].active, disk[h].pending} /\ g # 0
          /\ disk[h].pending = g /\ disk[h].active # 0 => disk[h].active = g
      BY <1>1, <2>4, NotCurrentStays
    <3>2. CASE ~Current(h, disk[h].active)
      BY <1>3, <3>1, <3>2
    <3>3. CASE wk[h].at = "post" /\ ~refused
      BY <1>2, <1>3, <2>2, <3>1, <3>3 DEF FilesOK
    <3> QED
      BY <1>3, <3>2, <3>3
  <2> QED
    BY <1>1, <1>2, <1>3, <2>1, <2>2, <2>3, <2>4, FilesMove DEF StagedOK
<1>5. CASE ~(wk[h].recovering /\ disk[h].pending # 0)
  <2>1. Dies(h) /\ UNCHANGED disk
    BY <1>5 DEF PublicationFails
  <2> QED
    BY <1>1, <2>1, DiesKeeps
<1> QED
  BY <1>4, <1>5

\* The push to the staging ref, under a lease that a heartbeat just confirmed.
LEMMA PushStep ==
  ASSUME IInv, NEW h \in Hosts, Push(h)
  PROVE  IInv'
<1> DEFINE g == wk[h].gen
<1>1. wk[h].at = "publish" /\ UNCHANGED <<server, late, sup, exits, left>>
  BY DEF Push
<1>2. sup[h] = {} /\ g = disk[h].active /\ g # 0 /\ g \in Gens /\ wk[h].bound = 0
  <2>1. HostOK(h) /\ g \in 0 .. MaxGen
    BY HostHas DEF Workers
  <2> QED
    BY <1>1, <2>1, RemoteRunAssumption DEF HostOK, Gens
<1>3. CASE Moves(h, "pushed") /\ pushed' = pushed \cup {g} /\ UNCHANGED disk
  <2>1. pushed \subseteq pushed' /\ pushed' \subseteq Gens /\ g \in pushed'
    BY <1>2, <1>3 DEF IInv, TypeOK
  <2>2. ServerInv' /\ Forward
    BY <1>1, <2>1, ServerOf, ServerRests
  <2>3. LateOK' /\ LeftType' /\ late' \subseteq Requests
    BY <1>1, <2>1 DEF IInv, TypeOK, LateOK, LeftType
  <2>4. PICK w \in Workers : wk' = [wk EXCEPT ![h] = w] /\ w.at = "pushed" /\ w.gen = g /\ w.bound = wk[h].bound
    <3>1. "pushed" \in Stages
      BY DEF Stages
    <3> QED
      BY <1>3, <3>1, MovesIs
  <2> HIDE DEF g
  <2> QED
    BY <1>1, <1>2, <1>3, <2>1, <2>2, <2>3, <2>4, WorkerMoves
<1>4. CASE Refused(h) /\ UNCHANGED pushed
  BY <1>1, <1>4, Still, PublicationFailsKeeps DEF Refused
<1> QED
  BY <1>3, <1>4 DEF Push

\* The payload is made durable.
LEMMA PersistStep ==
  ASSUME IInv, NEW h \in Hosts, Persist(h)
  PROVE  IInv'
<1> DEFINE g == wk[h].gen
           d == [disk[h] EXCEPT !.pending = g]
<1>1. wk[h].at = "pushed" /\ UNCHANGED <<server, late, sup, exits, pushed, left>>
  BY DEF Persist
<1>2. /\ sup[h] = {} /\ g = disk[h].active /\ g # 0 /\ g \in 0 .. MaxGen /\ wk[h].bound = 0
      /\ g \in pushed /\ disk[h] \in Files
  BY <1>1, HostHas DEF HostOK, StagedOK, Workers
<1>3. CASE Current(h, g) /\ disk' = [disk EXCEPT ![h].pending = g] /\ Moves(h, "post")
  <2>1. disk' = [disk EXCEPT ![h] = d]
    BY <1>3
  <2>2. d \in Files /\ d.active = g /\ d.pending = g
    BY <1>2, FilesAre
  <2>3. ServerInv' /\ Forward
    BY <1>1, ServerOf, ServerRests
  <2>4. PICK w \in Workers : wk' = [wk EXCEPT ![h] = w] /\ w.at = "post" /\ w.gen = g /\ w.bound = wk[h].bound
    <3>1. "post" \in Stages
      BY DEF Stages
    <3> QED
      BY <1>3, <3>1, MovesIs
  <2>5. \A x \in exits[h] : Current(h, x)' => x \in {run'.got, d.active, d.pending}
    <3>1. UNCHANGED run
      BY <1>1 DEF server
    <3>2. \A x : Current(h, x)' => x = g
      BY <1>3, <3>1 DEF Current
    <3> QED
      BY <2>2, <3>2
  <2> HIDE DEF d, g
  <2> QED
    BY <1>1, <1>2, <2>1, <2>2, <2>3, <2>4, <2>5, Still, FilesMove
<1>4. CASE Refused(h)
  BY <1>1, <1>4, Still, PublicationFailsKeeps DEF Refused
<1> QED
  BY <1>3, <1>4 DEF Persist

\* The result is with the controller, marker and all: it is no longer pending.
LEMMA PostDone ==
  ASSUME IInv, NEW h \in Hosts, wk[h].at = "post", disk' = [disk EXCEPT ![h].pending = 0], Moves(h, "clean"),
         UNCHANGED <<sup, exits, late, pushed, left>>, ServerInv', Forward, run'.exit
  PROVE  IInv'
<1> DEFINE d == [disk[h] EXCEPT !.pending = 0]
<1>1. sup[h] = {} /\ wk[h].gen = disk[h].active /\ wk[h].gen # 0 /\ wk[h].bound = 0 /\ disk[h] \in Files
  BY HostHas DEF HostOK
<1>2. disk' = [disk EXCEPT ![h] = d] /\ 0 \in 0 .. MaxGen
  BY RemoteRunAssumption
<1>3. d \in Files /\ d.active = disk[h].active /\ d.pending = 0
  BY <1>1, <1>2, FilesAre
<1>4. PICK w \in Workers : wk' = [wk EXCEPT ![h] = w] /\ w.at = "clean" /\ w.gen = wk[h].gen /\ w.bound = wk[h].bound
  <2>1. "clean" \in Stages
    BY DEF Stages
  <2> QED
    BY <2>1, MovesIs
<1>5. \A x : ~Current(h, x)'
  BY DEF Current
<1> HIDE DEF d
<1>6. LateOK' /\ LeftType' /\ late' \subseteq Requests /\ pushed \subseteq pushed' /\ pushed' \subseteq Gens
  BY Still
<1>7. UNCHANGED <<sup, exits>> /\ w.bound = 0 /\ w.gen = d.active /\ w.gen # 0
  BY <1>1, <1>3, <1>4
<1> QED
  BY <1>1, <1>2, <1>3, <1>4, <1>5, <1>6, <1>7, FilesMove

LEMMA PostStep ==
  ASSUME IInv, NEW h \in Hosts, Post(h)
  PROVE  IInv'
<1>1. wk[h].at = "post" /\ Unlocked /\ UNCHANGED <<late, sup, exits, pushed, left>>
  BY DEF Post
<1>2. wk[h].gen \in pushed /\ wk[h].gen \in 0 .. MaxGen
  BY <1>1, HostHas DEF StagedOK, Workers
<1>3. CASE Accepts(h, wk[h].gen) /\ BeginFinish(h, wk[h].gen, "work") /\ UNCHANGED <<wk, disk>>
  <2>1. ServerInv' /\ Forward
    BY <1>1, <1>2, <1>3, ServerOf, ReceiveKeeps
  <2> QED
    BY <1>1, <1>3, <2>1, Still, HostsRest DEF host
<1>4. CASE /\ Replays(h, wk[h].gen, "work") /\ disk' = [disk EXCEPT ![h].pending = 0] /\ Moves(h, "clean")
           /\ UNCHANGED <<run, serving, seen>>
  <2>1. ServerInv' /\ Forward /\ run'.exit
    BY <1>1, <1>4, ServerOf, ServerRests DEF server, Replays
  <2> QED
    BY <1>1, <1>4, <2>1, PostDone
<1>5. CASE ~Accepts(h, wk[h].gen) /\ PublicationFails(h, TRUE) /\ UNCHANGED <<run, serving, seen>>
  <2>1. ~Current(h, wk[h].gen)
    BY <1>5 DEF Accepts, Owns, Current
  <2>2. UNCHANGED server
    BY <1>5 DEF server
  <2> QED
    BY <1>1, <1>5, <2>1, <2>2, Still, PublicationFailsKeeps
<1> QED
  BY <1>3, <1>4, <1>5 DEF Post

LEMMA LosePostStep ==
  ASSUME IInv, NEW h \in Hosts, LosePost(h)
  PROVE  IInv'
<1> DEFINE r == [op |-> "finish", host |-> h, gen |-> wk[h].gen]
<1>1. /\ wk[h].at = "post" /\ left.lost > 0 /\ left' = [left EXCEPT !.lost = @ - 1] /\ late' = late \cup {r}
      /\ UNCHANGED <<server, sup, exits, pushed>>
  BY DEF LosePost
<1>2. wk[h].gen \in pushed /\ wk[h].gen \in 0 .. MaxGen
  BY <1>1, HostHas DEF StagedOK, Workers
<1>3. r \in Requests /\ r.gen = wk[h].gen
  BY <1>2 DEF Requests
<1> HIDE DEF r
<1>4. LateOK' /\ LeftType' /\ late' \subseteq Requests
  BY <1>1, <1>2, <1>3, LoseIs
<1>5. CASE UNCHANGED <<wk, disk>>
  <2>1. ServerInv' /\ Forward
    BY <1>1, ServerOf, ServerRests
  <2> QED
    BY <1>1, <1>4, <1>5, <2>1, HostsRest DEF host, IInv, TypeOK
<1>6. CASE PublicationFails(h, FALSE)
  <2>1. PICK refused \in BOOLEAN : refused = FALSE /\ PublicationFails(h, refused)
    BY <1>6, Zenon
  <2> QED
    BY <1>1, <1>4, <2>1, PublicationFailsKeeps
<1> QED
  BY <1>5, <1>6 DEF LosePost

LEMMA LateFinishStep ==
  ASSUME IInv, NEW h \in Hosts, NEW g \in Gens, LateFinish(h, g)
  PROVE  IInv'
<1> DEFINE r == [op |-> "finish", host |-> h, gen |-> g]
<1>1. /\ r \in late /\ Unlocked /\ late' = late \ {r} /\ Accepts(h, g) /\ BeginFinish(h, g, "work")
      /\ UNCHANGED <<host, pushed, left>>
  BY DEF LateFinish
<1>2. g \in pushed /\ g \in 0 .. MaxGen
  BY <1>1 DEF IInv, LateOK, Gens
<1>3. ServerInv' /\ Forward
  BY <1>1, <1>2, ServerOf, ReceiveKeeps
<1>4. LateOK' /\ LeftType' /\ late' \subseteq Requests
  BY <1>1 DEF IInv, TypeOK, LateOK, LeftType
<1> QED
  BY <1>1, <1>3, <1>4, HostsRest DEF IInv, TypeOK

LEMMA CleanStep ==
  ASSUME IInv, NEW h \in Hosts, Clean(h)
  PROVE  IInv'
<1> DEFINE d == [disk[h] EXCEPT !.active = 0]
<1>1. wk[h].at = "clean" /\ disk' = [disk EXCEPT ![h] = d] /\ Continues(h)
      /\ UNCHANGED <<server, late, sup, exits, pushed, left>>
  BY DEF Clean
<1>2. sup[h] = {} /\ run.exit /\ StagedOK(h) /\ disk[h] \in Files
  BY <1>1, HostHas DEF HostOK, FilesOK
<1>3. d \in Files /\ d.active = 0 /\ d.pending = disk[h].pending
  <2>1. 0 \in 0 .. MaxGen
    BY RemoteRunAssumption
  <2> QED
    BY <1>2, <2>1, FilesAre
<1> HIDE DEF d
<1>4. PICK w \in Workers : wk' = [wk EXCEPT ![h] = w] /\ w.at \in {"deliver", "recover"} /\ w.bound = 0
  BY <1>1, ContinuesIs
<1>5. ServerInv' /\ Forward
  BY <1>1, ServerOf, ServerRests
<1>6. \A x : ~Current(h, x)'
  BY <1>1, <1>2 DEF Current, server
<1> QED
  BY <1>1, <1>2, <1>3, <1>4, <1>5, <1>6, Still, FilesMove DEF StagedOK

\* The marker is written and the daemon that waits for the answer gets it.
LEMMA EndFinishStep ==
  ASSUME IInv, EndFinish
  PROVE  IInv'
<1>1. /\ serving # NotServing /\ run' = [run EXCEPT !.exit = TRUE] /\ serving' = NotServing
      /\ UNCHANGED <<seen, late, sup, exits, pushed, left>>
  BY DEF EndFinish
<1>2. ServerInv' /\ Forward /\ run'.exit
  BY <1>1, ServerOf, MarkKeeps
<1>3. PICK h \in Hosts : h = serving.host
  BY <1>1 DEF IInv, RecordOK
<1>4. CASE UNCHANGED <<wk, disk>>
  BY <1>1, <1>2, <1>4, Still, HostsRest DEF host
<1>5. CASE wk[h].at = "post" /\ disk' = [disk EXCEPT ![h].pending = 0] /\ Moves(h, "clean")
  BY <1>1, <1>2, <1>3, <1>5, PostDone
<1>6. CASE wk[h].at = "deliver" /\ disk' = [disk EXCEPT ![h].pending = 0] /\ Moves(h, "poll")
  <2> DEFINE d == [disk[h] EXCEPT !.pending = 0]
  <2>1. sup[h] = {} /\ wk[h].bound = 0 /\ disk[h] \in Files
    BY <1>3, <1>6, HostHas DEF HostOK
  <2>2. disk' = [disk EXCEPT ![h] = d] /\ 0 \in 0 .. MaxGen
    BY <1>6, RemoteRunAssumption
  <2>3. d \in Files /\ d.active = disk[h].active /\ d.pending = 0
    <3>1. PICK f \in Files : f = disk[h]
      BY <2>1
    <3>2. /\ [f EXCEPT !.pending = 0] \in Files /\ [f EXCEPT !.pending = 0].active = f.active
          /\ [f EXCEPT !.pending = 0].pending = 0
      BY <2>2, <3>1 DEF Files
    <3> QED
      BY <3>1, <3>2
  <2>4. PICK w \in Workers : wk' = [wk EXCEPT ![h] = w] /\ w.at = "poll" /\ w.bound = wk[h].bound
    <3>1. "poll" \in Stages
      BY DEF Stages
    <3> QED
      BY <1>3, <1>6, <3>1, MovesIs
  <2>5. \A x : ~Current(h, x)'
    BY <1>2 DEF Current
  <2> HIDE DEF d
  <2> QED
    BY <1>1, <1>2, <1>3, <2>1, <2>2, <2>3, <2>4, <2>5, Still, FilesMove
<1>7. CASE wk[h].at = "unable" /\ Continues(h) /\ UNCHANGED disk
  <2>1. sup[h] = {}
    BY <1>3, <1>7, HostHas DEF HostOK
  <2> QED
    BY <1>1, <1>2, <1>3, <1>7, <2>1, Still, ContinuesKeeps
<1> QED
  BY <1>3, <1>4, <1>5, <1>6, <1>7 DEF EndFinish

\* The scheduler, time and a kill of the web process.
LEMMA ControllerStep ==
  ASSUME IInv, Inspect \/ Timeout \/ Pass \/ Finalize \/ LeaseLapses \/ DeadlinePasses \/ WebDies
  PROVE  IInv'
<1>1. UNCHANGED <<late, host, pushed>>
  BY DEF Inspect, Timeout, Pass, Finalize, LeaseLapses, DeadlinePasses, WebDies
<1>2. ServerInv' /\ Forward
  BY ServerOf, OthersKeep, TimeoutKeeps, FinalizeKeeps
<1>3. LeftType'
  <2>1. CASE UNCHANGED left
    BY <2>1 DEF IInv, TypeOK, LeftType
  <2>2. CASE WebDies
    <3>1. left.crashes > 0 /\ left' = [left EXCEPT !.crashes = @ - 1]
      BY <2>2 DEF WebDies
    <3>2. PICK n \in Nat : n = left.crashes - 1
      BY <3>1 DEF IInv, TypeOK
    <3> QED
      BY <3>1, <3>2 DEF IInv, TypeOK, LeftType
  <2> QED
    BY <2>1, <2>2 DEF Inspect, Timeout, Pass, Finalize, LeaseLapses, DeadlinePasses
<1>4. LateOK' /\ late' \subseteq Requests
  BY <1>1 DEF IInv, TypeOK, LateOK
<1> QED
  BY <1>1, <1>2, <1>3, <1>4, HostsRest DEF IInv, TypeOK

-----------------------------------------------------------------------------
(* The theorems.                                                           *)

LEMMA InitInvariant ==
  ASSUME Init
  PROVE  IInv
<1>1. 0 \in 0 .. MaxGen /\ MaxGen \in Nat
  BY RemoteRunAssumption
<1>2. PICK timed \in BOOLEAN :
        run = [status |-> "running", timed |-> timed, host |-> NoHost, gen |-> 0, last |-> 0,
               leased |-> FALSE, over |-> FALSE, got |-> 0, kind |-> "none", exit |-> FALSE, text |-> 0]
  BY DEF Init
<1>3. /\ run \in Runs /\ run.gen = 0 /\ run.last = 0 /\ run.got = 0 /\ run.kind = "none" /\ run.exit = FALSE
      /\ run.status = "running"
  BY <1>1, <1>2 DEF Runs
<1>4. ASSUME NEW h \in Hosts
      PROVE  /\ wk[h] \in Workers /\ wk[h].at \in {"poll", "off"} /\ wk[h].bound = 0
             /\ disk[h] \in Files /\ disk[h].active = 0 /\ disk[h].pending = 0 /\ sup[h] = {} /\ exits[h] = {}
  <2>1. PICK at \in {"poll", "off"} : wk[h] = [Down EXCEPT !.at = at]
    BY DEF Init
  <2>2. at \in Stages
    BY DEF Stages
  <2>3. wk[h] \in Workers /\ wk[h].at = at /\ wk[h].bound = 0
    BY <2>1, <2>2, DownType DEF Workers
  <2> QED
    BY <1>1, <2>3 DEF Init, Empty, Files
<1>5. TypeOK
  <2>1. wk \in [Hosts -> Workers] /\ disk \in [Hosts -> Files]
        /\ sup \in [Hosts -> SUBSET Gens] /\ exits \in [Hosts -> SUBSET Gens]
    BY <1>4 DEF Init
  <2> QED
    BY <1>3, <2>1, Unserved, RemoteRunAssumption DEF Init, TypeOK
<1>6. HostsOK
  <2>1. SUFFICES ASSUME NEW h \in Hosts PROVE HostOK(h) /\ FilesOK(h) /\ StagedOK(h) /\ KeptOn(h)
    BY DEF HostsOK
  <2>2. HostOK(h)
    BY <1>4 DEF HostOK
  <2>3. FilesOK(h)
    BY <1>3, <1>4 DEF FilesOK
  <2> QED
    BY <1>4, <2>2, <2>3 DEF StagedOK, KeptOn
<1> QED
  BY <1>3, <1>5, <1>6 DEF IInv, Init, RecordOK, ResultIntact, ResultPushed, LateOK

LEMMA StepInvariant ==
  ASSUME IInv, [Next]_vars
  PROVE  IInv'
<1>1. CASE UNCHANGED vars
  <2>1. UNCHANGED <<server, host, late, pushed, left>>
    BY <1>1 DEF vars
  <2>2. ServerInv' /\ Forward
    BY <2>1, ServerOf, ServerRests
  <2> QED
    BY <2>1, <2>2, Still, HostsRest
<1>2. CASE \E h \in Hosts : Daemon(h)
  BY <1>2, StartStep, RecoverNothingStep, RecoverFencedStep, RecoverFinishedStep, DeliverNothingStep, DeliverStep,
     ClaimStep, ReplayStep, PrepareStep, ReportUnableStep, FencedStep, CollectStep, PushStep, PersistStep, PostStep,
     CleanStep DEF Daemon
<1>3. CASE \E h \in Hosts : \/ Upload(h) \/ DeliverDeferred(h) \/ LoseClaim(h) \/ LosePost(h) \/ LateClaim(h)
                            \/ DaemonDies(h) \/ HostReboots(h)
                            \/ \E g \in Gens : Exit(h, g) \/ LateFinish(h, g)
  BY <1>3, UploadStep, DeliverDeferredStep, LoseClaimStep, LosePostStep, LateClaimStep, DaemonDiesStep,
     HostRebootsStep, ExitStep, LateFinishStep
<1> QED
  BY <1>1, <1>2, <1>3, EndFinishStep, ControllerStep DEF Next

\* The invariant that the other theorems rest on.
THEOREM RunInvariant == Spec => []IInv
<1>1. Init => IInv
  BY InitInvariant
<1>2. IInv /\ [Next]_vars => IInv'
  BY StepInvariant
<1> QED
  BY <1>1, <1>2, PTL DEF Spec

\* reap collects the result of one generation, the last one granted, and finalizes
\* it only while that generation's token is in force.
THEOREM ResultWhole == Spec => []ResultIntact
<1>1. IInv => ResultIntact
  BY DEF IInv
<1> QED
  BY <1>1, RunInvariant, PTL

\* finish never names a commit that was not pushed to its staging ref.
THEOREM ResultReachable == Spec => []ResultPushed
<1>1. IInv => ResultPushed
  BY DEF IInv
<1> QED
  BY <1>1, RunInvariant, PTL

\* A daemon that polls, or prepares a claim, has no supervisor left from before.
THEOREM PollingIdle == Spec => []PollsIdle
<1>1. IInv => PollsIdle
  BY DEF IInv, HostsOK, HostOK, PollsIdle
<1> QED
  BY <1>1, RunInvariant, PTL

\* The result of a finished execution is in a file of its host or with the
\* controller for as long as its lease is good, whatever was killed or lost.
THEOREM FinishedWorkSafe == Spec => []FinishedWorkKept
<1>1. IInv => FinishedWorkKept
  BY DEF IInv, HostsOK, KeptOn, FinishedWorkKept
<1> QED
  BY <1>1, RunInvariant, PTL

LEMMA StepVerdict ==
  ASSUME IInv, Next
  PROVE  Verdict
<1>1. CASE UNCHANGED run
  BY <1>1 DEF Verdict
<1>2. CASE run.status = "running" /\ ~run.exit
  BY <1>2 DEF Verdict
<1>3. CASE Timeout \/ Finalize \/ LeaseLapses \/ DeadlinePasses
  BY <1>3, ServerOf, TimeoutKeeps, FinalizeKeeps, OthersKeep DEF Forward
<1>4. CASE \E h \in Hosts : Claim(h) \/ LateClaim(h)
  BY <1>1, <1>2, <1>4 DEF Claim, LateClaim, Claimable
<1>5. CASE \E h \in Hosts : Deliver(h) \/ ReportUnable(h) \/ Post(h) \/ Upload(h) \/ \E g \in Gens : LateFinish(h, g)
  BY <1>1, <1>2, <1>5 DEF Deliver, ReportUnable, Post, Upload, LateFinish, Accepts, Current
<1>6. CASE EndFinish
  BY <1>2, <1>6 DEF EndFinish, IInv, RecordOK
<1>7. CASE \E h \in Hosts : \/ Start(h) \/ RecoverNothing(h) \/ RecoverFenced(h) \/ RecoverFinished(h)
                            \/ DeliverNothing(h) \/ Replay(h) \/ Prepare(h) \/ Fenced(h) \/ Collect(h)
                            \/ Push(h) \/ Persist(h) \/ Clean(h) \/ DeliverDeferred(h) \/ LoseClaim(h)
                            \/ LosePost(h) \/ DaemonDies(h) \/ HostReboots(h) \/ \E g \in Gens : Exit(h, g)
  <2>1. UNCHANGED server
    BY <1>7 DEF Start, RecoverNothing, RecoverFenced, RecoverFinished, DeliverNothing, Replay, Prepare, Fenced,
       Collect, Push, Persist, Clean, DeliverDeferred, LoseClaim, LosePost, DaemonDies, HostReboots, Exit
  <2> QED
    BY <1>1, <2>1 DEF server
<1>8. CASE WebDies \/ Inspect \/ Pass
  BY <1>1, <1>8 DEF WebDies, Inspect, Pass
<1> QED
  BY <1>3, <1>4, <1>5, <1>6, <1>7, <1>8 DEF Next, Daemon

\* No step takes an accepted result or a timeout back.
THEOREM VerdictStays == Spec => VerdictFinal
<1>1. IInv /\ [Next]_vars => [Verdict]_vars
  BY StepVerdict
<1>2. VerdictFinal <=> [][Verdict]_vars
  BY PTL DEF VerdictFinal, Verdict
<1> QED
  BY <1>1, <1>2, RunInvariant, PTL DEF Spec
=============================================================================

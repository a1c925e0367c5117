------------------------- MODULE OwnedTargetProofs -------------------------
(***************************************************************************)
(* Proofs about OwnedTarget, for every set of other servers, every set of  *)
(* process ids, every plan and every number of attempts.                   *)
(***************************************************************************)
EXTENDS OwnedTarget, SequenceTheorems, TLAPS

(* The script is never empty, and exit-empty is only its last command.     *)
LEMMA ScriptShape ==
  /\ Len(Script) \in Nat /\ Len(Script) >= 2
  /\ \A i \in 1 .. Len(Script) : Script[i] = "exit-empty" => i = Len(Script)
<1> DEFINE S == TopologyCommand \cup {"default-shell", "exit-empty"}
           head == <<"default-shell">>
           tail == <<"exit-empty">>
<1>1. /\ Plan \in Seq(S) /\ Len(Plan) \in Nat
      /\ head \in Seq(S) /\ Len(head) = 1 /\ head[1] = "default-shell"
      /\ tail \in Seq(S) /\ Len(tail) = 1
  <2>1. Plan \in Seq(S)
    <3>1. TopologyCommand \subseteq S
      OBVIOUS
    <3>. QED  BY <3>1, PlanIsTopology, SeqMonotonic, Zenon
  <2>2. Len(Plan) \in Nat
    BY PlanIsTopology
  <2>3. head \in Seq(S) /\ Len(head) = 1 /\ head[1] = "default-shell"
    OBVIOUS
  <2>4. tail \in Seq(S) /\ Len(tail) = 1
    OBVIOUS
  <2>. QED  BY <2>1, <2>2, <2>3, <2>4
<1>0. Script = (head \o Plan) \o tail
  BY Zenon DEF Script
<1> HIDE DEF S, head, tail
<1>2. /\ head \o Plan \in Seq(S)
      /\ Len(head \o Plan) = Len(head) + Len(Plan)
      /\ \A i \in 1 .. Len(head) + Len(Plan) :
           (head \o Plan)[i] = IF i <= Len(head) THEN head[i]
                               ELSE Plan[i - Len(head)]
  BY <1>1, ConcatProperties, Zenon
<1>3. /\ Len(Script) = Len(head \o Plan) + Len(tail)
      /\ \A i \in 1 .. Len(head \o Plan) + Len(tail) :
           Script[i] = IF i <= Len(head \o Plan) THEN (head \o Plan)[i]
                       ELSE tail[i - Len(head \o Plan)]
  <2>1. \A t \in Seq(S) :
          /\ Len(t \o tail) = Len(t) + Len(tail)
          /\ \A i \in 1 .. Len(t) + Len(tail) :
               (t \o tail)[i] = IF i <= Len(t) THEN t[i] ELSE tail[i - Len(t)]
    BY <1>1, ConcatProperties, Zenon
  <2>. QED  BY <1>0, <1>2, <2>1, Zenon
<1>4. Len(Script) = Len(Plan) + 2
  BY <1>1, <1>2, <1>3
<1>5. ASSUME NEW i \in 1 .. Len(Plan) + 1 PROVE Script[i] # "exit-empty"
  <2>1. Script[i] = (head \o Plan)[i]
    BY <1>1, <1>2, <1>3
  <2>2. CASE i = 1
    <3>1. (head \o Plan)[1] = "default-shell"
      BY <1>1, <1>2
    <3>. QED  BY <2>1, <2>2, <3>1
  <2>3. CASE i # 1
    <3>1. i - 1 \in 1 .. Len(Plan)
      BY <2>3, <1>1
    <3>2. Plan[i - 1] \in TopologyCommand
      BY <3>1, PlanIsTopology, ElementOfSeq, Zenon
    <3>3. (head \o Plan)[i] = Plan[i - 1]
      BY <2>3, <1>1, <1>2
    <3>. QED  BY <2>1, <3>2, <3>3 DEF TopologyCommand
  <2>. QED  BY <2>2, <2>3
<1>. QED  BY <1>1, <1>4, <1>5

(* The parts of a step keep the types of what they assign.                 *)
LEMMA SessionsType ==
  ASSUME TypeOK, NEW s \in Server PROVE Sessions(s) \in Nat
BY MaxSessionsIsNat DEF TypeOK, Sessions

LEMMA UnmatchedType ==
  ASSUME TypeOK, Unmatched
  PROVE  /\ pc' \in {"read1", "done"} /\ asConfirm' \in BOOLEAN
         /\ obs' = Nobody /\ captured' = Nobody
         /\ report' \in Disposition \cup {"NotEstablished", "none"}
BY DEF TypeOK, Unmatched, Disposition

LEMMA ConcludeType ==
  ASSUME TypeOK, NEW d \in Disposition, Conclude(d)
  PROVE  /\ pc' \in {"observe", "done"} /\ polls' \in 0 .. Attempts
         /\ report' \in Disposition \cup {"NotEstablished", "none"}
BY AttemptsIsNat DEF TypeOK, Conclude, Reported, Disposition

LEMMA ObserveType ==
  ASSUME NEW n \in 0 .. Attempts, NEW removed \in BOOLEAN, Observe(n, removed)
  PROVE  pc' = "observe" /\ polls' \in 0 .. Attempts /\ cleared' \in BOOLEAN
BY Zenon DEF Observe

LEMMA AfterCommandType ==
  ASSUME TypeOK, NEW ok \in BOOLEAN, AfterCommand(ok)
  PROVE  /\ pc' \in {"observe", "recover", "check"}
         /\ mode' \in Modes /\ step' \in 1 .. Len(Script)
         /\ cleared' \in BOOLEAN /\ polls' \in 0 .. Attempts
         /\ UNCHANGED <<asConfirm, obs, captured, report>>
<1>1. CASE mode \in {"cleanup", "rollback"}
  <2>1. Attempts \in 0 .. Attempts
    BY AttemptsIsNat
  <2>2. Observe(Attempts, ok) \/ Observe(Attempts, TRUE)
    BY <1>1, Zenon DEF AfterCommand
  <2>3. pc' = "observe" /\ polls' \in 0 .. Attempts /\ cleared' \in BOOLEAN
    BY <2>1, <2>2, ObserveType, Zenon
  <2>4. UNCHANGED <<mode, step, asConfirm, obs, captured, report>>
    BY <1>1 DEF AfterCommand
  <2>. QED  BY <2>3, <2>4 DEF TypeOK
<1>2. CASE mode = "command" /\ ok
  BY <1>2, ScriptShape DEF TypeOK, AfterCommand, Modes
<1>3. CASE mode = "command" /\ ~ok
  BY <1>3 DEF TypeOK, AfterCommand, Modes
<1>. QED  BY <1>1, <1>2, <1>3 DEF AfterCommand

(* Every step keeps the types. *)
LEMMA TypeStep == ASSUME TypeOK, Evidence, [Next]_vars PROVE TypeOK'
<1> USE DEF TypeOK
<1>1. CASE Restore
  <2>1. CASE ClaimRefused
    BY <2>1 DEF ClaimRefused, processes, tmux, history
  <2>2. CASE StartServer
    BY <2>2 DEF StartServer, StartServerReply, ClaimConfig, Server, processes,
                history
  <2>3. CASE ReadFirst
    <3>1. CASE Unmatched
      BY <2>3, <3>1, UnmatchedType DEF ReadFirst, processes, tmux, history
    <3>2. ASSUME NEW p \in Pid, obs' = Observation(Mine, p), pc' = "capture",
                 UNCHANGED <<asConfirm, captured, report>>
          PROVE  TypeOK'
      <4>1. obs' \in Observations
        BY <3>2, SessionsType DEF Observation, Observations, Server
      <4>. QED  BY <2>3, <3>2, <4>1 DEF ReadFirst, processes, tmux, history
    <3>. QED  BY <2>3, <3>1, <3>2 DEF ReadFirst
  <2>4. CASE CaptureProcess
    <3>1. CASE Unmatched
      BY <2>4, <3>1, UnmatchedType DEF CaptureProcess, processes, tmux, history
    <3>2. ASSUME captured' = [pid |-> obs.pid, who |-> occupant[obs.pid]],
                 occupant[obs.pid] # Nobody, pc' = "read2", obs.pid \in Pid,
                 UNCHANGED <<asConfirm, obs, report>>
          PROVE  TypeOK'
      <4>1. captured' \in Identities
        BY <3>2 DEF Identities
      <4>. QED  BY <2>4, <3>2, <4>1 DEF CaptureProcess, processes, tmux, history
    <3>. QED  BY <2>4, <3>1, <3>2 DEF CaptureProcess, Evidence, Observations
  <2>5. CASE ReadAgain
    BY <2>5, UnmatchedType DEF ReadAgain, processes, tmux, history
  <2>6. CASE Matched
    BY <2>6, UnmatchedType DEF Matched, Modes, processes, tmux, history
  <2>7. CASE ObserveEndpoint
    <3>1. CASE Conclude("Unknown")
      BY <2>7, <3>1, ConcludeType
         DEF ObserveEndpoint, Disposition, processes, tmux, history
    <3>2. CASE pc' \in {"present", "absent"} /\ UNCHANGED <<polls, report>>
      BY <2>7, <3>2 DEF ObserveEndpoint, processes, tmux, history
    <3>. QED  BY <2>7, <3>1, <3>2 DEF ObserveEndpoint
  <2>8. CASE ObserveProcess
    <3>1. \E d \in Disposition : Conclude(d)
      BY <2>8 DEF ObserveProcess, WhenAbsent, Disposition
    <3>. QED
      BY <2>8, <3>1, ConcludeType DEF ObserveProcess, processes, tmux, history
  <2>9. CASE Recheck
    <3>1. CASE AfterCommand(FALSE)
      BY <2>9, <3>1, AfterCommandType DEF Recheck, processes, tmux, history
    <3>2. CASE /\ pc' = "check"
               /\ UNCHANGED <<mode, asConfirm, obs, captured, step, cleared,
                              polls, report>>
      BY <2>9, <3>2 DEF Recheck, processes, tmux, history
    <3>. QED  BY <2>9, <3>1, <3>2 DEF Recheck
  <2>10. CASE Check
    <3>1. CASE AfterCommand(FALSE)
      BY <2>10, <3>1, AfterCommandType DEF Check, processes, tmux, history
    <3>2. CASE /\ pc' = "dispatch"
               /\ UNCHANGED <<mode, asConfirm, obs, captured, step, cleared,
                              polls, report>>
      BY <2>10, <3>2 DEF Check, processes, tmux, history
    <3>. QED  BY <2>10, <3>1, <3>2 DEF Check
  <2>11. CASE Dispatch
    <3>1. PICK ok \in BOOLEAN : AfterCommand(ok)
      BY <2>11 DEF Dispatch
    <3>2. ASSUME NEW s \in Server, TakesEffect(s), touched' = touched \cup {s}
          PROVE  /\ endpoint' \in Server \cup {Nobody} /\ own' \in Nat
                 /\ others' \in [Server -> 0 .. MaxSessions]
                 /\ exitEmpty' \in BOOLEAN /\ closing' \in BOOLEAN
                 /\ touched' \subseteq Server /\ spoiled' \in Nat
      <4>1. endpoint' \in Server \cup {Nobody} /\ touched' \subseteq Server
        BY <3>2 DEF TakesEffect
      <4>2. own' \in Nat
        <5>1. CASE mode = "command"
          BY <3>2, <5>1 DEF TakesEffect
        <5>2. CASE mode # "command"
          BY <3>2, <5>2 DEF TakesEffect
        <5>. QED  BY <5>1, <5>2
      <4>3. others' \in [Server -> 0 .. MaxSessions]
        <5>1. CASE mode = "command"
          BY <3>2, <5>1 DEF TakesEffect
        <5>2. CASE mode # "command"
          <6>1. others' = [others EXCEPT ![s] = 0] /\ 0 \in 0 .. MaxSessions
            BY <3>2, <5>2, MaxSessionsIsNat DEF TakesEffect
          <6>. QED  BY <6>1
        <5>. QED  BY <5>1, <5>2
      <4>4. exitEmpty' \in BOOLEAN
        BY <3>2 DEF TakesEffect
      <4>5. closing' \in BOOLEAN
        BY <3>2 DEF TakesEffect
      <4>6. spoiled' \in Nat
        <5>1. Sessions(s) \in Nat
          BY <3>2, SessionsType
        <5>2. CASE mode = "cleanup"
          <6>1. spoiled' = spoiled + Sessions(s)
            BY <3>2, <5>2 DEF TakesEffect
          <6>. QED  BY <5>1, <6>1
        <5>3. CASE mode # "cleanup"
          <6>1. spoiled' = spoiled
            BY <3>2, <5>3 DEF TakesEffect
          <6>. QED  BY <6>1
        <5>. QED  BY <5>2, <5>3
      <4>. QED  BY <4>1, <4>2, <4>3, <4>4, <4>5, <4>6
    <3>3. /\ endpoint' \in Server \cup {Nobody} /\ own' \in Nat
          /\ others' \in [Server -> 0 .. MaxSessions]
          /\ exitEmpty' \in BOOLEAN /\ closing' \in BOOLEAN
          /\ touched' \subseteq Server /\ spoiled' \in Nat
      BY <2>11, <3>2 DEF Dispatch, tmux, history
    <3>4. UNCHANGED processes
      BY <2>11 DEF Dispatch
    <3>. QED  BY <3>1, <3>3, <3>4, AfterCommandType DEF processes
  <2>12. CASE Recover
    <3>1. 0 \in 0 .. Attempts
      BY AttemptsIsNat
    <3>2. pc' = "observe" /\ polls' \in 0 .. Attempts /\ cleared' \in BOOLEAN
      BY <2>12, <3>1, ObserveType, Zenon DEF Recover
    <3>. QED  BY <2>12, <3>2 DEF Recover, Modes, processes, tmux, history
  <2>. QED  BY <1>1, <2>1, <2>2, <2>3, <2>4, <2>5, <2>6, <2>7, <2>8, <2>9,
               <2>10, <2>11, <2>12 DEF Restore
<1>2. CASE Others
  <2> USE DEF restore, processes, tmux, history
  <2>1. CASE ForeignStarts
    BY <2>1 DEF ForeignStarts, Server
  <2>2. CASE SessionOpened
    BY <2>2, MaxSessionsIsNat DEF SessionOpened
  <2>3. CASE SessionEnds
    BY <2>3, MaxSessionsIsNat DEF SessionEnds
  <2>4. CASE EmptyServerCloses
    BY <2>4 DEF EmptyServerCloses
  <2>5. ASSUME NEW s \in Server, ServerExits(s) PROVE TypeOK'
    BY <2>5, MaxSessionsIsNat DEF ServerExits
  <2>6. CASE SocketMoved
    BY <2>6 DEF SocketMoved
  <2>7. CASE PidReused
    BY <2>7 DEF PidReused
  <2>. QED  BY <1>2, <2>1, <2>2, <2>3, <2>4, <2>5, <2>6, <2>7 DEF Others
<1>3. CASE UNCHANGED vars
  BY <1>3 DEF vars, restore, processes, tmux, history
<1>. QED  BY <1>1, <1>2, <1>3 DEF Next
----------------------------------------------------------------------------
(* Only start-server creates this restore's server: once the claim is past *)
(* it, no process becomes the server again.                                *)
LEMMA NoRebirth ==
  ASSUME TypeOK, [Next]_vars, pc # "claim"
  PROVE  /\ \A p \in Pid : occupant'[p] = Mine => occupant[p] = Mine
         /\ Mine \in born' <=> Mine \in born
<1>1. CASE Restore \/ UNCHANGED vars
  <2>1. UNCHANGED processes
    BY <1>1 DEF Restore, ClaimRefused, StartServer, ReadFirst, CaptureProcess,
       ReadAgain, Matched, ObserveEndpoint, ObserveProcess, Recheck, Check,
       Dispatch, Recover, vars
  <2>. QED  BY <2>1 DEF processes
<1>2. CASE Others
  <2>1. CASE ForeignStarts
    BY <2>1, KindsAreDistinct DEF ForeignStarts, TypeOK
  <2>2. CASE SessionOpened \/ SessionEnds \/ EmptyServerCloses \/ SocketMoved
    BY <2>2 DEF SessionOpened, SessionEnds, EmptyServerCloses, SocketMoved,
                processes
  <2>3. ASSUME NEW s \in Server, ServerExits(s)
        PROVE  /\ \A p \in Pid : occupant'[p] = Mine => occupant[p] = Mine
               /\ Mine \in born' <=> Mine \in born
    BY <2>3, KindsAreDistinct DEF ServerExits, TypeOK, Server
  <2>4. CASE PidReused
    BY <2>4, KindsAreDistinct DEF PidReused, TypeOK, Server
  <2>. QED  BY <1>2, <2>1, <2>2, <2>3, <2>4 DEF Others
<1>. QED  BY <1>1, <1>2 DEF Next

LEMMA OthersKeepRestore == ASSUME Others \/ UNCHANGED vars PROVE UNCHANGED restore
BY DEF Others, ForeignStarts, SessionOpened, SessionEnds, EmptyServerCloses,
       ServerExits, SocketMoved, PidReused, vars

LEMMA BirthStep ==
  ASSUME TypeOK, Birth, [Next]_vars PROVE Birth'
<1>1. CASE pc = "claim"
  <2>1. CASE ClaimRefused
    BY <1>1, <2>1 DEF ClaimRefused, Birth, Live, processes
  <2>2. CASE StartServer
    <3>1. \A p \in Pid : occupant[p] # Mine
      BY <1>1 DEF Birth, Live
    <3>2. CASE UNCHANGED processes
      BY <1>1, <2>2, <3>1, <3>2
         DEF StartServer, StartServerReply, Birth, Live, processes
    <3>3. ASSUME NEW p \in Pid, occupant' = [occupant EXCEPT ![p] = Mine],
                 born' = born \cup {Mine}
          PROVE  Birth'
      BY <2>2, <3>1, <3>3 DEF StartServer, StartServerReply, Birth, Live, TypeOK
    <3>. QED  BY <2>2, <3>2, <3>3 DEF StartServer
  <2>3. CASE Others \/ UNCHANGED vars
    <3>1. UNCHANGED <<pc, report>>
      BY <2>3, OthersKeepRestore DEF restore
    <3>2. Mine \notin born' /\ ~Live(Mine)'
      <4>1. CASE ForeignStarts
        BY <1>1, <4>1, KindsAreDistinct DEF ForeignStarts, Birth, Live, TypeOK
      <4>2. CASE SessionOpened \/ SessionEnds \/ EmptyServerCloses \/ SocketMoved
                 \/ UNCHANGED vars
        BY <1>1, <4>2 DEF SessionOpened, SessionEnds, EmptyServerCloses,
           SocketMoved, processes, vars, Birth, Live
      <4>3. ASSUME NEW s \in Server, ServerExits(s)
            PROVE  Mine \notin born' /\ ~Live(Mine)'
        BY <1>1, <4>3, KindsAreDistinct
           DEF ServerExits, Birth, Live, TypeOK, Server
      <4>4. CASE PidReused
        BY <1>1, <4>4, KindsAreDistinct DEF PidReused, Birth, Live, TypeOK, Server
      <4>. QED  BY <2>3, <4>1, <4>2, <4>3, <4>4 DEF Others
    <3>. QED  BY <1>1, <3>1, <3>2 DEF Birth, Live
  <2>. QED
    BY <1>1, <2>1, <2>2, <2>3
       DEF Next, Restore, ReadFirst, CaptureProcess, ReadAgain, Matched,
           ObserveEndpoint, ObserveProcess, Recheck, Check, Dispatch, Recover
<1>2. CASE pc # "claim"
  <2>1. /\ Live(Mine)' => Mine \in born'
        /\ (\A p, q \in Pid : occupant[p] = Mine /\ occupant[q] = Mine => p = q)'
    BY <1>2, NoRebirth DEF Birth, Live
  <2>2. pc' # "claim" /\ (pc' # "done" => report' = "none")
    <3>1. CASE Restore
      BY <1>2, <3>1
         DEF Restore, Birth, ClaimRefused, StartServer, ReadFirst,
             CaptureProcess, ReadAgain, Matched, ObserveEndpoint,
             ObserveProcess, Recheck, Check, Dispatch, Recover, Unmatched,
             Conclude, AfterCommand, Observe
    <3>2. CASE Others \/ UNCHANGED vars
      BY <1>2, <3>2, OthersKeepRestore DEF restore, Birth
    <3>. QED  BY <3>1, <3>2 DEF Next
  <2>. QED  BY <2>1, <2>2 DEF Birth
<1>. QED  BY <1>1, <1>2
----------------------------------------------------------------------------
(* A failed match drops the evidence. *)
LEMMA UnmatchedEvidence == ASSUME Unmatched PROVE Evidence'
BY DEF Unmatched, Evidence, Deciding

(* Once decided, the evidence is kept as long as it is not touched. *)
LEMMA EvidenceKept ==
  ASSUME TypeOK, Evidence, [Next]_vars, pc \in Deciding,
         pc' \in Deciding \cup {"done"}, UNCHANGED captured
  PROVE  Evidence'
<1>1. \A p \in Pid : occupant'[p] = Mine => occupant[p] = Mine
  BY NoRebirth DEF Deciding
<1>2. captured \in Identities /\ captured.who = Mine /\ MineHas(captured.pid)
  BY DEF Evidence
<1>. QED  BY <1>1, <1>2 DEF Evidence, MineHas, Deciding

LEMMA AfterCommandEvidence ==
  ASSUME TypeOK, Evidence, [Next]_vars, pc \in Deciding,
         NEW ok \in BOOLEAN, AfterCommand(ok)
  PROVE  Evidence'
<1>1. pc' \in Deciding /\ UNCHANGED captured
  BY AfterCommandType DEF Deciding
<1>. QED  BY <1>1, EvidenceKept

LEMMA ConcludeEvidence ==
  ASSUME TypeOK, Evidence, [Next]_vars, pc \in Deciding,
         NEW d \in Disposition, Conclude(d), UNCHANGED captured
  PROVE  Evidence'
<1>1. pc' \in Deciding \cup {"done"}
  BY ConcludeType DEF Deciding
<1>. QED  BY <1>1, EvidenceKept

(* The second read can only repeat the first one if the process captured    *)
(* in between is the server itself.                                         *)
LEMMA EvidenceStep ==
  ASSUME TypeOK, Birth, Evidence, [Next]_vars PROVE Evidence'
<1>1. CASE ClaimRefused \/ StartServer
  BY <1>1 DEF ClaimRefused, StartServer, StartServerReply, Evidence, Deciding
<1>2. CASE ReadFirst
  <2>1. CASE Unmatched
    BY <2>1, UnmatchedEvidence
  <2>2. ASSUME NEW p \in Pid, Answering(Mine, p), obs' = Observation(Mine, p),
               pc' = "capture", UNCHANGED captured
        PROVE  Evidence'
    <3>1. obs' \in Observations /\ obs'.server = Mine /\ obs'.pid = p
      BY <2>2, SessionsType DEF Observation, Observations, Server
    <3>2. \A q \in Pid : occupant[q] = Mine => q = p
      BY <2>2 DEF Answering, Birth
    <3>3. MineHas(p)'
      BY <1>2, <3>2 DEF ReadFirst, processes, MineHas
    <3>. QED  BY <1>2, <2>2, <3>1, <3>3 DEF ReadFirst, Evidence, Deciding
  <2>. QED  BY <1>2, <2>1, <2>2 DEF ReadFirst
<1>3. CASE CaptureProcess
  <2>1. CASE Unmatched
    BY <2>1, UnmatchedEvidence
  <2>2. ASSUME occupant[obs.pid] # Nobody, pc' = "read2", UNCHANGED obs,
               captured' = [pid |-> obs.pid, who |-> occupant[obs.pid]]
        PROVE  Evidence'
    <3>1. obs \in Observations /\ obs.server = Mine /\ MineHas(obs.pid)
      BY <1>3 DEF CaptureProcess, Evidence
    <3>2. captured' \in Identities /\ captured'.pid = obs.pid
          /\ captured'.who = occupant[obs.pid]
      BY <2>2, <3>1 DEF Observations, Identities, TypeOK
    <3>3. captured'.who = Mine \/ ~Live(Mine)
      BY <3>1, <3>2 DEF MineHas, Live
    <3>. QED
      BY <1>3, <2>2, <3>1, <3>2, <3>3
         DEF CaptureProcess, processes, Evidence, MineHas, Live, Deciding
  <2>. QED  BY <1>3, <2>1, <2>2 DEF CaptureProcess
<1>4. CASE ReadAgain
  <2>1. CASE Unmatched
    BY <2>1, UnmatchedEvidence
  <2>2. ASSUME NEW s \in Server, NEW p \in Pid, Answering(s, p),
               Observation(s, p) = obs, pc' = "same",
               UNCHANGED <<obs, captured>>
        PROVE  Evidence'
    <3>1. /\ obs \in Observations /\ obs.server = Mine /\ MineHas(obs.pid)
          /\ captured \in Identities /\ captured.pid = obs.pid
          /\ captured.who = Mine \/ ~Live(Mine)
      BY <1>4 DEF ReadAgain, Evidence
    <3>2. s = Mine
      BY <2>2, <3>1 DEF Observation
    <3>3. captured.who = Mine
      BY <2>2, <3>1, <3>2 DEF Answering, Live
    <3>. QED
      BY <1>4, <2>2, <3>1, <3>3
         DEF ReadAgain, processes, Evidence, MineHas, Deciding
  <2>. QED  BY <1>4, <2>1, <2>2 DEF ReadAgain
<1>5. CASE Matched
  <2>1. CASE Unmatched
    BY <2>1, UnmatchedEvidence
  <2>2. CASE pc' \in {"observe", "check", "recheck"} /\ UNCHANGED captured
    BY <1>5, <2>2 DEF Matched, processes, Evidence, MineHas, Deciding
  <2>. QED  BY <1>5, <2>1, <2>2 DEF Matched
<1>6. CASE ObserveEndpoint
  <2>1. CASE Conclude("Unknown")
    BY <1>6, <2>1, ConcludeEvidence DEF ObserveEndpoint, Deciding, Disposition
  <2>2. CASE pc' \in {"present", "absent"}
    BY <1>6, <2>2, EvidenceKept DEF ObserveEndpoint, Deciding
  <2>. QED  BY <1>6, <2>1, <2>2 DEF ObserveEndpoint
<1>7. CASE ObserveProcess
  <2>1. PICK d \in Disposition : Conclude(d)
    BY <1>7 DEF ObserveProcess, WhenAbsent, Disposition
  <2>. QED
    BY <1>7, <2>1, ConcludeEvidence DEF ObserveProcess, Deciding
<1>8. CASE Recheck \/ Check \/ Dispatch
  <2>1. CASE \E ok \in BOOLEAN : AfterCommand(ok)
    BY <1>8, <2>1, AfterCommandEvidence DEF Recheck, Check, Dispatch, Deciding
  <2>2. CASE pc' \in {"check", "dispatch"} /\ UNCHANGED captured
    BY <1>8, <2>2, EvidenceKept DEF Recheck, Check, Dispatch, Deciding
  <2>. QED  BY <1>8, <2>1, <2>2 DEF Recheck, Check, Dispatch
<1>9. CASE Recover
  BY <1>9, EvidenceKept DEF Recover, Observe, Deciding
<1>10. CASE Others \/ UNCHANGED vars
  <2>1. UNCHANGED <<pc, obs, captured>>
    BY <1>10, OthersKeepRestore DEF restore
  <2>2. CASE pc = "claim"
    BY <2>1, <2>2 DEF Evidence, Deciding
  <2>3. CASE pc # "claim"
    BY <2>1, <2>3, NoRebirth DEF Evidence, MineHas, Live
  <2>. QED  BY <2>2, <2>3
<1>. QED  BY <1>1, <1>2, <1>3, <1>4, <1>5, <1>6, <1>7, <1>8, <1>9, <1>10
             DEF Next, Restore
----------------------------------------------------------------------------
(* Guarded commands take effect on this restore's server only, and the     *)
(* failed claim's cleanup only when no session is there.                   *)
LEMMA TouchStep ==
  ASSUME TypeOK, OnlyOwnServerTouched, CleanupSparesSessions, [Next]_vars
  PROVE  OnlyOwnServerTouched' /\ CleanupSparesSessions'
<1> USE DEF OnlyOwnServerTouched, CleanupSparesSessions
<1>1. CASE Dispatch
  <2>1. CASE UNCHANGED history
    BY <2>1 DEF history
  <2>2. ASSUME NEW s \in Server, NEW p \in Pid, Answering(s, p),
               Permitted(s, p), TakesEffect(s), touched' = touched \cup {s}
        PROVE  touched' \subseteq {Mine} /\ spoiled' = 0
    <3>1. s = Mine /\ (mode = "cleanup" => Sessions(s) = 0)
      BY <2>2 DEF Permitted, CleanupCondition, Condition
    <3>2. CASE mode = "cleanup"
      <4>1. spoiled' = spoiled + Sessions(s)
        BY <2>2, <3>2 DEF TakesEffect
      <4>. QED  BY <2>2, <3>1, <3>2, <4>1
    <3>3. CASE mode # "cleanup"
      <4>1. spoiled' = spoiled
        BY <2>2, <3>3 DEF TakesEffect
      <4>. QED  BY <2>2, <3>1, <4>1
    <3>. QED  BY <3>2, <3>3
  <2>. QED  BY <1>1, <2>1, <2>2 DEF Dispatch
<1>2. CASE ~Dispatch
  <2>1. UNCHANGED history
    BY <1>2 DEF Next, Restore, ClaimRefused, StartServer, ReadFirst,
       CaptureProcess, ReadAgain, Matched, ObserveEndpoint, ObserveProcess,
       Recheck, Check, Recover, Others, ForeignStarts, SessionOpened,
       SessionEnds, EmptyServerCloses, ServerExits, SocketMoved, PidReused, vars
  <2>. QED  BY <2>1 DEF history
<1>. QED  BY <1>1, <1>2

(* exit-empty is turned on by the last command of the script alone, and     *)
(* then the script is over.                                                 *)
LEMMA StaysOpenStep ==
  ASSUME TypeOK, Birth, StaysOpen, [Next]_vars PROVE StaysOpen'
<1>1. CASE ClaimRefused \/ StartServer
  BY <1>1 DEF ClaimRefused, StartServer, ClaimConfig, StaysOpen, processes, tmux
<1>2. CASE Dispatch
  <2>1. UNCHANGED born
    BY <1>2 DEF Dispatch, processes
  <2>2. ASSUME exitEmpty' PROVE exitEmpty \/ step = Len(Script)
    BY <1>2, <2>2, ScriptShape DEF Dispatch, TakesEffect, tmux, TypeOK
  <2>3. step' = step \/ (step # Len(Script) /\ step' = step + 1)
    BY <1>2 DEF Dispatch, AfterCommand
  <2>. QED  BY <2>1, <2>2, <2>3 DEF StaysOpen
<1>3. CASE ~(ClaimRefused \/ StartServer \/ Dispatch)
  <2>1. UNCHANGED <<step, exitEmpty>>
    BY <1>3 DEF Next, Restore, ReadFirst, CaptureProcess, ReadAgain, Matched,
       ObserveEndpoint, ObserveProcess, Recheck, Check, Recover, AfterCommand,
       Others, ForeignStarts, SessionOpened, SessionEnds, EmptyServerCloses,
       ServerExits, SocketMoved, PidReused, vars, restore, tmux
  <2>2. Mine \in born' => Mine \in born
    <3>1. CASE Restore \/ UNCHANGED vars
      BY <1>3, <3>1 DEF Restore, ReadFirst, CaptureProcess, ReadAgain, Matched,
         ObserveEndpoint, ObserveProcess, Recheck, Check, Recover, vars,
         processes
    <3>2. CASE Others
      BY <3>2, KindsAreDistinct DEF Others, ForeignStarts, SessionOpened,
         SessionEnds, EmptyServerCloses, ServerExits, SocketMoved, PidReused,
         processes
    <3>. QED  BY <3>1, <3>2 DEF Next
  <2>. QED  BY <2>1, <2>2 DEF StaysOpen
<1>. QED  BY <1>1, <1>2, <1>3

(* A report is made by one of three steps, and each says what it saw.      *)
LEMMA ReportOrigin ==
  ASSUME TypeOK, Birth, [Next]_vars, report' # report
  PROVE  \/ pc = "claim" /\ report' = "NotEstablished" /\ UNCHANGED processes
         \/ pc # "claim" /\ report' = "Unknown"
         \/ /\ pc = "absent" /\ UNCHANGED processes
            /\ report' = "Retained" => SameLive(captured)
            /\ report' \in {"Removed", "Missing"} => ~SameLive(captured)
            /\ report' # "NotEstablished"
         \/ /\ pc = "present" /\ UNCHANGED processes
            /\ report' = "Retained" /\ SameLive(captured)
<1>1. CASE ClaimRefused
  BY <1>1 DEF ClaimRefused
<1>2. CASE ReadFirst \/ CaptureProcess \/ ReadAgain \/ Matched
  BY <1>2 DEF ReadFirst, CaptureProcess, ReadAgain, Matched, Unmatched
<1>3. CASE ObserveEndpoint
  BY <1>3 DEF ObserveEndpoint, Conclude, Reported
<1>4. CASE ObserveProcess /\ pc = "absent"
  <2>1. PICK d \in WhenAbsent : Conclude(d)
    BY <1>4 DEF ObserveProcess
  <2>2. report' = Reported(d)
    BY <2>1 DEF Conclude
  <2>. QED  BY <1>4, <2>1, <2>2 DEF ObserveProcess, WhenAbsent, Reported
<1>5. CASE ObserveProcess /\ pc = "present"
  BY <1>5 DEF ObserveProcess, Conclude, Reported
<1>6. CASE StartServer \/ Recheck \/ Check \/ Dispatch \/ Recover
  BY <1>6 DEF StartServer, StartServerReply, Recheck, Check, Dispatch, Recover,
              AfterCommand
<1>7. CASE Others \/ UNCHANGED vars
  BY <1>7, OthersKeepRestore DEF restore
<1>. QED  BY <1>1, <1>2, <1>3, <1>4, <1>5, <1>6, <1>7
             DEF Next, Restore, ObserveProcess

(* A process that is not the captured one is not the server, and a server   *)
(* that does not run will not run again.                                    *)
LEMMA ReportStep ==
  ASSUME IInv, [Next]_vars PROVE RemovedMeansGone' /\ NoSilentServer'
<1> USE DEF IInv
<1>1. CASE report' = report
  <2>1. CASE report = "none"
    BY <1>1, <2>1 DEF RemovedMeansGone, NoSilentServer
  <2>2. CASE report # "none"
    <3>1. pc # "claim"
      BY <2>2 DEF Birth
    <3>. QED  BY <1>1, <3>1, NoRebirth DEF RemovedMeansGone, NoSilentServer, Live
  <2>. QED  BY <2>1, <2>2
<1>2. CASE report' # report
  <2>1. CASE pc = "claim" /\ report' = "NotEstablished" /\ UNCHANGED processes
    BY <2>1 DEF Birth, RemovedMeansGone, NoSilentServer, processes
  <2>2. CASE report' = "Unknown"
    BY <2>2 DEF RemovedMeansGone, NoSilentServer
  <2>3. CASE /\ pc \in {"absent", "present"} /\ UNCHANGED processes
             /\ report' \in {"Removed", "Missing"} => ~SameLive(captured)
             /\ report' # "NotEstablished"
    <3>1. captured.who = Mine /\ MineHas(captured.pid)
      BY <2>3 DEF Evidence, Deciding
    <3>2. ~SameLive(captured) => ~Live(Mine)
      BY <3>1 DEF SameLive, Live, MineHas
    <3>. QED  BY <2>3, <3>2 DEF RemovedMeansGone, NoSilentServer, Live, processes
  <2>. QED  BY <1>2, <2>1, <2>2, <2>3, ReportOrigin
<1>. QED  BY <1>1, <1>2
----------------------------------------------------------------------------
(* The invariant is inductive. *)
LEMMA IInvStart == Init => IInv
<1> SUFFICES ASSUME Init PROVE IInv
  OBVIOUS
<1>1. TypeOK
  <2>1. /\ 1 \in 1 .. Len(Script) /\ 0 \in 0 .. Attempts
        /\ 0 \in 0 .. MaxSessions
    BY ScriptShape, AttemptsIsNat, MaxSessionsIsNat
  <2>2. /\ others \in [Server -> 0 .. MaxSessions]
        /\ occupant \in [Pid -> Server \cup {Stranger, Nobody}]
    BY <2>1 DEF Init
  <2>3. exitEmpty \in BOOLEAN /\ closing \in BOOLEAN /\ cleared \in BOOLEAN
        /\ asConfirm \in BOOLEAN
    BY DEF Init
  <2>. QED  BY <2>1, <2>2, <2>3 DEF Init, TypeOK, Modes
<1>2. Birth /\ StaysOpen
  BY KindsAreDistinct DEF Init, Birth, StaysOpen, Live, Server
<1>3. Evidence /\ OnlyOwnServerTouched /\ CleanupSparesSessions
      /\ RemovedMeansGone /\ NoSilentServer
  BY DEF Init, Evidence, Deciding, OnlyOwnServerTouched, CleanupSparesSessions,
         RemovedMeansGone, NoSilentServer
<1>. QED  BY <1>1, <1>2, <1>3 DEF IInv

LEMMA IInvStep == IInv /\ [Next]_vars => IInv'
<1> SUFFICES ASSUME IInv, [Next]_vars PROVE IInv'
  OBVIOUS
<1>1. TypeOK' /\ Evidence' /\ Birth' /\ StaysOpen'
  BY TypeStep, EvidenceStep, BirthStep, StaysOpenStep DEF IInv
<1>2. /\ OnlyOwnServerTouched' /\ CleanupSparesSessions'
      /\ RemovedMeansGone' /\ NoSilentServer'
  BY TouchStep, ReportStep DEF IInv
<1>. QED  BY <1>1, <1>2 DEF IInv

LEMMA IInvHolds == Spec => []IInv
BY IInvStart, IInvStep, PTL DEF Spec
----------------------------------------------------------------------------
(* Every variable keeps its type. *)
THEOREM TargetTypes == Spec => []TypeOK
<1>1. IInv => TypeOK
  BY DEF IInv
<1>. QED  BY <1>1, IInvHolds, PTL

(* Evidence that was accepted names this restore's own server, whatever     *)
(* happened to endpoint and pid between the reads.                          *)
THEOREM ClaimIsSound == Spec => []ClaimIdentifiesServer
<1>1. IInv => ClaimIdentifiesServer
  BY DEF IInv, ClaimIdentifiesServer, Evidence, Identifying, Deciding, TypeOK
<1>. QED  BY <1>1, IInvHolds, PTL

(* No guarded command ever takes effect on somebody else's server. *)
THEOREM OwnServerOnly == Spec => []OnlyOwnServerTouched
<1>1. IInv => OnlyOwnServerTouched
  BY DEF IInv
<1>. QED  BY <1>1, IInvHolds, PTL

(* Cleanup of a failed claim never ends anybody's session. *)
THEOREM SessionsAreSpared == Spec => []CleanupSparesSessions
<1>1. IInv => CleanupSparesSessions
  BY DEF IInv
<1>. QED  BY <1>1, IInvHolds, PTL

(* A server reported Removed or Missing is not running, then or later. *)
THEOREM RemovedIsGone == Spec => []RemovedMeansGone
<1>1. IInv => RemovedMeansGone
  BY DEF IInv
<1>. QED  BY <1>1, IInvHolds, PTL

(* A claim reported NotEstablished started no server. *)
THEOREM NotEstablishedIsUnborn == Spec => []NoSilentServer
<1>1. IInv => NoSilentServer
  BY DEF IInv
<1>. QED  BY <1>1, IInvHolds, PTL

(* Retained is said only by a step that sees this restore's server run.     *)
THEOREM RetainedIsTrue == Spec => RetainedIsHonest
<1>1. IInv /\ [Next]_vars => (RetainedReported => Live(Mine))
  <2> SUFFICES ASSUME IInv, [Next]_vars, RetainedReported PROVE Live(Mine)
    OBVIOUS
  <2>1. pc \in {"absent", "present"} /\ SameLive(captured)
    BY ReportOrigin DEF IInv, RetainedReported
  <2>2. captured \in Identities /\ captured.who = Mine
    BY <2>1 DEF IInv, Evidence, Deciding
  <2>. QED  BY <2>1, <2>2 DEF SameLive, Live, Identities
<1>. QED  BY <1>1, IInvHolds, PTL DEF Spec, RetainedIsHonest

(* Before the last command of the script the server closes only if this     *)
(* restore's kill-server tells it to.                                       *)
THEOREM WaitsForTopology == Spec => EmptyTargetWaits
<1>1. IInv /\ [Next]_vars =>
        (StartsToClose => KillServerSent \/ step = Len(Script))
  <2> SUFFICES ASSUME IInv, [Next]_vars, StartsToClose
               PROVE  KillServerSent \/ step = Len(Script)
    OBVIOUS
  <2>1. CASE Dispatch
    BY <2>1 DEF Dispatch, TakesEffect, StartsToClose, KillServerSent, tmux,
                AfterCommand
  <2>2. CASE EmptyServerCloses
    BY <2>2 DEF EmptyServerCloses, IInv, StaysOpen, Birth
  <2>3. CASE ~(Dispatch \/ EmptyServerCloses)
    <3>1. UNCHANGED closing
      BY <2>3 DEF Next, Restore, ClaimRefused, StartServer, ReadFirst,
         CaptureProcess, ReadAgain, Matched, ObserveEndpoint, ObserveProcess,
         Recheck, Check, Recover, Others, ForeignStarts, SessionOpened,
         SessionEnds, ServerExits, SocketMoved, PidReused, vars, tmux
    <3>. QED  BY <3>1 DEF StartsToClose
  <2>. QED  BY <2>1, <2>2, <2>3
<1>. QED  BY <1>1, IInvHolds, PTL DEF Spec, EmptyTargetWaits
=============================================================================

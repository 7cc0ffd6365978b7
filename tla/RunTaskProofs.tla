---------------------------- MODULE RunTaskProofs ----------------------------
(***************************************************************************)
(* For any plan of grants, any set of sessions and any number of           *)
(* processes: what RunTask leaves behind in the environment, at the        *)
(* providers and on disk, that a session's file only moves forward, and    *)
(* that the checkpoint files are an AtomicStore.                           *)
(***************************************************************************)
EXTENDS RunTask, WellFoundedInduction, TLAPS

Turn  == {"ground", "load", "drive", "save", "saving", "remember"}
Early == {"start", "gate", "plan", "acquire", "inject"}
Late  == {"brain", "line"} \cup Turn

\* Which command line can be where: repl has no grants and no finally.
ProcInv ==
  /\ pc \notin {"exit", "dead"} => proc # 0
  /\ how.repl => how.grants = 0
  /\ pc = "line" => how.repl
  /\ pc \in {"plan", "acquire", "inject"} => how.grants # 0
  /\ pc \in {"cleanup", "release"} => ~how.repl
  /\ pc \in {"load", "drive", "save", "saving", "remember"} => turn \in Value
  /\ pc = "saving" => Sid \in Session

\* The leases grow to the number of grants, and stay until the finally.
LeaseInv ==
  /\ pc \in {"start", "gate", "plan"} => leases = <<>>
  /\ pc = "acquire" => Len(leases) < how.grants
  /\ pc \in Late \cup {"inject"} => Len(leases) = how.grants
  /\ pc \in Early \cup Late \cup {"cleanup"} => tried = {}
  /\ pc \in Early \cup Late => \A g \in Held \cap Stateful : Of(g) \in live

\* A live token of this process is leased, lost or tried; no token is newer.
TokenInv ==
  /\ \A t \in live : t[2] <= proc
  /\ \A t \in live : t[2] = proc => t \in lost \cup tried \cup {Of(g) : g \in Held}
  /\ pc = "exit" /\ signal # "cut" => \A g \in Held : Of(g) \in tried

\* What is not the ambient environment is remembered in restore.
EnvInv ==
  /\ pc \in Early => env = ambient
  /\ pc \in Early \/ how.grants = 0 => DOMAIN restore = {}
  /\ pc \in Early \cup Late \cup {"cleanup"} =>
       \A k \in Key : (IF k \in DOMAIN restore THEN restore[k] ELSE env[k]) = ambient[k]
  /\ pc \in {"release", "exit"} => env = ambient
  /\ pc \in Late => \A g \in Held : KeyOf[g] # None => env[KeyOf[g]] \in Token

\* Only the running process saves, only its session, and what it saves is the turn.
SaveInv ==
  /\ \A s \in Session : file[s] # Torn
  /\ \A s \in Session : saving[s] # None => pc = "saving" /\ s = Sid /\ saving[s] = turn

\* A session's file is at least as new as what was shown of the session.
SessionInv ==
  /\ \A s \in Session : file[s] # None => file[s] <= turn
  /\ \A s \in Session : reported[s] # 0 => file[s] # None /\ reported[s] <= file[s]
  /\ pc = "drive" /\ Sid # None => prior = file[Sid]
  /\ pc = "remember" /\ Sid # None => file[Sid] = turn

\* A `run` changes the file of its session when it saves, and then cannot fail.
ResultInv ==
  Sid # None /\ ~how.repl =>
    /\ pc \in (Early \cup Late) \ {"remember"} => file[Sid] = base
    /\ pc \in {"cleanup", "release", "exit"} /\ code # 130 =>
         file[Sid] = IF code = 0 THEN turn ELSE base

IInv ==
  /\ TypeOK
  /\ ProcInv
  /\ LeaseInv
  /\ TokenInv
  /\ EnvInv
  /\ SaveInv
  /\ SessionInv
  /\ ResultInv

-----------------------------------------------------------------------------
(* Steps that only move the process on. *)

QuietStep ==
  \/ \E b \in BOOLEAN : Parsed(b) \/ Probe(b) \/ Planned(b) \/ MakeBrain(b) \/ Line(b)
  \/ \E end \in {"done", "failed", "other"} : Drive(end)
  \/ Interrupt

LEMMA QuietPreserves == ASSUME IInv, QuietStep PROVE IInv'
<1> USE RunAssumption
<1>0. UNCHANGED <<storeVars, tokenVars, envVars, turnVars, procVars>>
  BY DEF QuietStep, Parsed, Probe, Planned, MakeBrain, Line, Drive, Interrupt
<1> USE DEF storeVars, tokenVars, envVars, turnVars, procVars, Sid, Of, Held, Raise, Quit,
            Turn, Early, Late
<1>1. TypeOK'
  <2>1. TypeOK
    BY DEF IInv
  <2>2. /\ pc' \in {pc, "gate", "brain", "plan", "acquire", "cleanup", "line", "ground", "save", "exit"}
        /\ code' \in {code, 0, 1, 2, 3}
    BY DEF QuietStep, Parsed, Probe, Planned, MakeBrain, Line, Drive, Interrupt
  <2>3. signal' \in {signal, "sent"} /\ probes' \in 0..(ProbeAttempts - 1)
    <3>1. probes \in 0..(ProbeAttempts - 1) /\ ProbeAttempts \in Nat
      BY <2>1 DEF TypeOK
    <3> QED BY <3>1 DEF QuietStep, Parsed, Probe, Planned, MakeBrain, Line, Drive, Interrupt
  <2>4. pc' \in {"start", "gate", "plan", "acquire", "inject", "brain", "line", "ground",
                "load", "drive", "save", "saving", "remember", "cleanup", "release",
                "exit", "dead"}
    BY <2>1, <2>2 DEF TypeOK
  <2> QED BY <1>0, <2>1, <2>2, <2>3, <2>4 DEF TypeOK, StoreTypeOK
<1>2. ProcInv'
  BY <1>0 DEF IInv, ProcInv, QuietStep, Parsed, Probe, Planned, MakeBrain, Line, Drive, Interrupt
<1>3. LeaseInv'
  <2>1. LeaseInv /\ ProcInv
    BY DEF IInv
  <2>2. CASE Interrupt
    BY <1>0, <2>1, <2>2 DEF LeaseInv, Interrupt
  <2>3. ASSUME NEW b \in BOOLEAN, Parsed(b) \/ Probe(b) \/ Planned(b)
        PROVE  LeaseInv'
    <3>1. LeaseInv /\ ProcInv /\ Len(leases) = 0 /\ how.grants \in Nat
      BY <2>1, <2>3 DEF LeaseInv, Parsed, Probe, Planned, IInv, TypeOK
    <3> QED BY <1>0, <2>3, <3>1 DEF LeaseInv, ProcInv, Parsed, Probe, Planned
  <2>4. ASSUME NEW b \in BOOLEAN, MakeBrain(b) \/ Line(b) PROVE LeaseInv'
    BY <1>0, <2>1, <2>4 DEF LeaseInv, MakeBrain, Line
  <2>5. ASSUME NEW end \in {"done", "failed", "other"}, Drive(end) PROVE LeaseInv'
    BY <1>0, <2>1, <2>5 DEF LeaseInv, Drive
  <2> QED BY <2>2, <2>3, <2>4, <2>5 DEF QuietStep
<1>4. TokenInv'
  BY <1>0 DEF IInv, ProcInv, TokenInv, LeaseInv, TypeOK, QuietStep, Parsed, Probe, Planned, MakeBrain, Line,
     Drive, Interrupt
<1>5. EnvInv'
  BY <1>0 DEF IInv, ProcInv, EnvInv, LeaseInv, TypeOK, QuietStep, Parsed, Probe, Planned, MakeBrain, Line,
     Drive, Interrupt
<1>6. SaveInv'
  BY <1>0 DEF IInv, SaveInv, QuietStep, Parsed, Probe, Planned, MakeBrain, Line, Drive, Interrupt
<1>7. SessionInv'
  BY <1>0 DEF IInv, SessionInv, QuietStep, Parsed, Probe, Planned, MakeBrain, Line, Drive,
     Interrupt
<1>8. ResultInv'
  BY <1>0 DEF IInv, ResultInv, ProcInv, TypeOK, QuietStep, Parsed, Probe, Planned, MakeBrain, Line, Drive,
     Interrupt
<1> QED BY <1>1, <1>2, <1>3, <1>4, <1>5, <1>6, <1>7, <1>8 DEF IInv

(* A turn. *)
TurnStep ==
  \/ \E b \in BOOLEAN : Ground(b) \/ Remembered(b)
  \/ Load

LEMMA TurnPreserves == ASSUME IInv, TurnStep PROVE IInv'
<1> USE RunAssumption, StoreAssumption DEF IInv, Sid, Of, Held, Raise, Quit, Turn, Early, Late
<1>1. TypeOK'
  <2>1. ASSUME NEW b \in BOOLEAN, Ground(b) PROVE TypeOK'
    BY <2>1 DEF TypeOK, StoreTypeOK, Ground, storeVars, tokenVars, envVars, turnVars, procVars
  <2>2. ASSUME NEW b \in BOOLEAN, Remembered(b) PROVE TypeOK'
    BY <2>2 DEF TypeOK, StoreTypeOK, Remembered, storeVars, tokenVars, envVars, turnVars, procVars
  <2>3. CASE Load
    BY <2>3 DEF TypeOK, StoreTypeOK, SaveInv, Load, Loads, storeVars, tokenVars, envVars, turnVars, procVars
  <2> QED BY <2>1, <2>2, <2>3 DEF TurnStep
<1>2. /\ UNCHANGED <<storeVars, tokenVars, envVars, procVars, signal>>
      /\ pc \in {"ground", "load", "remember"} /\ pc' \in {"load", "drive", "line", "cleanup"}
      /\ IF pc' \in {"load", "drive"} THEN turn' \in Value ELSE pc' = "line" <=> how.repl
  <2>1. turn \in Value \/ pc = "ground"
    BY DEF TurnStep, Ground, Remembered, Load, ProcInv
  <2> QED BY <2>1 DEF TurnStep, Ground, Remembered, Load
<1> HIDE DEF IInv
<1>3. TypeOK /\ ProcInv /\ LeaseInv /\ TokenInv /\ EnvInv /\ SaveInv
  BY DEF IInv
<1>4. ProcInv'
  BY <1>2, <1>3 DEF ProcInv, procVars
<1>5. LeaseInv'
  BY <1>2, <1>3 DEF LeaseInv, tokenVars, procVars
<1>6. TokenInv'
  BY <1>2, <1>3 DEF TokenInv, tokenVars, procVars
<1>7. EnvInv'
  BY <1>2, <1>3 DEF EnvInv, ProcInv, envVars, tokenVars, procVars
<1>8. SaveInv'
  BY <1>2, <1>3 DEF SaveInv, storeVars
<1> USE DEF IInv
<1>9. SessionInv'
  <2>1. ASSUME NEW b \in BOOLEAN, Ground(b) PROVE SessionInv'
    <3>1. turn \in Nat /\ turn' = turn + 1
      BY <2>1 DEF TypeOK, Ground
    <3>2. /\ UNCHANGED <<storeVars, reported, procVars>>
          /\ pc' \in {"load", "line", "cleanup", "exit"}
      BY <2>1 DEF Ground
    <3>3. \A s \in Session : file[s] # None => file[s] \in Nat
      BY DEF SaveInv, TypeOK, StoreTypeOK
    <3> QED BY <3>1, <3>2, <3>3 DEF SessionInv, storeVars, procVars
  <2>2. ASSUME NEW b \in BOOLEAN, Remembered(b) PROVE SessionInv'
    BY <2>2 DEF SessionInv, ProcInv, TypeOK, StoreTypeOK, Remembered, storeVars, tokenVars, envVars, turnVars, procVars
  <2>3. CASE Load
    BY <2>3 DEF SessionInv, TypeOK, StoreTypeOK, SaveInv, Load, Loads, storeVars, tokenVars, envVars, turnVars, procVars
  <2> QED BY <2>1, <2>2, <2>3 DEF TurnStep
<1>10. ResultInv'
  <2>1. ASSUME NEW b \in BOOLEAN, Ground(b) PROVE ResultInv'
    BY <2>1 DEF ResultInv, Ground, storeVars, tokenVars, envVars, turnVars, procVars
  <2>2. ASSUME NEW b \in BOOLEAN, Remembered(b) PROVE ResultInv'
    BY <2>2 DEF ResultInv, SessionInv, Remembered, storeVars, tokenVars, envVars, turnVars, procVars
  <2>3. CASE Load
    BY <2>3 DEF ResultInv, Load, Loads, storeVars, tokenVars, envVars, turnVars, procVars
  <2> QED BY <2>1, <2>2, <2>3 DEF TurnStep
<1> QED BY <1>1, <1>4, <1>5, <1>6, <1>7, <1>8, <1>9, <1>10 DEF IInv

(* A save. *)
StoreStep ==
  Save \/ SaveStep \/ SaveRaises

LEMMA SavePreserves == ASSUME IInv, StoreStep PROVE IInv'
<1> USE RunAssumption, StoreAssumption DEF IInv, Sid, Of, Held, Raise, Quit, Turn, Early, Late
<1>1. TypeOK'
  <2>1. CASE Save
    <3>1. StoreTypeOK'
      <4>1. turn \in Value /\ Sid \in Session \cup {None}
        BY <2>1 DEF TypeOK, ProcInv, Save
      <4>2. CASE UNCHANGED storeVars
        BY <4>2 DEF TypeOK, StoreTypeOK, storeVars
      <4>3. CASE Sid \in Session /\ SaveBegin(Sid, turn)
        BY <4>1, <4>3 DEF TypeOK, StoreTypeOK, SaveBegin
      <4> QED BY <2>1, <4>1, <4>2, <4>3 DEF Save
    <3> QED BY <2>1, <3>1 DEF TypeOK, Save, tokenVars, envVars, turnVars, procVars
  <2>2. CASE SaveStep
    <3>1. Sid \in Session
      BY <2>2 DEF TypeOK, ProcInv, SaveStep
    <3>2. StoreTypeOK'
      <4>1. CASE SaveWritten(Sid)
        BY <3>1, <4>1 DEF TypeOK, StoreTypeOK, SaveWritten
      <4>2. CASE SaveReplace(Sid)
        BY <3>1, <4>2 DEF TypeOK, StoreTypeOK, SaveReplace
      <4> QED BY <2>2, <4>1, <4>2 DEF SaveStep
    <3> QED BY <2>2, <3>2 DEF TypeOK, SaveStep, tokenVars, envVars, turnVars, procVars
  <2>3. CASE SaveRaises
    <3>1. StoreTypeOK'
      <4>1. CASE UNCHANGED storeVars
        BY <4>1 DEF TypeOK, StoreTypeOK, storeVars
      <4>2. ASSUME NEW unlinked \in BOOLEAN, Sid \in Session, SaveFails(Sid, unlinked)
            PROVE  StoreTypeOK'
        <5>1. StoreTypeOK /\ saving[Sid] \in Value
          BY <4>2 DEF TypeOK, StoreTypeOK, SaveFails
        <5> HIDE DEF IInv
        <5> QED BY <4>2, <5>1 DEF StoreTypeOK, SaveFails
      <4> QED BY <2>3, <4>1, <4>2 DEF SaveRaises, ProcInv
    <3> QED BY <2>3, <3>1 DEF TypeOK, SaveRaises, tokenVars, envVars, turnVars, procVars
  <2> QED BY <2>1, <2>2, <2>3 DEF StoreStep
<1>2. ProcInv'
  BY DEF TypeOK, ProcInv, StoreTypeOK, SaveInv, LeaseInv, EnvInv, StoreStep, Save, SaveStep, SaveRaises, SaveBegin, SaveWritten, SaveReplace, SaveFails, storeVars, tokenVars, envVars, turnVars, procVars
<1>3. LeaseInv'
  BY DEF TypeOK, ProcInv, StoreTypeOK, SaveInv, LeaseInv, EnvInv, StoreStep, Save, SaveStep, SaveRaises, SaveBegin, SaveWritten, SaveReplace, SaveFails, storeVars, tokenVars, envVars, turnVars, procVars
<1>4. TokenInv'
  BY DEF TypeOK, ProcInv, StoreTypeOK, SaveInv, LeaseInv, EnvInv, TokenInv, StoreStep, Save, SaveStep, SaveRaises, SaveBegin, SaveWritten, SaveReplace, SaveFails, storeVars, tokenVars, envVars, turnVars, procVars
<1>5. EnvInv'
  BY DEF TypeOK, ProcInv, StoreTypeOK, SaveInv, LeaseInv, EnvInv, StoreStep, Save, SaveStep, SaveRaises, SaveBegin, SaveWritten, SaveReplace, SaveFails, storeVars, tokenVars, envVars, turnVars, procVars
<1>6. SaveInv'
  BY DEF TypeOK, ProcInv, StoreTypeOK, SaveInv, LeaseInv, EnvInv, StoreStep, Save, SaveStep, SaveRaises, SaveBegin, SaveWritten, SaveReplace, SaveFails, storeVars, tokenVars, envVars, turnVars, procVars
<1>7. SessionInv'
  <2>1. CASE Save
    BY <2>1 DEF SessionInv, TypeOK, StoreTypeOK, ProcInv, Save, SaveBegin, storeVars, tokenVars, envVars, turnVars, procVars
  <2>2. CASE SaveStep
    <3>1. UNCHANGED <<turnVars, procVars>> /\ pc' \in {"saving", "remember"}
      BY <2>2 DEF SaveStep
    <3>2. CASE UNCHANGED file /\ pc' = "saving"
      BY <3>1, <3>2 DEF SessionInv, turnVars, procVars
    <3>3. CASE SaveReplace(Sid)
      <4>1. /\ Sid \in Session /\ file' = [file EXCEPT ![Sid] = turn]
            /\ turn \in Nat /\ turn # None
        BY <2>2, <3>3 DEF SaveStep, SaveReplace, ProcInv, SaveInv, TypeOK
      <4>2. \A s \in Session : file[s] # None => file[s] \in Nat
        BY DEF SaveInv, TypeOK, StoreTypeOK
      <4>3. file \in [Session -> Value \cup {None, Torn}]
        BY DEF TypeOK, StoreTypeOK
      <4>4. \A s \in Session : reported[s] \in Nat
        <5>1. reported \in [Session -> Value \cup {0}] /\ Value \cup {0} \subseteq Nat
          BY DEF TypeOK
        <5> QED BY <5>1
      <4> QED BY <3>1, <4>1, <4>2, <4>3, <4>4 DEF SessionInv, turnVars, procVars
    <3> QED BY <2>2, <3>2, <3>3 DEF SaveStep, SaveWritten
  <2>3. CASE SaveRaises
    BY <2>3 DEF SessionInv, TypeOK, StoreTypeOK, ProcInv, SaveRaises, SaveFails, storeVars, tokenVars, envVars, turnVars, procVars
  <2> QED BY <2>1, <2>2, <2>3 DEF StoreStep
<1>8. ResultInv'
  BY DEF TypeOK, ProcInv, StoreTypeOK, SaveInv, LeaseInv, EnvInv, ResultInv, StoreStep, Save, SaveStep, SaveRaises, SaveBegin, SaveWritten, SaveReplace, SaveFails, storeVars, tokenVars, envVars, turnVars, procVars
<1> QED BY <1>1, <1>2, <1>3, <1>4, <1>5, <1>6, <1>7, <1>8 DEF IInv

(* Leases. *)

LEMMA NextPairMinted ==
  ASSUME TypeOK, ProcInv, LeaseInv, pc = "acquire"
  PROVE  /\ NextPair \in Pair /\ Of(NextPair) \in Token
         /\ Minted \subseteq Token
         /\ live \subseteq Minted /\ Minted \subseteq live \cup {Of(NextPair)}
         /\ NextPair \in Stateful => Of(NextPair) \in Minted
<1>1. Len(leases) + 1 \in 1..Len(Plan)
  BY RunAssumption DEF TypeOK, LeaseInv
<1>2. NextPair \in Pair
  BY <1>1, RunAssumption DEF NextPair
<1>3. proc \in 1..MaxProcesses
  BY RunAssumption DEF TypeOK, ProcInv
<1> QED BY <1>2, <1>3 DEF Minted, Of, Token, TypeOK

LEMMA AppendHeld ==
  ASSUME TypeOK, NEW g \in Pair, leases' = Append(leases, g)
  PROVE  /\ leases' \in Seq(Pair) /\ Len(leases') = Len(leases) + 1
         /\ Held' = Held \cup {g}
<1>1. /\ leases \in Seq(Pair) /\ leases' \in Seq(Pair) /\ Len(leases') = Len(leases) + 1
      /\ \A i \in 1..Len(leases) : leases'[i] = leases[i]
      /\ leases'[Len(leases) + 1] = g
  BY DEF TypeOK
<1>2. 1..(Len(leases) + 1) = (1..Len(leases)) \cup {Len(leases) + 1}
  BY <1>1
<1> QED BY <1>1, <1>2 DEF Held

AcquireStep ==
  \/ Acquired
  \/ \E late, setup \in BOOLEAN : AcquireRaises(late, setup)
  \/ \E late \in BOOLEAN : Cancelled(late)

LEMMA AcquiredPreserves == ASSUME IInv, Acquired PROVE IInv'
<1> USE RunAssumption DEF IInv, Acquired, Sid, Turn, Early, Late, storeVars, tokenVars, envVars, turnVars, procVars
<1>1. pc = "acquire"
  OBVIOUS
<1>2. /\ NextPair \in Pair /\ Of(NextPair) \in Token
      /\ live' \subseteq Token
      /\ live \subseteq live' /\ live' \subseteq live \cup {Of(NextPair)}
      /\ NextPair \in Stateful => Of(NextPair) \in live'
  BY <1>1, NextPairMinted
<1>3. /\ leases' \in Seq(Pair) /\ Len(leases') = Len(leases) + 1
      /\ Held' = Held \cup {NextPair}
  BY <1>2, AppendHeld
<1>4. \A g : Of(g)' = Of(g)
  BY DEF Of
<1>5. TypeOK'
  BY <1>2, <1>3 DEF TypeOK, StoreTypeOK, LeaseInv
<1>6. ProcInv'
  BY DEF ProcInv
<1>7. LeaseInv'
  BY <1>2, <1>3, <1>4 DEF LeaseInv, TypeOK
<1>8. TokenInv'
  BY <1>2, <1>3, <1>4 DEF TokenInv, Of, TypeOK
<1>9. EnvInv'
  BY DEF EnvInv
<1>10. SaveInv'
  BY DEF SaveInv
<1>11. SessionInv'
  BY DEF SessionInv
<1>12. ResultInv'
  BY DEF ResultInv
<1> QED BY <1>5, <1>6, <1>7, <1>8, <1>9, <1>10, <1>11, <1>12 DEF IInv

\* A mint that raises, and a cancellation at any await.
GiveUpStep ==
  \/ \E late, setup \in BOOLEAN : AcquireRaises(late, setup)
  \/ \E late \in BOOLEAN : Cancelled(late)

LEMMA GiveUpPreserves == ASSUME IInv, GiveUpStep PROVE IInv'
<1> USE RunAssumption DEF IInv, Sid, Turn, Early, Late
<1>1. /\ UNCHANGED <<storeVars, probes, leases, tried, envVars, turnVars, procVars>>
      /\ pc \in {"acquire", "ground", "drive", "remember"}
      /\ IF how.repl THEN pc' = "exit" ELSE pc' = "cleanup"
      /\ code' \in {1, 2, 130} /\ (pc # "acquire" => code' = 130)
      /\ signal' \in {signal, "met"}
  BY DEF GiveUpStep, AcquireRaises, Cancelled, Raise, ProcInv
<1>2. \/ live' = live /\ lost' = lost
      \/ pc = "acquire" /\ live' = Minted /\ lost' = lost \cup {Of(NextPair)}
  BY DEF GiveUpStep, AcquireRaises, Cancelled
<1>3. /\ live' \subseteq Token /\ lost' \subseteq Token
      /\ \A t \in live' : t \in live \/ (t \in lost' /\ t[2] = proc)
      /\ lost \subseteq lost'
  <2>1. CASE live' = live /\ lost' = lost
    BY <2>1 DEF TypeOK
  <2>2. CASE pc = "acquire" /\ live' = Minted /\ lost' = lost \cup {Of(NextPair)}
    <3>1. /\ Of(NextPair) \in Token /\ Minted \subseteq Token
          /\ Minted \subseteq live \cup {Of(NextPair)}
      BY <2>2, NextPairMinted
    <3>2. Of(NextPair)[2] = proc
      BY DEF Of
    <3> QED BY <2>2, <3>1, <3>2 DEF TypeOK
  <2> QED BY <1>2, <2>1, <2>2
<1> USE DEF storeVars, tokenVars, envVars, turnVars, procVars
<1>4. \A g : Of(g)' = Of(g)
  BY <1>1 DEF Of
<1>5. TypeOK'
  BY <1>1, <1>3 DEF TypeOK, StoreTypeOK
<1>6. ProcInv'
  BY <1>1 DEF ProcInv
<1>7. LeaseInv'
  BY <1>1 DEF LeaseInv
<1>8. TokenInv'
  <2>1. how.repl => Held = {}
    BY DEF ProcInv, TypeOK, Held
  <2>2. Held' = Held /\ {Of(g) : g \in Held}' = {Of(g) : g \in Held}
    BY <1>1 DEF Held, Of
  <2>3. \A t \in live' : t[2] <= proc'
    <3>1. proc \in Nat
      BY DEF TypeOK
    <3> QED BY <1>1, <1>3, <3>1 DEF TokenInv
  <2>4. \A t \in live' : t[2] = proc' => t \in (lost \cup tried \cup {Of(g) : g \in Held})'
    BY <1>1, <1>3, <2>2 DEF TokenInv
  <2>5. pc' = "exit" => Held' = {}
    BY <1>1, <2>1, <2>2
  <2> QED BY <2>3, <2>4, <2>5 DEF TokenInv
<1>9. EnvInv'
  <2>1. how.repl => env = ambient
    BY <1>1 DEF EnvInv, ProcInv, TypeOK
  <2> QED BY <1>1, <2>1 DEF EnvInv
<1>10. SaveInv'
  BY <1>1 DEF SaveInv
<1>11. SessionInv'
  BY <1>1 DEF SessionInv
<1>12. ResultInv'
  BY <1>1 DEF ResultInv
<1> QED BY <1>5, <1>6, <1>7, <1>8, <1>9, <1>10, <1>11, <1>12 DEF IInv

(* Injection. *)

LEMMA LeastNatural ==
  ASSUME NEW T, T \subseteq Nat, T # {}
  PROVE  \E x \in T : \A y \in T : x <= y
<1>1. PICK x \in T : \A y \in T : ~(<<y, x>> \in OpToRel(<, Nat))
  BY NatLessThanWellFounded, WFMin
<1>2. ASSUME NEW y \in T PROVE x <= y
  <2>1. ~(y < x)
    BY <1>1 DEF OpToRel
  <2> QED BY <2>1
<1> QED BY <1>2

\* Of the leases that set a variable there is a last one.
LEMMA LastForExists ==
  ASSUME TypeOK, NEW k \in Injected
  PROVE  LastFor(k) \in 1..Len(leases) /\ KeyOf[leases[LastFor(k)]] = k
<1> DEFINE Back == {Len(leases) - i : i \in {i \in 1..Len(leases) : KeyOf[leases[i]] = k}}
<1>1. Len(leases) \in Nat
  BY DEF TypeOK
<1>2. Back \subseteq Nat /\ Back # {}
  BY <1>1 DEF Injected, Held
<1>3. PICK x \in Back : \A y \in Back : x <= y
  BY <1>2, LeastNatural
<1>4. PICK i \in 1..Len(leases) : KeyOf[leases[i]] = k /\ x = Len(leases) - i
  OBVIOUS
<1>5. ASSUME NEW j \in (i + 1)..Len(leases) PROVE KeyOf[leases[j]] # k
  <2>1. SUFFICES ASSUME KeyOf[leases[j]] = k PROVE FALSE
    OBVIOUS
  <2>2. Len(leases) - j \in Back
    BY <1>1, <2>1
  <2>3. x <= Len(leases) - j
    BY <1>3, <2>2
  <2> HIDE DEF Back
  <2> QED BY <1>1, <1>4, <2>3
<1>6. \E n \in 1..Len(leases) :
        KeyOf[leases[n]] = k /\ \A j \in (n + 1)..Len(leases) : KeyOf[leases[j]] # k
  BY <1>4, <1>5
<1> QED BY <1>6 DEF LastFor

LEMMA InjectPreserves == ASSUME IInv, NEW b \in BOOLEAN, Inject(b) PROVE IInv'
<1> USE RunAssumption DEF IInv, Sid, Turn, Early, Late, storeVars, tokenVars, envVars, turnVars, procVars
<1>1. /\ UNCHANGED <<storeVars, probes, signal, tokenVars, turnVars, procVars>>
      /\ pc = "inject" /\ ~how.repl
      /\ \/ pc' = "cleanup" /\ code' = 2 /\ UNCHANGED envVars
         \/ /\ pc' = "brain" /\ UNCHANGED <<code, ambient>>
            /\ restore' = [k \in Injected |-> env[k]]
            /\ env' = [k \in Key |-> IF k \in Injected THEN Of(leases[LastFor(k)]) ELSE env[k]]
  BY DEF Inject, Raise, ProcInv
<1>2. Held \subseteq Pair /\ \A g \in Pair : Of(g) \in Token
  <2>1. proc \in 1..MaxProcesses
    BY <1>1 DEF TypeOK, ProcInv
  <2>2. leases \in Seq(Pair)
    BY DEF TypeOK
  <2> QED BY <2>1, <2>2 DEF Held, Of, Token
<1>3. Injected \subseteq Key
  BY <1>2 DEF Injected
<1>4. \A k \in Injected : Of(leases[LastFor(k)]) \in Token
  BY <1>2, LastForExists DEF Held
<1>5. env = ambient /\ ambient \in [Key -> Plain]
  BY <1>1 DEF EnvInv, TypeOK
<1>6. TypeOK'
  <2>1. TypeOK /\ pc' \in {"cleanup", "brain"} /\ code' \in {code, 2} /\ ambient' = ambient
    BY <1>1
  <2>2. env' \in [Key -> Plain \cup Token]
    <3>1. env \in [Key -> Plain \cup Token]
      BY DEF TypeOK
    <3>2. CASE pc' = "cleanup"
      BY <1>1, <3>1, <3>2
    <3>3. CASE pc' = "brain"
      BY <1>1, <1>4, <3>1, <3>3
    <3> QED BY <2>1, <3>2, <3>3
  <2>3. DOMAIN restore' \subseteq Key /\ \A k \in DOMAIN restore' : restore'[k] \in Plain
    <3>1. CASE pc' = "cleanup"
      BY <1>1, <3>1 DEF TypeOK
    <3>2. CASE pc' = "brain"
      BY <1>1, <1>3, <1>5, <3>2
    <3> QED BY <2>1, <3>1, <3>2
  <2>4. StoreTypeOK'
    BY <1>1 DEF TypeOK, StoreTypeOK
  <2> HIDE DEF IInv
  <2> QED BY <1>1, <2>1, <2>2, <2>3, <2>4 DEF TypeOK
<1>7. ProcInv' /\ LeaseInv' /\ TokenInv'
  BY <1>1 DEF ProcInv, LeaseInv, TokenInv, Held, Of
<1>8. EnvInv'
  <2>1. CASE pc' = "cleanup"
    BY <1>1, <2>1 DEF EnvInv
  <2>2. CASE pc' = "brain"
    <3>1. /\ restore' = [k \in Injected |-> env[k]] /\ ambient' = ambient
          /\ env' = [k \in Key |-> IF k \in Injected THEN Of(leases[LastFor(k)]) ELSE env[k]]
          /\ how.grants # 0
      BY <1>1, <2>2 DEF ProcInv
    <3>2. \A k \in Key :
            (IF k \in DOMAIN restore' THEN restore'[k] ELSE env'[k]) = ambient'[k]
      BY <1>3, <1>5, <3>1
    <3>3. \A g \in Held' : KeyOf[g] # None => env'[KeyOf[g]] \in Token
      <4>1. ASSUME NEW g \in Held, KeyOf[g] # None PROVE env'[KeyOf[g]] \in Token
        <5>1. KeyOf[g] \in Injected /\ KeyOf[g] \in Key
          BY <1>2, <4>1 DEF Injected
        <5> QED BY <1>4, <3>1, <5>1
      <4>2. Held' = Held
        BY <1>1 DEF Held
      <4> QED BY <4>1, <4>2
    <3> QED BY <1>1, <2>2, <3>1, <3>2, <3>3 DEF EnvInv
  <2> QED BY <1>1, <2>1, <2>2
<1>9. SaveInv' /\ SessionInv' /\ ResultInv'
  BY <1>1 DEF SaveInv, SessionInv, ResultInv
<1> QED BY <1>6, <1>7, <1>8, <1>9 DEF IInv

(* The finally. *)

LEMMA RestorePreserves == ASSUME IInv, RestoreEnv PROVE IInv'
<1> USE RunAssumption DEF IInv, RestoreEnv, Sid, Of, Held, Turn, Early, Late, storeVars, tokenVars, envVars, turnVars, procVars
<1>1. env' = ambient
  BY DEF EnvInv, TypeOK
<1>2. TypeOK'
  BY <1>1 DEF TypeOK, StoreTypeOK
<1>3. ProcInv' /\ LeaseInv' /\ TokenInv'
  BY DEF ProcInv, LeaseInv, TokenInv
<1>4. EnvInv'
  BY <1>1 DEF EnvInv
<1>5. SaveInv' /\ SessionInv' /\ ResultInv'
  BY DEF SaveInv, SessionInv, ResultInv
<1> QED BY <1>2, <1>3, <1>4, <1>5 DEF IInv

\* One turn of the loop over the leases, or its end.
ReleaseStep == (\E b \in BOOLEAN : Release(b) \/ ReleaseCancelled(b)) \/ Released

LEMMA ReleasePreserves == ASSUME IInv, ReleaseStep PROVE IInv'
<1> USE RunAssumption DEF IInv, Sid, Turn, Early, Late
<1>1. /\ UNCHANGED <<storeVars, probes, leases, lost, envVars, turnVars, procVars>>
      /\ pc = "release" /\ pc' \in {"release", "exit"}
      /\ code' \in {code, 130}
      /\ signal' \in {signal, "cut"}
      /\ pc' = "exit" => signal' = "cut" \/ (tried' = tried /\ ~Outstanding)
  BY DEF ReleaseStep, Release, ReleaseCancelled, Released, Quit, tokenVars
<1>2. /\ live' \subseteq live /\ tried \subseteq tried'
      /\ \A t \in live \ live' : t \in tried'
      /\ \A t \in tried' : t \in tried \/ \E g \in Held : t = Of(g)
  BY DEF ReleaseStep, Release, ReleaseCancelled, Released, Revoke, Held, tokenVars
<1>3. Held \subseteq Pair /\ \A g \in Pair : Of(g) \in Token
  <2>1. proc \in 1..MaxProcesses
    BY <1>1 DEF TypeOK, ProcInv
  <2>2. leases \in Seq(Pair)
    BY DEF TypeOK
  <2> QED BY <2>1, <2>2 DEF Held, Of, Token
<1> USE DEF storeVars, tokenVars, envVars, turnVars, procVars
<1>4. Held' = Held /\ \A g : Of(g)' = Of(g)
  BY <1>1 DEF Held, Of
<1>5. TypeOK'
  BY <1>1, <1>2, <1>3 DEF TypeOK, StoreTypeOK
<1>6. ProcInv' /\ LeaseInv'
  BY <1>1 DEF ProcInv, LeaseInv
<1>7. TokenInv'
  <2>1. ~Outstanding => \A g \in Held : Of(g) \in tried
    BY DEF Outstanding, Held
  <2> QED BY <1>1, <1>2, <1>4, <2>1 DEF TokenInv
<1>8. EnvInv'
  BY <1>1 DEF EnvInv
<1>9. SaveInv' /\ SessionInv' /\ ResultInv'
  BY <1>1 DEF SaveInv, SessionInv, ResultInv
<1> QED BY <1>5, <1>6, <1>7, <1>8, <1>9 DEF IInv

(* Processes. *)

LEMMA LaunchPreserves ==
  ASSUME IInv, NEW h \in CommandLine, NEW a \in [Key -> Plain], Launch(h, a)
  PROVE  IInv'
<1> USE RunAssumption DEF IInv, Launch, CommandLine, Sid, Turn, Early, Late, storeVars, tokenVars, envVars, turnVars, procVars
<1>1. h.session # None => file[h.session] \in Value \cup {None}
  BY DEF TypeOK, StoreTypeOK, SaveInv
<1>2. leases' = <<>> /\ Len(leases') = 0 /\ leases' \in Seq(Pair) /\ Held' = {}
  BY DEF Held
<1>3. TypeOK'
  BY <1>1, <1>2 DEF TypeOK, StoreTypeOK
<1>4. ProcInv' /\ LeaseInv'
  BY <1>2 DEF ProcInv, LeaseInv, TypeOK
<1>5. TokenInv'
  <2>1. proc \in Nat /\ \A t \in live : t[2] \in Nat /\ t[2] <= proc
    BY DEF TypeOK, TokenInv, Token
  <2> QED BY <2>1 DEF TokenInv
<1>6. EnvInv'
  BY DEF EnvInv
<1>7. SaveInv'
  BY DEF SaveInv
<1>8. SessionInv' /\ ResultInv'
  BY DEF SessionInv, ResultInv
<1> QED BY <1>3, <1>4, <1>5, <1>6, <1>7, <1>8 DEF IInv

EndStep == Crash \/ \E s \in Session : Erased(s)

LEMMA EndPreserves == ASSUME IInv, EndStep PROVE IInv'
<1> USE RunAssumption DEF IInv, EndStep, Crash, Erased, Sid, Of, Held, Turn, Early, Late,
        storeVars, tokenVars, envVars, turnVars, procVars
<1>1. StoreTypeOK'
  <2>1. CASE Crash
    <3>1. stray' \subseteq Value
      <4>1. \A s \in Session : saving[s] # None => saving[s] \in Value
        BY DEF TypeOK, StoreTypeOK
      <4>2. stray \subseteq Value
        BY DEF TypeOK, StoreTypeOK
      <4> QED BY <2>1, <4>1, <4>2 DEF SavesLost
    <3> QED BY <2>1, <3>1 DEF TypeOK, StoreTypeOK, SavesLost
  <2>2. ASSUME NEW s \in Session, Erased(s) PROVE StoreTypeOK'
    BY <2>2 DEF TypeOK, StoreTypeOK, Delete
  <2> QED BY <2>1, <2>2
<1>2. TypeOK'
  <2>1. CASE Crash
    BY <1>1, <2>1 DEF TypeOK
  <2>2. ASSUME NEW s \in Session, Erased(s) PROVE TypeOK'
    BY <1>1, <2>2 DEF TypeOK
  <2> QED BY <2>1, <2>2
<1>3. ProcInv' /\ LeaseInv' /\ TokenInv' /\ EnvInv'
  BY DEF ProcInv, LeaseInv, TokenInv, EnvInv
<1>4. SaveInv'
  BY StoreAssumption DEF SaveInv, SavesLost, Delete, TypeOK, StoreTypeOK
<1>5. SessionInv'
  BY DEF SessionInv, SavesLost, Delete, TypeOK, StoreTypeOK
<1>6. ResultInv'
  BY DEF ResultInv
<1> QED BY <1>2, <1>3, <1>4, <1>5, <1>6 DEF IInv

-----------------------------------------------------------------------------
(* The theorems. *)

LEMMA InitIInv == Init => IInv
<1> SUFFICES ASSUME Init PROVE IInv
  OBVIOUS
<1> USE RunAssumption, StoreAssumption DEF Init, StoreInit, Sid, Held, Turn, Early, Late
<1>1. TypeOK
  <2>1. StoreTypeOK
    BY DEF StoreTypeOK
  <2>2. leases \in Seq(Pair) /\ Len(leases) <= how.grants
    OBVIOUS
  <2>3. how \in [repl : BOOLEAN, session : Session \cup {None}, grants : 0..Len(Plan)]
    OBVIOUS
  <2>4. DOMAIN restore = {}
    OBVIOUS
  <2>5. env \in [Key -> Plain \cup Token] /\ ambient \in [Key -> Plain]
    BY DEF Plain
  <2> QED BY <2>1, <2>2, <2>3, <2>4, <2>5 DEF TypeOK
<1>2. ProcInv /\ LeaseInv /\ TokenInv /\ EnvInv
  BY DEF ProcInv, LeaseInv, TokenInv, EnvInv
<1>3. SaveInv /\ SessionInv /\ ResultInv
  BY DEF SaveInv, SessionInv, ResultInv
<1> QED BY <1>1, <1>2, <1>3 DEF IInv

LEMMA NextIInv == IInv /\ [Next]_vars => IInv'
<1> SUFFICES ASSUME IInv, [Next]_vars PROVE IInv'
  OBVIOUS
<1>1. CASE \E h \in CommandLine, a \in [Key -> Plain] : Launch(h, a)
  BY <1>1, LaunchPreserves
<1>2. CASE EndStep
  BY <1>2, EndPreserves
<1>3. CASE QuietStep
  BY <1>3, QuietPreserves
<1>4. CASE Acquired
  BY <1>4, AcquiredPreserves
<1>5. CASE GiveUpStep
  BY <1>5, GiveUpPreserves
<1>6. CASE \E b \in BOOLEAN : Inject(b)
  BY <1>6, InjectPreserves
<1>7. CASE TurnStep
  BY <1>7, TurnPreserves
<1>8. CASE StoreStep
  BY <1>8, SavePreserves
<1>9. CASE RestoreEnv
  BY <1>9, RestorePreserves
<1>10. CASE ReleaseStep
  BY <1>10, ReleasePreserves
<1>11. CASE UNCHANGED vars
  BY <1>11 DEF vars, storeVars, tokenVars, envVars, turnVars, procVars, IInv, TypeOK,
     StoreTypeOK, ProcInv, LeaseInv, TokenInv, EnvInv, SaveInv, SessionInv, ResultInv, Sid, Of, Held
<1>12. CASE Body
  BY <1>3, <1>4, <1>5, <1>6, <1>7, <1>8, <1>12
     DEF Body, QuietStep, GiveUpStep, TurnStep, StoreStep
<1>13. CASE Finally
  BY <1>9, <1>10, <1>13 DEF Finally, ReleaseStep
<1> QED BY <1>1, <1>2, <1>3, <1>11, <1>12, <1>13 DEF Next, EndStep, QuietStep

LEMMA Invariance == Spec => []IInv
BY InitIInv, NextIInv, PTL DEF Spec

\* The state of a run and of its files is well typed; in particular no torn
\* checkpoint is ever resumed from.
THEOREM TypeCorrect == Spec => []TypeOK
<1>1. IInv => TypeOK
  BY DEF IInv
<1> QED BY <1>1, Invariance, PTL

\* The environment a run leaves is the one it found, and holds no credential
\* whose release has begun (_run_task's finally).
THEOREM EnvIsCleanHolds == Spec => []EnvIsClean
<1>1. IInv => EnvIsClean
  <2> SUFFICES ASSUME IInv PROVE EnvIsClean
    OBVIOUS
  <2>1. pc = "exit" => env = ambient
    BY DEF IInv, EnvInv
  <2>2. ASSUME pc # "dead", NEW k \in Key, env[k] \in Token PROVE env[k] \notin tried
    <3>1. CASE pc \in {"release", "exit"}
      BY <2>2, <3>1, RunAssumption DEF IInv, EnvInv, TypeOK
    <3>2. CASE pc \notin {"release", "exit"}
      BY <2>2, <3>2 DEF IInv, LeaseInv, TypeOK, Early, Late, Turn
    <3> QED BY <3>1, <3>2
  <2> QED BY <2>1, <2>2 DEF EnvIsClean
<1> QED BY <1>1, Invariance, PTL

\* The brain runs with exactly the credentials that were granted: _run_task starts
\* no turn on part of them, and container_env injects each of them.
THEOREM BrainHasItsGrantsHolds == Spec => []BrainHasItsGrants
<1>1. IInv => BrainHasItsGrants
  BY DEF IInv, LeaseInv, EnvInv, BrainHasItsGrants, Working, Early, Late, Turn
<1> QED BY <1>1, Invariance, PTL

\* No token outlives its run without a reason: the finally of _run_task tries to
\* release every lease, and goes on past one whose release raises.
THEOREM LiveIsExplainedHolds == Spec => []LiveIsExplained
<1>1. IInv => LiveIsExplained
  BY DEF IInv, TokenInv, LiveIsExplained
<1> QED BY <1>1, Invariance, PTL

\* The exit code of `run` tells whether its result is durable.
THEOREM ExitCodeIsTrueHolds == Spec => []ExitCodeIsTrue
<1>1. IInv => ExitCodeIsTrue
  BY DEF IInv, ResultInv, ExitCodeIsTrue
<1> QED BY <1>1, Invariance, PTL

\* A turn resumes from what was last shown of its session, or from something newer,
\* whatever FileCheckpointStore.save and load met before and whenever a process died.
THEOREM NeverRewindsHolds == Spec => []NeverRewinds
<1>1. IInv => NeverRewinds
  BY RunAssumption DEF IInv, SessionInv, SaveInv, TypeOK, StoreTypeOK, NeverRewinds, Sid
<1> QED BY <1>1, Invariance, PTL

-----------------------------------------------------------------------------
(* The refinement. *)

LEMMA SaveImplements ==
  ASSUME IInv, StoreStep
  PROVE  Store!Next \/ UNCHANGED <<file, saving>>
<1>1. CASE Save
  <2>1. CASE UNCHANGED storeVars
    BY <2>1 DEF storeVars
  <2>2. CASE Sid # None /\ SaveBegin(Sid, turn)
    <3>1. Sid \in Session /\ turn \in Value
      BY <1>1, <2>2 DEF IInv, TypeOK, ProcInv, Save, Sid
    <3>2. Store!Begin(Sid, turn)
      BY <2>2 DEF SaveBegin, Store!Begin
    <3> QED BY <3>1, <3>2 DEF Store!Next
  <2> QED BY <1>1, <2>1, <2>2 DEF Save
<1>2. CASE SaveStep
  <2>1. Sid \in Session
    BY <1>2 DEF IInv, ProcInv, SaveStep
  <2>2. CASE SaveWritten(Sid)
    BY <2>2 DEF SaveWritten
  <2>3. CASE SaveReplace(Sid)
    <3>1. Store!Commit(Sid)
      BY <2>3 DEF SaveReplace, Store!Commit
    <3> QED BY <2>1, <3>1 DEF Store!Next
  <2> QED BY <1>2, <2>2, <2>3 DEF SaveStep
<1>3. CASE SaveRaises
  <2>1. CASE UNCHANGED storeVars
    BY <2>1 DEF storeVars
  <2>2. ASSUME pc = "saving", NEW unlinked \in BOOLEAN, SaveFails(Sid, unlinked)
        PROVE  Store!Next
    <3>1. Sid \in Session
      BY <2>2 DEF IInv, ProcInv
    <3>2. Store!Abandon(Sid)
      BY <2>2 DEF SaveFails, Store!Abandon
    <3> QED BY <3>1, <3>2 DEF Store!Next
  <2> QED BY <1>3, <2>1, <2>2 DEF SaveRaises
<1> QED BY <1>1, <1>2, <1>3 DEF StoreStep

LEMMA EndImplements ==
  ASSUME IInv, EndStep
  PROVE  Store!Next \/ UNCHANGED <<file, saving>>
<1>1. ASSUME NEW s \in Session, Erased(s) PROVE Store!Next
  <2>1. Store!Erase(s)
    BY <1>1 DEF Erased, Delete, Store!Erase
  <2> QED BY <2>1 DEF Store!Next
<1>2. CASE Crash
  <2>1. /\ saving \in [Session -> Value \cup {None}]
        /\ \A s \in Session : saving[s] # None => s = Sid
        /\ saving' = [s \in Session |-> None] /\ file' = file
    BY <1>2 DEF IInv, TypeOK, StoreTypeOK, SaveInv, Crash, SavesLost
  <2>2. CASE \A s \in Session : saving[s] = None
    <3>1. saving' = saving
      BY <2>1, <2>2
    <3> QED BY <2>1, <3>1
  <2>3. ASSUME NEW s \in Session, saving[s] # None PROVE Store!Next
    <3>1. saving' = [saving EXCEPT ![s] = None]
      BY <2>1, <2>3
    <3>2. Store!Abandon(s)
      BY <2>1, <2>3, <3>1 DEF Store!Abandon
    <3> QED BY <3>2 DEF Store!Next
  <2> QED BY <2>2, <2>3
<1> QED BY <1>1, <1>2 DEF EndStep

\* FileCheckpointStore is an atomic store, whatever fails and whenever the
\* process dies: each step of a run is one of AtomicStore's or changes neither
\* what is stored nor what is being saved.
THEOREM StoreRefinement == Spec => ImplementsAtomicStore
<1>1. Init => Store!Init
  BY DEF Init, StoreInit, Store!Init
<1>2. IInv /\ [Next]_vars => [Store!Next]_<<file, saving>>
  <2> SUFFICES ASSUME IInv, [Next]_vars
               PROVE  Store!Next \/ UNCHANGED <<file, saving>>
    OBVIOUS
  <2>1. CASE StoreStep
    BY <2>1, SaveImplements
  <2>2. CASE EndStep
    BY <2>2, EndImplements
  <2>3. CASE ~StoreStep /\ ~EndStep
    BY <2>3 DEF Next, Body, Finally, StoreStep, EndStep, vars, storeVars, Launch, Parsed, Probe,
       Planned, Acquired, AcquireRaises, Inject, MakeBrain, Line, Ground, Load, Drive,
       Remembered, Cancelled, RestoreEnv, Release, ReleaseCancelled, Released, Interrupt
  <2> QED BY <2>1, <2>2, <2>3
<1> QED BY <1>1, <1>2, Invariance, PTL DEF Spec, ImplementsAtomicStore, Store!Spec

-----------------------------------------------------------------------------
(* The files of the sessions, step by step. *)

\* A step that changes a session's file erases it, with all that was shown of the
\* session, or replaces it by the checkpoint of the turn under way, the newest
\* there is; a turn whose result is shown has its checkpoint on disk by then, and
\* is later than what was shown before.
FilesMoveForward ==
  \A s \in Session :
    /\ file'[s] # file[s] =>
         \/ file'[s] = None /\ reported'[s] = 0
         \/ file'[s] = turn /\ (file[s] = None \/ file[s] < turn)
    /\ reported'[s] # reported[s] =>
         \/ file'[s] = None /\ reported'[s] = 0
         \/ file'[s] = reported'[s] /\ reported'[s] > reported[s]

\* Of a session's file and of what was shown of it.
LEMMA SessionNumbers ==
  ASSUME IInv, NEW s \in Session
  PROVE  /\ file[s] # None => file[s] \in Nat /\ file[s] <= turn
         /\ reported[s] \in Nat /\ turn \in Nat
         /\ reported[s] # 0 => file[s] # None /\ reported[s] <= file[s]
<1>1. TypeOK /\ SaveInv /\ SessionInv
  BY DEF IInv
<1>2. Value \cup {0} \subseteq Nat
  BY RunAssumption
<1>3. file[s] \in Value \cup {None, Torn} /\ file[s] # Torn
  BY <1>1 DEF TypeOK, StoreTypeOK, SaveInv
<1>4. reported[s] \in Value \cup {0} /\ turn \in Value \cup {0}
  BY <1>1 DEF TypeOK
<1> QED BY <1>1, <1>2, <1>3, <1>4 DEF SessionInv

LEMMA SaveStepMovesForward == ASSUME IInv, SaveStep PROVE FilesMoveForward
<1>1. UNCHANGED <<reported, turn>>
  BY DEF SaveStep, turnVars
<1>2. CASE SaveWritten(Sid)
  BY <1>1, <1>2 DEF SaveWritten, FilesMoveForward
<1>3. CASE SaveReplace(Sid)
  <2>1. Sid \in Session /\ saving[Sid] = turn /\ file \in [Session -> Value \cup {None, Torn}]
    BY <1>3 DEF SaveStep, SaveReplace, IInv, ProcInv, SaveInv, TypeOK, StoreTypeOK
  <2>2. file' = [file EXCEPT ![Sid] = turn]
    BY <1>3, <2>1 DEF SaveReplace
  <2>3. SUFFICES ASSUME NEW s \in Session, file'[s] # file[s]
                 PROVE  file'[s] = turn /\ (file[s] = None \/ file[s] < turn)
    BY <1>1 DEF FilesMoveForward
  <2>4. file'[s] = turn
    BY <2>1, <2>2, <2>3
  <2> QED BY <2>3, <2>4, SessionNumbers
<1> QED BY <1>2, <1>3 DEF SaveStep

LEMMA RememberedMovesForward ==
  ASSUME IInv, NEW ok \in BOOLEAN, Remembered(ok)
  PROVE  FilesMoveForward
<1>1. file' = file /\ pc = "remember"
  BY DEF Remembered, storeVars
<1>2. CASE Sid = None
  BY <1>1, <1>2 DEF Remembered, FilesMoveForward
<1>3. CASE Sid # None
  <2>1. file[Sid] = turn /\ reported \in [Session -> Value \cup {0}]
    BY <1>1, <1>3 DEF IInv, SessionInv, TypeOK
  <2>2. reported' = [reported EXCEPT ![Sid] = turn]
    BY <1>3 DEF Remembered
  <2>3. SUFFICES ASSUME NEW s \in Session, reported'[s] # reported[s]
                 PROVE  file'[s] = reported'[s] /\ reported'[s] > reported[s]
    BY <1>1 DEF FilesMoveForward
  <2>4. s = Sid /\ reported'[s] = turn
    BY <2>1, <2>2, <2>3
  <2>5. turn \in Nat /\ reported[s] \in Nat /\ reported[s] <= turn
    BY <2>1, <2>4, SessionNumbers
  <2> QED BY <1>1, <2>1, <2>3, <2>4, <2>5
<1> QED BY <1>2, <1>3

LEMMA ErasedMovesForward ==
  ASSUME IInv, NEW e \in Session, Erased(e)
  PROVE  FilesMoveForward
<1>1. /\ file \in [Session -> Value \cup {None, Torn}]
      /\ reported \in [Session -> Value \cup {0}]
  BY DEF IInv, TypeOK, StoreTypeOK
<1>2. file' = [file EXCEPT ![e] = None] /\ reported' = [reported EXCEPT ![e] = 0]
  BY DEF Erased, Delete
<1>3. \A s \in Session : s # e => file'[s] = file[s] /\ reported'[s] = reported[s]
  BY <1>1, <1>2
<1>4. file'[e] = None /\ reported'[e] = 0
  BY <1>1, <1>2
<1> QED BY <1>3, <1>4 DEF FilesMoveForward

\* Across any number of processes, failures, interrupts and crashes on one session, a
\* step erases its file on the host's word or moves it on to the turn under way, and no
\* turn is shown before its checkpoint is on disk (drive_task, ground_and_run,
\* _run_task).
THEOREM FilesMoveForwardHolds == Spec => [][FilesMoveForward]_vars
<1>1. IInv /\ [Next]_vars => [FilesMoveForward]_vars
  <2> SUFFICES ASSUME IInv, Next PROVE FilesMoveForward
    OBVIOUS
  <2>1. CASE UNCHANGED <<file, reported>>
    BY <2>1 DEF FilesMoveForward
  <2>2. CASE SaveStep \/ (\E b \in BOOLEAN : Remembered(b)) \/ (\E e \in Session : Erased(e))
    BY <2>2, SaveStepMovesForward, RememberedMovesForward, ErasedMovesForward
  <2>3. CASE Crash \/ SaveRaises \/ Save
    BY <2>1, <2>3 DEF Crash, SavesLost, SaveRaises, Save, SaveFails, SaveBegin, storeVars, turnVars
  <2>4. CASE ~Crash /\ ~SaveRaises /\ ~Save /\ ~SaveStep /\ ~(\E b \in BOOLEAN : Remembered(b))
             /\ ~(\E e \in Session : Erased(e))
    <3>1. UNCHANGED <<file, reported>>
      BY <2>4 DEF Next, Body, Finally, storeVars, turnVars, Launch, Parsed, Probe, Planned,
         Acquired, AcquireRaises, Inject, MakeBrain, Line, Ground, Load, Drive, Cancelled,
         RestoreEnv, Release, ReleaseCancelled, Released, Interrupt
    <3> QED BY <2>1, <3>1
  <2> QED BY <2>2, <2>3, <2>4
<1> QED BY <1>1, Invariance, PTL DEF Spec
=============================================================================

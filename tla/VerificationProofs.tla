------------------------- MODULE VerificationProofs -------------------------
(***************************************************************************)
(* For every credential, verifier configuration and flaw: VALID is earned, *)
(* a revocation that was there when the verification began is never missed *)
(* and every rejection is for what it says.                                *)
(*                                                                         *)
(* The invariant says, for the place where a verification waits, what the  *)
(* checks before it have established; since the world moves in one         *)
(* direction only, what they saw bounds the world when it began.           *)
(*                                                                         *)
(* The last section is about Issuance: the forms one credential takes, and *)
(* the verdicts on them.                                                   *)
(***************************************************************************)
EXTENDS Verification, Issuance, TLAPS

\* How far a verification has come: the rank of the check it is at, and 6 for
\* VALID.
Stage == CASE pc = "done" -> IF code = "VALID" THEN 6 ELSE 0
           [] pc \in {"resolve", "fallback"} -> IF goal = "chain" THEN 5 ELSE 0
           [] pc \in Checks -> Rank[pc]
           [] OTHER -> 0

\* The world has only moved forward since the verification began.
Forward ==
    /\ began.clock = "late" => clock = "late"
    /\ clock = "early" => began.clock = "early"
    /\ began.record => record
    /\ began.bit => bit
    /\ listed => began.listed
    /\ began.key = "revoked" => key = "revoked"

\* What holds of the verification's own variables between its steps.
Placed ==
    /\ pc # "done" => code = "none"
    /\ pc = "fallback" => "did" \in lapses /\ cred.method = "web"
    /\ pc \notin {"idle", "done"} => flaw \notin {"outer", "form"}
    /\ goal = "chain" => cred.chain # "none"
    /\ pc = "bitstring" => Carried = "bitstring"

Signed == /\ flaw = "none"
          /\ clock # "early" /\ began.clock # "late"
          /\ \/ cred.method = "key" \/ began.listed
             \/ registry = "own" /\ key # "unrecorded"

NoRecord == ~(began.record /\ registry = "own" /\ Carried = "dedi")

NoKeyRevoked ==
    /\ began.key = "revoked" /\ NamesKey
    /\ cred.method = "web" \/ cred.status = "dedi" \/ registry = "own"
    => registry = "off" \/ "keyStatus" \in lapses

NoBit == ~(began.bit /\ Carried = "bitstring")

\* What each check has established for those after it.
Cleared ==
    /\ Stage > 0 => Signed
    /\ Stage > 1 => NoRecord
    /\ Stage > 2 => NoKeyRevoked
    /\ Stage > 4 => NoBit
    /\ Stage > 5 => cred.chain # "loose"

\* RejectionsTrue, with the verifier that could see what was revoked.
RevokedTruly ==
    Ended("REVOKED") => \/ record /\ registry = "own" /\ Carried = "dedi"
                        \/ bit /\ Carried = "bitstring"
                        \/ key = "revoked"

IInv == TypeOK /\ Forward /\ Placed /\ Cleared /\ RejectionsTrue /\ RevokedTruly

-----------------------------------------------------------------------------
LEMMA Ranks ==
    /\ Rank \in [Checks -> 1..5]
    /\ Rank["revocation"] = 1 /\ Rank["keyStatus"] = 2 /\ Rank["anchor"] = 3
    /\ Rank["bitstring"] = 4 /\ Rank["chain"] = 5
  BY DEF Rank, Checks

\* The value of Stage, place by place.
LEMMA Stages ==
    /\ pc = "idle" => Stage = 0
    /\ pc = "done" => Stage = IF code = "VALID" THEN 6 ELSE 0
    /\ pc \in {"resolve", "fallback"} => Stage = IF goal = "chain" THEN 5 ELSE 0
    /\ pc = "revocation" => Stage = 1
    /\ pc = "keyStatus" => Stage = 2
    /\ pc = "anchor" => Stage = 3
    /\ pc = "bitstring" => Stage = 4
  BY Ranks DEF Stage, Checks

LEMMA NextStages ==
    /\ pc' = "idle" => Stage' = 0
    /\ pc' = "done" => Stage' = IF code' = "VALID" THEN 6 ELSE 0
    /\ pc' \in {"resolve", "fallback"} => Stage' = IF goal' = "chain" THEN 5 ELSE 0
    /\ pc' = "revocation" => Stage' = 1
    /\ pc' = "keyStatus" => Stage' = 2
    /\ pc' = "anchor" => Stage' = 3
    /\ pc' = "bitstring" => Stage' = 4
  BY Ranks DEF Stage, Checks, Rank

\* A verification that goes on skips only checks that do not apply, and ends
\* only when none is left.
LEMMA ProceedEffect ==
    ASSUME NEW r \in 0..4, Proceed(r), code = "none", goal \in {"signature", "chain"}
    PROVE  /\ pc' \in {"resolve", "done"} \cup (Checks \ {"chain"})
           /\ goal' \in {"signature", "chain"}
           /\ IF pc' = "done" THEN code' = "VALID" ELSE code' = "none"
           /\ goal' = "chain" => goal = "chain" \/ cred.chain # "none"
           /\ pc' = "resolve" => goal' = "chain"
           /\ pc' \in Checks => Applies(pc')
           /\ \A c \in Checks : r < Rank[c] /\ Rank[c] < Stage' => ~Applies(c)
  <1> DEFINE rest == {c \in Checks : Rank[c] > r /\ Applies(c)}
  <1>1. CASE rest = {} /\ Answer("VALID")
    BY <1>1, NextStages, Ranks DEF Answer, Checks
  <1>2. CASE rest # {} /\ ~(rest = {} /\ Answer("VALID"))
    <2>1. PICK next \in rest :
            /\ \A c \in rest : Rank[next] <= Rank[c]
            /\ pc' = IF next = "chain" THEN "resolve" ELSE next
            /\ goal' = IF next = "chain" THEN "chain" ELSE "signature"
            /\ UNCHANGED code
      BY <1>2 DEF Proceed
    <2>2. next \in Checks /\ Applies(next) /\ Rank[next] > r
      OBVIOUS
    <2>3. Stage' = Rank[next]
      BY <2>1, <2>2, NextStages, Ranks DEF Checks
    <2>4. \A c \in Checks : r < Rank[c] /\ Rank[c] < Stage' => ~Applies(c)
      <3> SUFFICES ASSUME NEW c \in Checks, r < Rank[c], Rank[c] < Rank[next], Applies(c)
                   PROVE  FALSE
        BY <2>3
      <3>1. c \in rest
        BY Ranks
      <3> QED BY <3>1, <2>1, <2>2, Ranks
    <2>5. next = "chain" => cred.chain # "none"
      BY <2>2 DEF Applies
    <2> QED BY <2>1, <2>2, <2>4, <2>5 DEF Checks
  <1> QED BY <1>1, <1>2 DEF Proceed

-----------------------------------------------------------------------------
\* A world is its five parts.
LEMMA WorldParts ==
    ASSUME NEW c, NEW r, NEW k, NEW l, NEW b
    PROVE  [clock |-> c, record |-> r, key |-> k, listed |-> l, bit |-> b] \in Worlds
             <=> c \in Clocks /\ r \in BOOLEAN /\ k \in KeyStates /\ l \in BOOLEAN /\ b \in BOOLEAN
  BY ZenonT(30) DEF Worlds

LEMMA InitInvariant == Init => IInv
  <1> SUFFICES ASSUME Init PROVE IInv
    OBVIOUS
  <1>1. TypeOK
    <2>1. World \in Worlds
      <3>1. clock \in Clocks /\ record \in BOOLEAN /\ key \in KeyStates /\ listed \in BOOLEAN /\ bit \in BOOLEAN
        BY DEF Init, Clocks, KeyStates
      <3> QED BY <3>1, WorldParts, Zenon DEF World
    <2> QED BY <2>1 DEF Init, TypeOK, Checks, Faults
  <1>2. Stage = 0
    BY Stages DEF Init
  <1> QED BY <1>1, <1>2 DEF Init, IInv, Forward, Placed, Cleared, RejectionsTrue,
            RevokedTruly, Ended, World

\* The world moves on while a verification waits.
WorldStep == Tick \/ RevokeCredential \/ MoveKey \/ Unlist \/ SetBit

LEMMA WorldStepForward ==
    ASSUME TypeOK, WorldStep
    PROVE  /\ UNCHANGED <<cred, registry, verification>>
           /\ World' \in Worlds
           /\ clock = "late" => clock' = "late"
           /\ clock # "early" => clock' # "early"
           /\ record => record'
           /\ bit => bit'
           /\ listed' => listed
           /\ key = "revoked" => key' = "revoked"
           /\ key # "unrecorded" => key' # "unrecorded"
  <1>1. clock \in Clocks /\ record \in BOOLEAN /\ key \in KeyStates /\ listed \in BOOLEAN /\ bit \in BOOLEAN
    BY WorldParts, Zenon DEF TypeOK, World
  <1>2. /\ UNCHANGED <<cred, registry, verification>>
        /\ clock' \in Clocks /\ record' \in BOOLEAN /\ key' \in KeyStates /\ listed' \in BOOLEAN /\ bit' \in BOOLEAN
        /\ clock = "late" => clock' = "late"
        /\ clock # "early" => clock' # "early"
        /\ record => record'
        /\ bit => bit'
        /\ listed' => listed
        /\ key = "revoked" => key' = "revoked"
        /\ key # "unrecorded" => key' # "unrecorded"
    <2>1. CASE Tick
      BY <1>1, <2>1 DEF Tick, Clocks
    <2>2. CASE RevokeCredential
      BY <1>1, <2>2 DEF RevokeCredential
    <2>3. CASE MoveKey
      BY <1>1, <2>3 DEF MoveKey, KeyStates
    <2>4. CASE Unlist
      BY <1>1, <2>4 DEF Unlist
    <2>5. CASE SetBit
      BY <1>1, <2>5 DEF SetBit
    <2> QED BY <2>1, <2>2, <2>3, <2>4, <2>5 DEF WorldStep
  <1>3. World' \in Worlds
    BY <1>2, WorldParts, Zenon DEF World
  <1> QED BY <1>2, <1>3

LEMMA WorldStepKeeps ==
    ASSUME IInv, WorldStep
    PROVE  IInv'
  <1> USE DEF verification
  <1>1. TypeOK'
    BY WorldStepForward DEF IInv, TypeOK
  <1>2. Stage' = Stage /\ Carried' = Carried /\ NamesKey' = NamesKey
    BY WorldStepForward DEF IInv, Stage, Carried, NamesKey
  <1>3. Forward'
    BY WorldStepForward DEF IInv, Forward
  <1>4. Placed'
    BY <1>2, WorldStepForward DEF IInv, Placed
  <1>5. Cleared'
    BY <1>2, WorldStepForward DEF IInv, Cleared, Signed, NoRecord, NoKeyRevoked, NoBit
  <1>6. RejectionsTrue' /\ RevokedTruly'
    BY <1>2, WorldStepForward DEF IInv, RejectionsTrue, RevokedTruly, Ended, Carried
  <1> QED BY <1>1, <1>3, <1>4, <1>5, <1>6 DEF IInv

-----------------------------------------------------------------------------
\* What a step of the verification leaves alone.
Within == UNCHANGED <<cred, registry, world, flaw, began>> /\ lapses \subseteq lapses' /\ lapses' \subseteq Calls

LEMMA WithinKeeps ==
    ASSUME IInv, Within
    PROVE  /\ UNCHANGED <<cred, registry, clock, record, key, listed, bit, flaw, began, Carried, NamesKey>>
           /\ World' = World
           /\ Forward'
           /\ Signed' = Signed /\ NoRecord' = NoRecord /\ NoBit' = NoBit
           /\ NoKeyRevoked => NoKeyRevoked'
  <1>1. UNCHANGED <<cred, registry, clock, record, key, listed, bit, flaw, began>>
    BY DEF Within, world
  <1>2. UNCHANGED <<Carried, NamesKey>>
    BY <1>1 DEF Carried, NamesKey
  <1>3. Forward'
    BY <1>1 DEF IInv, Forward
  <1> QED BY <1>1, <1>2, <1>3 DEF World, Signed, NoRecord, NoBit, NoKeyRevoked, Within

\* An answer that rejects, for a reason it may give.
LEMMA RejectKeeps ==
    ASSUME IInv, Within, NEW c \in Codes \ {"VALID"}, Answer(c),
           c = "REVOKED" => \/ record /\ registry = "own" /\ Carried = "dedi"
                            \/ bit /\ Carried = "bitstring"
                            \/ key = "revoked",
           c = "EXPIRED" => clock = "late",
           c = "CONTEXT_MISSING" => flaw = "context",
           c = "UNRESOLVABLE" => lapses' # {} \/ registry = "nameless" \/ ~listed,
           c = "INVALID" => \/ flaw # "none" \/ cred.chain = "loose" \/ began.clock = "early"
                            \/ cred.format = "sd-jwt-vc" /\ clock = "late"
                            \/ (cred.format = "jws" \/ cred.chain # "none")
                                 /\ ("did" \in lapses' \/ ~listed)
    PROVE  IInv'
  <1>1. pc' = "done" /\ code' = c /\ goal' = goal /\ Stage' = 0
    BY NextStages DEF Answer
  <1>2. TypeOK'
    BY <1>1, WithinKeeps DEF IInv, TypeOK, Within
  <1>3. Placed'
    BY <1>1, WithinKeeps DEF IInv, Placed
  <1>4. Cleared'
    BY <1>1 DEF Cleared
  <1>5. RejectionsTrue' /\ RevokedTruly'
    BY <1>1, WithinKeeps DEF RejectionsTrue, RevokedTruly, Ended
  <1> QED BY <1>2, <1>3, <1>4, <1>5, WithinKeeps DEF IInv

\* A verification that goes on, with what the checks so far have established.
LEMMA ProceedKeeps ==
    ASSUME IInv, Within, pc # "done", NEW r \in 0..4, Proceed(r), Signed,
           r >= 1 => NoRecord,
           r >= 2 => NoKeyRevoked',
           r >= 4 => NoBit
    PROVE  IInv'
  <1>1. code = "none" /\ goal \in {"signature", "chain"}
    BY DEF IInv, Placed, TypeOK
  <1>2. /\ pc' \in {"resolve", "done"} \cup (Checks \ {"chain"})
        /\ goal' \in {"signature", "chain"}
        /\ IF pc' = "done" THEN code' = "VALID" ELSE code' = "none"
        /\ goal' = "chain" => goal = "chain" \/ cred.chain # "none"
        /\ pc' \in Checks => Applies(pc')
        /\ \A c \in Checks : r < Rank[c] /\ Rank[c] < Stage' => ~Applies(c)
    BY <1>1, ProceedEffect
  <1>3. TypeOK'
    BY <1>2, WithinKeeps DEF IInv, TypeOK, Within, Codes
  <1>4. Placed'
    BY <1>2, WithinKeeps DEF IInv, Placed, Signed, Checks, Applies
  <1>5. Cleared'
    <2>1. Signed'
      BY WithinKeeps
    <2>2. Stage' > 1 => NoRecord'
      BY <1>2, WithinKeeps, Ranks DEF Applies, NoRecord, Checks
    <2>3. Stage' > 2 => NoKeyRevoked'
      <3>1. CASE r >= 2
        BY <3>1
      <3>2. CASE r < 2 /\ Stage' > 2
        <4>1. ~Applies("keyStatus")
          BY <3>2, <1>2, Ranks DEF Checks
        <4> QED BY <4>1, WithinKeeps DEF Applies, NoKeyRevoked
      <3> QED BY <3>1, <3>2
    <2>4. Stage' > 4 => NoBit'
      BY <1>2, WithinKeeps, Ranks DEF Applies, NoBit, Checks
    <2>5. Stage' > 5 => cred'.chain # "loose"
      BY <1>2, WithinKeeps, Ranks DEF Applies, Checks
    <2> QED BY <2>1, <2>2, <2>3, <2>4, <2>5 DEF Cleared
  <1>6. RejectionsTrue' /\ RevokedTruly'
    BY <1>2 DEF RejectionsTrue, RevokedTruly, Ended, Codes
  <1> QED BY <1>3, <1>4, <1>5, <1>6, WithinKeeps DEF IInv

\* What becomes of a verification whose document was found, or was not.
LEMMA FoundKeeps ==
    ASSUME IInv, Within, pc \in {"resolve", "fallback"}, NEW found \in BOOLEAN, Found(found),
           found => \/ cred.method = "key" \/ began.listed
                    \/ registry = "own" /\ key # "unrecorded",
           ~found => "did" \in lapses' \/ ~listed
    PROVE  IInv'
  <1>1. CASE goal = "signature"
    <2>1. Judge(found) /\ flaw \in Faults /\ clock \in Clocks /\ flaw \notin {"outer", "form"}
      <3>1. clock \in Clocks
        BY WorldParts, Zenon DEF IInv, TypeOK, World
      <3> QED BY <3>1, <1>1 DEF Found, IInv, TypeOK, Placed
    <2>2. CASE ~found
      BY <2>1, <2>2, RejectKeeps DEF Judge, Keyless, Codes
    <2>3. CASE found /\ flaw = "context"
      BY <2>1, <2>3, RejectKeeps DEF Judge, Codes
    <2>4. CASE found /\ flaw # "context" /\ (flaw \in {"signature", "claims"} \/ JoseRejects)
      <3>1. flaw # "none" \/ began.clock = "early" \/ (cred.format = "sd-jwt-vc" /\ clock = "late")
        BY <2>1, <2>4 DEF JoseRejects, Clocks, IInv, Forward
      <3>2. Answer("INVALID")
        BY <2>1, <2>4 DEF Judge
      <3> QED BY <3>1, <3>2, RejectKeeps DEF Codes
    <2>5. CASE found /\ flaw = "none" /\ ~JoseRejects
      <3>1. CASE clock = "early"
        BY <2>1, <2>5, <3>1, RejectKeeps DEF Judge, Codes, IInv, Forward
      <3>2. CASE clock = "late"
        BY <2>1, <2>5, <3>2, RejectKeeps DEF Judge, Codes
      <3>3. CASE clock = "valid"
        <4>1. Proceed(0)
          BY <2>1, <2>5, <3>3 DEF Judge
        <4>2. Signed
          BY <2>5, <3>3 DEF Signed, IInv, Forward
        <4> QED BY <4>1, <4>2, ProceedKeeps
      <3> QED BY <2>1, <3>1, <3>2, <3>3 DEF Clocks
    <2> QED BY <2>1, <2>2, <2>3, <2>4, <2>5 DEF Faults
  <1>2. CASE goal = "chain"
    <2>1. JudgeChain(found) /\ cred.chain # "none"
      BY <1>2 DEF Found, IInv, Placed
    <2>2. CASE found /\ cred.chain = "anchored"
      <3>1. pc' = "done" /\ code' = "VALID" /\ goal' = goal
        BY <2>1, <2>2 DEF JudgeChain, Answer
      <3>2. Signed /\ NoRecord /\ NoKeyRevoked /\ NoBit
        BY <1>2, Stages DEF IInv, Cleared
      <3>3. TypeOK'
        BY <3>1, WithinKeeps DEF IInv, TypeOK, Within, Codes
      <3>4. Placed'
        BY <3>1, WithinKeeps DEF IInv, Placed
      <3>5. Cleared'
        BY <3>2, <2>2, WithinKeeps DEF Cleared
      <3>6. RejectionsTrue' /\ RevokedTruly'
        BY <3>1 DEF RejectionsTrue, RevokedTruly, Ended, Codes
      <3> QED BY <3>3, <3>4, <3>5, <3>6, WithinKeeps DEF IInv
    <2>3. CASE ~(found /\ cred.chain = "anchored")
      <3>1. cred.chain = "loose" \/ ~found
        <4>1. cred.chain \in {"none", "anchored", "loose"}
          BY ShapeAssumption DEF IInv, TypeOK, Shapes
        <4> QED BY <4>1, <2>1, <2>3
      <3>2. Answer("INVALID")
        BY <2>1, <2>3 DEF JudgeChain
      <3> QED BY <2>1, <3>1, <3>2, RejectKeeps DEF Codes
    <2> QED BY <2>2, <2>3
  <1> QED BY <1>1, <1>2 DEF IInv, TypeOK

-----------------------------------------------------------------------------
LEMMA StartKeeps ==
    ASSUME IInv, NEW f \in Flaws, Start(f)
    PROVE  IInv'
  <1>1. /\ UNCHANGED <<cred, registry, clock, record, key, listed, bit>>
        /\ flaw' = f /\ began' = World /\ lapses' = {} /\ goal' = "signature"
        /\ \/ f \in {"outer", "form"} /\ pc' = "done" /\ code' = "INVALID"
           \/ f \notin {"outer", "form"} /\ pc' = "resolve" /\ code' = "none"
    BY DEF Start, world
  <1>2. World' = World /\ World \in Worlds /\ Stage' = 0
    BY <1>1, NextStages DEF World, IInv, TypeOK
  <1>3. TypeOK'
    BY <1>1, <1>2, ScopeAssumption DEF IInv, TypeOK, Codes
  <1>4. Forward'
    BY <1>1 DEF Forward, World
  <1>5. Placed' /\ Cleared' /\ RejectionsTrue' /\ RevokedTruly'
    BY <1>1, <1>2 DEF Placed, Cleared, RejectionsTrue, RevokedTruly, Ended, Codes
  <1> QED BY <1>3, <1>4, <1>5 DEF IInv

LEMMA ResolveKeeps ==
    ASSUME IInv, Resolve
    PROVE  IInv'
  <1>1. CASE Found(cred.method = "key" \/ listed) /\ UNCHANGED lapses
    <2>1. Within
      BY <1>1 DEF Within, Resolve, IInv, TypeOK
    <2> QED BY <1>1, <2>1, FoundKeeps DEF Resolve, IInv, Forward
  <1>2. CASE cred.method = "web" /\ Lapse("did") /\ registry = "off" /\ Found(FALSE)
    <2>1. Within /\ "did" \in lapses'
      BY <1>2 DEF Within, Resolve, IInv, TypeOK, Lapse, Calls
    <2> QED BY <1>2, <2>1, FoundKeeps DEF Resolve
  <1>3. CASE cred.method = "web" /\ Lapse("did") /\ pc' = "fallback" /\ UNCHANGED <<goal, code>>
    <2>1. Within /\ "did" \in lapses'
      BY <1>3 DEF Within, Resolve, IInv, TypeOK, Lapse, Calls
    <2>2. TypeOK' /\ Placed'
      BY <1>3, <2>1, WithinKeeps DEF IInv, TypeOK, Placed, Within, Resolve
    <2>3. Stage' = Stage
      BY <1>3, Stages, NextStages DEF Resolve
    <2>4. Cleared'
      BY <2>3, <2>1, WithinKeeps, Stages DEF IInv, Cleared, Resolve
    <2>5. RejectionsTrue' /\ RevokedTruly'
      BY <1>3 DEF Resolve, RejectionsTrue, RevokedTruly, Ended
    <2> QED BY <2>1, <2>2, <2>4, <2>5, WithinKeeps DEF IInv
  <1> QED BY <1>1, <1>2, <1>3 DEF Resolve

LEMMA FallbackKeeps ==
    ASSUME IInv, Fallback
    PROVE  IInv'
  <1>1. "did" \in lapses
    BY DEF IInv, Placed, Fallback
  <1>2. CASE Found(registry = "own" /\ key # "unrecorded") /\ UNCHANGED lapses
    <2>1. Within
      BY <1>2 DEF Within, Fallback, IInv, TypeOK
    <2> QED BY <1>1, <1>2, <2>1, FoundKeeps DEF Fallback
  <1>3. CASE Found(FALSE) /\ Lapse("fallback")
    <2>1. Within
      BY <1>3 DEF Within, Fallback, IInv, TypeOK, Lapse, Calls
    <2> QED BY <1>1, <1>3, <2>1, FoundKeeps DEF Fallback, Within
  <1> QED BY <1>2, <1>3 DEF Fallback

LEMMA CheckRevocationKeeps ==
    ASSUME IInv, CheckRevocation
    PROVE  IInv'
  <1>1. Signed
    BY Stages DEF CheckRevocation, IInv, Cleared
  <1>2. CASE Answer("UNRESOLVABLE") /\ Lapse("revocation")
    <2>1. Within /\ lapses' # {}
      BY <1>2 DEF Within, CheckRevocation, IInv, TypeOK, Lapse, Calls
    <2> QED BY <1>2, <2>1, RejectKeeps DEF Codes
  <1>3. CASE UNCHANGED lapses
    <2>1. Within
      BY <1>3 DEF Within, CheckRevocation, IInv, TypeOK
    <2>2. CASE registry = "nameless" /\ Answer("UNRESOLVABLE")
      BY <2>1, <2>2, RejectKeeps DEF Codes
    <2>3. CASE registry = "own" /\ record /\ Carried = "dedi" /\ Answer("REVOKED")
      BY <2>1, <2>3, RejectKeeps DEF Codes
    <2>4. CASE ~(registry = "own" /\ record /\ Carried = "dedi") /\ Proceed(Rank["revocation"])
      <3>1. NoRecord
        BY <2>4 DEF NoRecord, IInv, Forward
      <3> QED BY <1>1, <2>1, <2>4, <3>1, Ranks, ProceedKeeps DEF CheckRevocation
    <2> QED BY <1>3, <2>2, <2>3, <2>4, <1>2 DEF CheckRevocation
  <1> QED BY <1>2, <1>3 DEF CheckRevocation

LEMMA CheckKeyStatusKeeps ==
    ASSUME IInv, CheckKeyStatus
    PROVE  IInv'
  <1>1. Signed /\ NoRecord
    BY Stages DEF CheckKeyStatus, IInv, Cleared
  <1>2. CASE Proceed(Rank["keyStatus"]) /\ Lapse("keyStatus")
    <2>1. Within /\ "keyStatus" \in lapses'
      BY <1>2 DEF Within, CheckKeyStatus, IInv, TypeOK, Lapse, Calls
    <2>2. NoKeyRevoked'
      BY <2>1 DEF NoKeyRevoked
    <2> QED BY <1>1, <1>2, <2>1, <2>2, Ranks, ProceedKeeps DEF CheckKeyStatus
  <1>3. CASE UNCHANGED lapses
    <2>1. Within
      BY <1>3 DEF Within, CheckKeyStatus, IInv, TypeOK
    <2>2. CASE KeyNamespace = "own" /\ key = "revoked" /\ Answer("REVOKED")
      BY <2>1, <2>2, RejectKeeps DEF Codes
    <2>3. CASE ~(KeyNamespace = "own" /\ key = "revoked") /\ Proceed(Rank["keyStatus"])
      <3>1. NoKeyRevoked
        BY <2>3 DEF NoKeyRevoked, IInv, Forward, KeyNamespace, NamesKey, Carried, Canonical
      <3>2. NoKeyRevoked'
        BY <2>1, <3>1, WithinKeeps
      <3> QED BY <1>1, <2>1, <2>3, <3>2, Ranks, ProceedKeeps DEF CheckKeyStatus
    <2>4. \/ KeyNamespace = "own" /\ key = "revoked" /\ Answer("REVOKED")
          \/ ~(KeyNamespace = "own" /\ key = "revoked") /\ Proceed(Rank["keyStatus"])
          \/ Proceed(Rank["keyStatus"]) /\ Lapse("keyStatus")
      BY DEF CheckKeyStatus
    <2> QED BY <2>2, <2>3, <2>4, <1>2
  <1> QED BY <1>2, <1>3 DEF CheckKeyStatus

LEMMA CheckRegistryAnchorKeeps ==
    ASSUME IInv, CheckRegistryAnchor
    PROVE  IInv'
  <1>1. Signed /\ NoRecord /\ NoKeyRevoked
    BY Stages DEF CheckRegistryAnchor, IInv, Cleared
  <1>2. Within
    BY DEF Within, CheckRegistryAnchor, IInv, TypeOK
  <1> QED BY <1>1, <1>2, Ranks, WithinKeeps, ProceedKeeps DEF CheckRegistryAnchor

LEMMA CheckBitstringKeeps ==
    ASSUME IInv, CheckBitstringStatusList
    PROVE  IInv'
  <1>1. Signed /\ NoRecord /\ NoKeyRevoked
    BY Stages DEF CheckBitstringStatusList, IInv, Cleared
  <1>2. CASE Answer("UNRESOLVABLE") /\ Lapse("bitstring")
    <2>1. Within /\ lapses' # {}
      BY <1>2 DEF Within, CheckBitstringStatusList, IInv, TypeOK, Lapse, Calls
    <2> QED BY <1>2, <2>1, RejectKeeps DEF Codes
  <1>3. CASE UNCHANGED lapses /\ IF bit THEN Answer("REVOKED") ELSE Proceed(Rank["bitstring"])
    <2>1. Within
      BY <1>3 DEF Within, CheckBitstringStatusList, IInv, TypeOK
    <2>2. CASE bit
      \* Only a credential with a status list waits here.
      <3>1. Answer("REVOKED") /\ Carried = "bitstring"
        BY <1>3, <2>2 DEF IInv, Placed, CheckBitstringStatusList
      <3> QED BY <2>1, <2>2, <3>1, RejectKeeps DEF Codes
    <2>3. CASE ~bit
      <3>1. NoBit
        BY <2>3 DEF NoBit, IInv, Forward
      <3> QED BY <1>1, <1>3, <2>1, <2>3, <3>1, Ranks, WithinKeeps, ProceedKeeps DEF CheckBitstringStatusList
    <2> QED BY <2>2, <2>3
  <1> QED BY <1>2, <1>3 DEF CheckBitstringStatusList

-----------------------------------------------------------------------------
LEMMA NextInvariant == IInv /\ [Next]_vars => IInv'
  <1> SUFFICES ASSUME IInv, [Next]_vars PROVE IInv'
    OBVIOUS
  <1>1. CASE UNCHANGED vars
    BY <1>1 DEF vars, world, verification, IInv, TypeOK, World, Forward, Placed, Cleared, Stage,
       Signed, NoRecord, NoKeyRevoked, NoBit, Carried, NamesKey, RejectionsTrue, RevokedTruly, Ended
  <1>2. CASE WorldStep
    BY <1>2, WorldStepKeeps
  <1>3. CASE \E f \in Flaws : Start(f)
    BY <1>3, StartKeeps
  <1>4. CASE Resolve \/ Fallback \/ CheckRevocation \/ CheckKeyStatus
             \/ CheckRegistryAnchor \/ CheckBitstringStatusList
    BY <1>4, ResolveKeeps, FallbackKeeps, CheckRevocationKeeps, CheckKeyStatusKeeps,
       CheckRegistryAnchorKeeps, CheckBitstringKeeps
  <1> QED BY <1>1, <1>2, <1>3, <1>4 DEF Next, WorldStep

\* Type correctness.
THEOREM VerificationTypeCorrect == Spec => []TypeOK
  <1>1. IInv => TypeOK
    BY DEF IInv
  <1> QED BY <1>1, InitInvariant, NextInvariant, PTL DEF Spec

\* What Stage = 6 says.
LEMMA ValidIsCleared ==
    ASSUME IInv, Ended("VALID")
    PROVE  Signed /\ NoRecord /\ NoKeyRevoked /\ NoBit /\ cred.chain # "loose"
  <1>1. Stage = 6
    BY Stages DEF Ended
  <1> QED BY <1>1 DEF IInv, Cleared

\* VALID is said only of a presentation without a flaw, inside its time, under
\* a key the issuer lists, whatever the world does between two awaits
\* (verifyCredential).
THEOREM EarnedHolds == Spec => []ValidIsEarned
  <1>1. IInv => ValidIsEarned
    BY ValidIsCleared DEF ValidIsEarned, Signed
  <1> QED BY <1>1, InitInvariant, NextInvariant, PTL DEF Spec

\* A revocation of the credential that was there when the verification began
\* is never missed, whatever lapses (checkRevocation, checkBitstringStatusList).
THEOREM RevokedHolds == Spec => []RevokedRejected
  <1>1. IInv => RevokedRejected
    BY ValidIsCleared DEF RevokedRejected, NoRecord, NoBit
  <1> QED BY <1>1, InitInvariant, NextInvariant, PTL DEF Spec

\* A revoked key that the credential names is missed only when the call for
\* its status lapses (checkKeyStatus).
THEOREM KeyHolds == Spec => []KeyRejected
  <1>1. IInv => KeyRejected
    BY ValidIsCleared DEF KeyRejected, NoKeyRevoked
  <1> QED BY <1>1, InitInvariant, NextInvariant, PTL DEF Spec

\* Every rejection is for what it says (buildResult).
THEOREM RejectionsHold == Spec => []RejectionsTrue
  <1>1. IInv => RejectionsTrue
    BY DEF IInv
  <1> QED BY <1>1, InitInvariant, NextInvariant, PTL DEF Spec

-----------------------------------------------------------------------------
(* A rejection is for good.                                                 *)

OutOf(c, r, b) == \/ c = "late"
                  \/ r /\ registry = "own" /\ Carried = "dedi"
                  \/ b /\ Carried = "bitstring"

\* The credential is expired or revoked, and the verification under way began
\* when it was, or has ended already.
Doomed ==
    /\ code # "VALID"
    /\ OutOf(clock, record, bit)
    /\ pc = "done" \/ OutOf(began.clock, began.record, began.bit)

Rejected == Ended("EXPIRED") \/ (Ended("REVOKED") /\ key # "revoked")

LEMMA RejectedIsDoomed == IInv /\ Rejected => Doomed
  BY DEF IInv, Rejected, Doomed, OutOf, RejectionsTrue, RevokedTruly, Ended

LEMMA DoomedStays == IInv /\ IInv' /\ Doomed /\ [Next]_vars => Doomed'
  <1> SUFFICES ASSUME IInv, IInv', Doomed, [Next]_vars PROVE Doomed'
    OBVIOUS
  <1>1. CASE UNCHANGED vars
    BY <1>1 DEF vars, world, verification, Doomed, OutOf, Carried
  <1>2. CASE WorldStep
    BY <1>2, WorldStepForward DEF Doomed, OutOf, Carried, verification, IInv
  <1>3. ASSUME NEW f \in Flaws, Start(f)
        PROVE  Doomed'
    <2>1. /\ UNCHANGED <<cred, registry, clock, record, bit>>
          /\ began' = World /\ code' \in {"INVALID", "none"}
      BY <1>3 DEF Start, world
    <2> QED BY <2>1 DEF Doomed, OutOf, Carried, World
  <1>4. CASE Resolve \/ Fallback \/ CheckRevocation \/ CheckKeyStatus
             \/ CheckRegistryAnchor \/ CheckBitstringStatusList
    <2>1. /\ UNCHANGED <<cred, registry, clock, record, bit, began>>
          /\ pc # "done"
      BY <1>4 DEF Resolve, Fallback, CheckRevocation, CheckKeyStatus, CheckRegistryAnchor,
         CheckBitstringStatusList, world
    <2>2. UNCHANGED Carried /\ OutOf(began.clock, began.record, began.bit)
      BY <2>1 DEF Carried, Doomed
    <2>3. code' # "VALID"
      <3> SUFFICES ASSUME code' = "VALID" PROVE FALSE
        OBVIOUS
      <3>1. pc' = "done" /\ Stage' = 6
        BY NextStages DEF IInv, Placed
      <3>2. Signed' /\ NoRecord' /\ NoBit'
        BY <3>1 DEF IInv, Cleared
      <3> QED BY <2>1, <2>2, <3>2 DEF Signed, NoRecord, NoBit, OutOf
    <2> QED BY <2>1, <2>2, <2>3 DEF Doomed, OutOf
  <1> QED BY <1>1, <1>2, <1>3, <1>4 DEF Next, WorldStep

\* Once EXPIRED, or REVOKED by its record or bit, never VALID again, whatever
\* later verifications find or fail to find (checkDates, checkRevocation).
THEOREM StaysRejectedHolds == Spec => StaysRejected
  <1>1. Spec => []IInv
    BY InitInvariant, NextInvariant, PTL DEF Spec
  <1>2. Doomed => code # "VALID"
    BY DEF Doomed
  <1>3. Spec => [](Rejected => [](code # "VALID"))
    BY <1>1, <1>2, RejectedIsDoomed, DoomedStays, PTL DEF Spec
  <1> QED BY <1>3 DEF StaysRejected, Rejected

----------------------------------------------------------------------------
(* The forms of one credential (module Issuance, whose verifier is a second *)
(* one beside the first).                                                   *)

\* The document that was built, and each form that was signed from it.
Document == Unsigned(asked)

IsProof(c) ==
    \E doc \in {Document, Prepared(Document)} :
        c = [form |-> "proof", doc |-> doc, signed |-> doc]

IsToken(c) == c = VcJwt(Document)

IsEnvelope(c) ==
    c = [form |-> "envelope", doc |-> Document, jwt |-> VcJwt(Document)]

IsSdJwt(c) ==
    \E left \in SUBSET (asked.claims \cap asked.sealed) :
        c = [SdJwt(Document, asked.sealed) EXCEPT !.disclosed = left]

\* A form the verifier judges, and one it does not.
Genuine(c) == IsProof(c) \/ IsToken(c) \/ IsEnvelope(c) \/ IsSdJwt(c)
Exported(c) == c = [form |-> "export", credential |-> c.credential]

\* Every form in circulation was signed for the request; a certificate is made
\* from the form it carries; the records are the hashes of what was posted.
Traced ==
    /\ asked \in Requests /\ now \in Nat
    /\ \A c \in issued \cup hand : Genuine(c) \/ Exported(c)
    /\ \A p \in paper : Genuine(p.carried) /\ p = Certificate(p.carried)
    /\ \A e \in revoked : /\ Genuine(e[2]) \/ Exported(e[2])
                          /\ e[2].form \in Objects
    /\ live = {<<e[1], HashOf(e[2])>> : e \in revoked}

\* Rounding down to a second.
LEMMA FloorRounds ==
    ASSUME NEW t \in Nat
    PROVE  /\ Floor(t) \in Nat
           /\ Floor(t) <= t /\ t <= Floor(t) + 1
           /\ t # 1 => (Floor(t) = 0 <=> t = 0)
           /\ \A u \in Nat : u <= t => Floor(u) <= Floor(t)
  BY DEF Floor

\* The fields of a document.
LEMMA DocumentFields ==
    ASSUME NEW doc \in {Document, Prepared(Document)}
    PROVE  /\ doc.issuer = asked.issuer
           /\ doc.from = asked.from /\ doc.until = asked.until
           /\ doc.status = StatusAt(asked) /\ doc.claims = asked.claims
           /\ doc.term = asked.term
  BY DEF Document, Unsigned, Prepared

\* The four forms, each with its fields.
LEMMA ProofFields ==
    ASSUME NEW c, IsProof(c)
    PROVE  /\ c.form = "proof" /\ c.doc = c.signed
           /\ c.doc.from = asked.from /\ c.doc.until = asked.until
           /\ c.doc.status = StatusAt(asked) /\ c.doc.claims = asked.claims
           /\ "form" \in DOMAIN c
  BY DocumentFields DEF IsProof

LEMMA TokenFields ==
    ASSUME NEW c, IsToken(c)
    PROVE  /\ c.form = "token" /\ c.iss = asked.issuer
           /\ c.nbf = Floor(asked.from) /\ c.exp = Floor(asked.until)
           /\ c.vc = [status |-> StatusAt(asked), claims |-> asked.claims]
  BY DocumentFields DEF IsToken, VcJwt

LEMMA EnvelopeFields ==
    ASSUME NEW c, IsEnvelope(c)
    PROVE  /\ c.form = "envelope" /\ IsToken(c.jwt)
           /\ c.doc.issuer = asked.issuer
           /\ c.doc.from = asked.from /\ c.doc.until = asked.until
           /\ c.doc.status = StatusAt(asked) /\ c.doc.claims = asked.claims
           /\ "form" \in DOMAIN c
  BY DocumentFields DEF IsEnvelope, IsToken

LEMMA SdJwtFields ==
    ASSUME NEW c, IsSdJwt(c)
    PROVE  /\ c.form = "sd-jwt" /\ c.iss = asked.issuer
           /\ c.nbf = Floor(asked.from) /\ c.exp = Floor(asked.until)
           /\ c.term = asked.term
           /\ c.plain = asked.claims \ asked.sealed
           /\ c.digests = asked.claims \cap asked.sealed
           /\ c.disclosed \subseteq c.digests
  BY DocumentFields DEF IsSdJwt, SdJwt

LEMMA ExportFields ==
    ASSUME NEW c, Exported(c)
    PROVE  c.form = "export" /\ "form" \in DOMAIN c
  BY DEF Exported

\* What the issuer signs, and what becomes of a form, is traced.
LEMMA SignedIsGenuine ==
    ASSUME asked \in Requests
    PROVE  Genuine(Sign(asked))
  <1>1. asked.format \in ProofFormats
    BY RequestAssumption DEF RequestShapes
  <1>2. CASE asked.format \in {"data-integrity", "jws-2020"}
    BY <1>2 DEF Sign, Genuine, IsProof, Document
  <1>3. CASE asked.format = "vc-jwt"
    BY <1>3 DEF Sign, Genuine, IsEnvelope, Document
  <1>4. CASE asked.format = "sd-jwt-vc"
    <2>1. Sign(asked) = SdJwt(Document, asked.sealed)
      BY <1>4 DEF Sign, Document
    <2>2. SdJwt(Document, asked.sealed) =
            [SdJwt(Document, asked.sealed) EXCEPT !.disclosed = asked.claims \cap asked.sealed]
      BY DocumentFields DEF SdJwt
    <2> QED BY <2>1, <2>2 DEF Genuine, IsSdJwt
  <1> QED BY <1>1, <1>2, <1>3, <1>4 DEF ProofFormats

LEMMA FormsChange ==
    ASSUME NEW c, Genuine(c) \/ Exported(c)
    PROVE  /\ c.form = "envelope" => Genuine(c.jwt)
           /\ c.form = "sd-jwt" =>
                \A d \in c.disclosed : Genuine([c EXCEPT !.disclosed = @ \ {d}])
           /\ Exported([form |-> "export", credential |-> c])
           /\ c.form # "export" => Genuine(c)
  <1>1. c.form = "envelope" => Genuine(c.jwt)
    BY ProofFields, TokenFields, EnvelopeFields, SdJwtFields, ExportFields DEF Genuine
  <1>2. ASSUME c.form = "sd-jwt", NEW d \in c.disclosed
        PROVE  Genuine([c EXCEPT !.disclosed = @ \ {d}])
    <2>1. IsSdJwt(c)
      BY <1>2, ProofFields, TokenFields, EnvelopeFields, ExportFields DEF Genuine
    <2>2. PICK left \in SUBSET (asked.claims \cap asked.sealed) :
            c = [SdJwt(Document, asked.sealed) EXCEPT !.disclosed = left]
      BY <2>1 DEF IsSdJwt
    <2>3. [c EXCEPT !.disclosed = @ \ {d}] =
            [SdJwt(Document, asked.sealed) EXCEPT !.disclosed = left \ {d}]
      BY <2>2 DEF SdJwt
    <2>4. left \ {d} \in SUBSET (asked.claims \cap asked.sealed)
      OBVIOUS
    <2> QED BY <2>3, <2>4 DEF Genuine, IsSdJwt
  <1>3. Exported([form |-> "export", credential |-> c])
    BY DEF Exported
  <1> QED BY <1>1, <1>2, <1>3, ExportFields

LEMMA InitTraced == IssuanceInit => Traced
  BY DEF IssuanceInit, Traced

LEMMA StepTraced ==
    ASSUME Traced, [IssuanceNext]_issuanceVars
    PROVE  Traced'
  <1>0. asked' = asked
    BY DEF IssuanceNext, issuanceVars, Issue, TimePasses, Unwrap,
       Redact, Export, Certify, Scan, Revoke,
       Become
  <1>1. \A c : /\ Genuine(c)' <=> Genuine(c)
               /\ Exported(c)' <=> Exported(c)
    BY <1>0 DEF Genuine, IsProof, IsToken, IsEnvelope, IsSdJwt, Document, Exported
  <1> DEFINE Form(c) == Genuine(c) \/ Exported(c)
             Entered(e) == Form(e[2]) /\ e[2].form \in Objects
             Recorded(e) == <<e[1], HashOf(e[2])>>
  <1>2. SUFFICES /\ now' \in Nat
                 /\ \A c \in issued' \cup hand' : Form(c)
                 /\ \A p \in paper' : Genuine(p.carried) /\ p = Certificate(p.carried)
                 /\ \A e \in revoked' : Entered(e)
                 /\ live' = {Recorded(e) : e \in revoked'}
    BY <1>0, <1>1 DEF Traced
  <1>3. /\ asked \in Requests /\ now \in Nat
        /\ \A c \in issued \cup hand : Form(c)
        /\ \A p \in paper : Genuine(p.carried) /\ p = Certificate(p.carried)
        /\ \A e \in revoked : Entered(e)
        /\ live = {Recorded(e) : e \in revoked}
    BY DEF Traced
  <1>4. CASE Issue
    <2>1. Form(Sign(asked))
      BY <1>3, SignedIsGenuine
    <2>2. /\ issued' \subseteq issued \cup {Sign(asked)}
          /\ hand' \subseteq hand \cup {Sign(asked)}
          /\ UNCHANGED <<paper, now, live, revoked>>
      BY <1>4 DEF Issue
    <2> HIDE DEF Form, Entered, Recorded
    <2> QED BY <1>3, <2>1, <2>2
  <1>5. CASE TimePasses
    <2>1. now' \in Nat /\ UNCHANGED <<issued, hand, paper, live, revoked>>
      BY <1>3, <1>5 DEF TimePasses
    <2> HIDE DEF Form, Entered, Recorded
    <2> QED BY <1>3, <2>1
  <1>6. ASSUME NEW c, Become(c), Form(c)
        PROVE  /\ \A x \in issued' \cup hand' : Form(x)
               /\ UNCHANGED <<paper, now, live, revoked>>
    <2>1. hand' = {c} /\ UNCHANGED <<issued, paper, now, live, revoked>>
      BY <1>6 DEF Become
    <2> HIDE DEF Form
    <2> QED BY <1>3, <1>6, <2>1
  <1>7. CASE Unwrap \/ Redact \/ Export \/ Scan
    <2>1. PICK c : Become(c) /\ Form(c)
      <3>1. CASE Unwrap
        <4> PICK h \in hand : h.form = "envelope" /\ Become(h.jwt)
          BY <3>1 DEF Unwrap
        <4> QED BY <1>3, FormsChange
      <3>2. CASE Redact
        <4>1. PICK h \in hand : /\ h.form = "sd-jwt"
                                /\ \E d \in h.disclosed :
                                      Become([h EXCEPT !.disclosed = @ \ {d}])
          BY <3>2 DEF Redact
        <4>2. PICK d \in h.disclosed : Become([h EXCEPT !.disclosed = @ \ {d}])
          BY <4>1
        <4>3. Genuine([h EXCEPT !.disclosed = @ \ {d}])
          BY <1>3, <4>1, FormsChange
        <4> QED BY <4>2, <4>3
      <3>3. CASE Export
        <4>1. PICK h \in hand : Become([form |-> "export", credential |-> h])
          BY <3>3 DEF Export
        <4>2. Exported([form |-> "export", credential |-> h])
          BY DEF Exported
        <4> QED BY <4>1, <4>2
      <3>4. CASE Scan
        <4>1. PICK p \in paper : Become(p.carried)
          BY <3>4 DEF Scan
        <4> QED BY <1>3, <4>1
      <3> QED BY <1>7, <3>1, <3>2, <3>3, <3>4
    <2> HIDE DEF Form, Entered, Recorded
    <2> QED BY <1>3, <1>6, <2>1
  <1>8. CASE Certify
    <2>1. PICK h \in hand : h.form # "export" /\ paper' = {Certificate(h)}
      BY <1>8 DEF Certify
    <2>2. UNCHANGED <<issued, hand, now, live, revoked>>
      BY <1>8 DEF Certify
    <2>3. Genuine(h) /\ Certificate(h).carried = h
      BY <1>3, <2>1, FormsChange DEF Certificate
    <2> HIDE DEF Form, Entered, Recorded
    <2> QED BY <1>3, <2>1, <2>2, <2>3
  <1>9. CASE Revoke
    <2>1. PICK c \in issued \cup hand, space \in {"home", "away"} :
             /\ c.form \in Objects
             /\ live' = live \cup {<<space, HashOf(c)>>}
             /\ revoked' = revoked \cup {<<space, c>>}
             /\ UNCHANGED <<issued, hand, paper, now>>
      BY <1>9 DEF Revoke
    <2>2. Entered(<<space, c>>) /\ Recorded(<<space, c>>) = <<space, HashOf(c)>>
      BY <1>3, <2>1
    <2> HIDE DEF Form, Entered, Recorded
    <2>3. live' = {Recorded(e) : e \in revoked'}
      BY <1>3, <2>1, <2>2
    <2> QED BY <1>3, <2>1, <2>2, <2>3
  <1>10. CASE UNCHANGED issuanceVars
    <2>1. UNCHANGED <<issued, hand, paper, now, live, revoked>>
      BY <1>10 DEF issuanceVars
    <2> HIDE DEF Form, Entered, Recorded
    <2> QED BY <1>3, <2>1
  <1> QED BY <1>4, <1>5, <1>7, <1>8, <1>9, <1>10 DEF IssuanceNext

LEMMA FormsTraced == IssuanceSpec => []Traced
  BY InitTraced, StepTraced, PTL DEF IssuanceSpec

\* The form the verifier judges: of an envelope its token.
Judged(c) == IF c.form = "envelope" THEN c.jwt ELSE c

\* An envelope always agrees with the token it was signed with, whatever second
\* its dates fall into; so the verdict on it is the one on its token.
LEMMA VerdictOfForm ==
    ASSUME NEW c, Genuine(c)
    PROVE  /\ Verdict(c) = Judgement(Judged(c))
           /\ IsProof(Judged(c)) \/ IsToken(Judged(c)) \/ IsSdJwt(Judged(c))
           /\ Entry(Judged(c)) = Entry(c)
           /\ c.form # "envelope" => Judged(c) = c
  <1>1. CASE IsEnvelope(c)
    <2>1. Consistent(c.doc, c.jwt)
      BY <1>1, EnvelopeFields, TokenFields DEF Consistent
    <2>2. Entry(c.jwt) = Entry(c)
      BY <1>1, EnvelopeFields, TokenFields DEF Entry
    <2> QED BY <1>1, <2>1, <2>2, EnvelopeFields DEF Judged, Verdict
  <1>2. CASE IsProof(c)
    BY <1>2, ProofFields DEF Judged, Verdict
  <1>3. CASE IsToken(c)
    BY <1>3, TokenFields DEF Judged, Verdict
  <1>4. CASE IsSdJwt(c)
    BY <1>4, SdJwtFields DEF Judged, Verdict
  <1> QED BY <1>1, <1>2, <1>3, <1>4 DEF Genuine

\* The dates of a form that is judged are the request's, in whole seconds or
\* exactly, or the subject's if none was asked for, and its signature holds but
\* for jose's clock.
LEMMA JudgedDates ==
    ASSUME NEW c, IsProof(c) \/ IsToken(c) \/ IsSdJwt(c)
    PROVE  /\ ValidFrom(c) \in {asked.from, Floor(asked.from)}
           /\ \/ ValidUntil(c) \in {asked.until, Floor(asked.until)}
              \/ c.form = "sd-jwt" /\ Floor(asked.until) = 0
           /\ c.form = "sd-jwt" /\ Floor(asked.until) = 0 =>
                ValidUntil(c) = IF Own("validUntil", c) THEN asked.term.until ELSE 0
           /\ c.form # "sd-jwt" => SignatureHolds(c)
           /\ c.form = "sd-jwt" =>
                SignatureHolds(c) <=>
                    /\ Floor(asked.from) <= Floor(now)
                    /\ Floor(asked.until) # 0
                         => Floor(now) < Floor(asked.until)
           /\ KeyFound(c) <=> c.form = "proof" \/ asked.issuer = "own"
  <1> USE DEF ValidFrom, ValidUntil, SignatureHolds,
          KeyFound, JoseAccepts, Own
  <1>1. CASE IsProof(c)
    BY <1>1, ProofFields
  <1>2. CASE IsToken(c)
    BY <1>2, TokenFields
  <1>3. CASE IsSdJwt(c)
    BY <1>3, SdJwtFields
  <1> QED BY <1>1, <1>2, <1>3

\* The request's dates.
LEMMA AskedDates ==
    ASSUME Traced
    PROVE  /\ asked.from \in Nat /\ asked.until \in Nat /\ asked.until # 1 /\ now \in Nat
           /\ asked.term.from \in Nat /\ asked.term.until \in Nat \ {0}
  BY RequestAssumption DEF Traced, RequestShapes

\* What a form in circulation is.
LEMMA Circulating ==
    ASSUME Traced, NEW c \in Forms
    PROVE  Genuine(c) \/ (Exported(c) /\ Verdict(c) = "ERROR")
  BY ExportFields DEF Traced, Forms, Verdict

\* TermOver is about the form that is judged: an envelope, a proof and a token
\* have no term.
LEMMA TermOfForm ==
    ASSUME NEW c, Genuine(c)
    PROVE  TermOver(c) <=> TermOver(Judged(c))
  BY ProofFields, TokenFields, EnvelopeFields, SdJwtFields DEF Genuine, Judged, TermOver, Own

LEMMA VerdictIsTrue ==
    ASSUME Traced, NEW c, Genuine(c)
    PROVE  /\ Verdict(c) = "VALID" =>
                /\ Floor(asked.from) <= now
                /\ asked.until # 0 => now <= asked.until
                /\ ~TermOver(c)
           /\ /\ Attributed(c) /\ live = {}
              /\ asked.from <= now
              /\ asked.until # 0 => now < Floor(asked.until)
              => Verdict(c) = IF TermOver(c) THEN "EXPIRED" ELSE "VALID"
           /\ Verdict(c) = "EXPIRED" =>
                (asked.until # 0 /\ Floor(asked.until) < now) \/ TermOver(c)
  <1> DEFINE f == Judged(c)
  <1>1. /\ Verdict(c) = Judgement(f)
        /\ IsProof(f) \/ IsToken(f) \/ IsSdJwt(f)
        /\ TermOver(c) <=> TermOver(f)
    BY VerdictOfForm, TermOfForm
  <1>2. /\ asked.from \in Nat /\ asked.until \in Nat /\ asked.until # 1 /\ now \in Nat
        /\ asked.term.until \in Nat \ {0}
        /\ Floor(asked.from) <= asked.from /\ Floor(asked.until) <= asked.until
        /\ Floor(asked.from) \in Nat /\ Floor(asked.until) \in Nat
        /\ Floor(asked.until) = 0 <=> asked.until = 0
        /\ Floor(now) \in Nat /\ Floor(now) <= now
        /\ asked.from <= now => Floor(asked.from) <= Floor(now)
    BY AskedDates, FloorRounds
  <1>3. /\ ValidFrom(f) \in {asked.from, Floor(asked.from)}
        /\ f.form # "sd-jwt" => SignatureHolds(f)
        /\ f.form = "sd-jwt" =>
             SignatureHolds(f) <=>
                 /\ Floor(asked.from) <= Floor(now)
                 /\ Floor(asked.until) # 0
                      => Floor(now) < Floor(asked.until)
        /\ KeyFound(f) <=> f.form = "proof" \/ asked.issuer = "own"
    BY <1>1, JudgedDates
  <1>4. /\ \/ ValidUntil(f) \in {asked.until, Floor(asked.until)}
           \/ f.form = "sd-jwt" /\ asked.until = 0
        /\ f.form = "sd-jwt" /\ asked.until = 0 =>
             ValidUntil(f) = IF Own("validUntil", f) THEN asked.term.until ELSE 0
    BY <1>1, <1>2, JudgedDates
  <1>5. Attributed(c) => KeyFound(f)
    BY <1>3, ProofFields, TokenFields, EnvelopeFields, SdJwtFields
       DEF Genuine, Judged, Attributed
  <1> HIDE DEF f
  \* The end the verifier compares has passed only if the term asked for has,
  \* or the subject's has.
  <1>6. /\ ValidUntil(f) \in Nat
        /\ ValidUntil(f) # 0 /\ now > ValidUntil(f) =>
             (asked.until # 0 /\ Floor(asked.until) < now) \/ TermOver(f)
        /\ TermOver(f) => ValidUntil(f) # 0 /\ now > ValidUntil(f)
        /\ ~(ValidUntil(f) # 0 /\ now > ValidUntil(f)) /\ asked.until # 0 =>
             now <= asked.until
    <2>1. CASE f.form = "sd-jwt" /\ asked.until = 0
      BY <1>2, <1>4, <2>1 DEF TermOver
    <2>2. CASE ~(f.form = "sd-jwt" /\ asked.until = 0)
      <3>1. ValidUntil(f) \in {asked.until, Floor(asked.until)} /\ ~TermOver(f)
        BY <1>4, <2>2 DEF TermOver, Own
      <3> QED BY <1>2, <3>1
    <2> QED BY <2>1, <2>2
  <1>7. Judgement(f) = "VALID" =>
          /\ Floor(asked.from) <= now
          /\ asked.until # 0 => now <= asked.until
          /\ ~TermOver(f)
    <2> SUFFICES ASSUME Judgement(f) = "VALID"
                 PROVE  /\ Floor(asked.from) <= now
                        /\ asked.until # 0 => now <= asked.until
                        /\ ~TermOver(f)
      OBVIOUS
    <2>1. ~(now < ValidFrom(f)) /\ ~(ValidUntil(f) # 0 /\ now > ValidUntil(f))
      BY DEF Judgement
    <2>2. Floor(asked.from) <= now
      BY <1>2, <1>3, <2>1
    <2> QED BY <1>6, <2>1, <2>2
  <1>8. ASSUME Attributed(c), live = {}, asked.from <= now,
               asked.until # 0 => now < Floor(asked.until)
        PROVE  Judgement(f) = IF TermOver(f) THEN "EXPIRED" ELSE "VALID"
    <2>1. SignatureHolds(f) /\ KeyFound(f)
      BY <1>2, <1>3, <1>5, <1>8
    <2>2. ~(now < ValidFrom(f))
      BY <1>2, <1>3, <1>8
    <2>3. ValidUntil(f) # 0 /\ now > ValidUntil(f) <=> TermOver(f)
      BY <1>2, <1>6, <1>8
    <2>4. <<"home", HashOf(f)>> \notin live
      BY <1>8
    <2> QED BY <2>1, <2>2, <2>3, <2>4 DEF Judgement
  <1>9. Judgement(f) = "EXPIRED" =>
          (asked.until # 0 /\ Floor(asked.until) < now) \/ TermOver(f)
    BY <1>6 DEF Judgement
  <1> QED BY <1>1, <1>7, <1>8, <1>9

\* Whatever the format and whatever form it took on the way, a credential
\* verifies within the dates it was asked for and not outside them, to the
\* second its token rounds down to; where no end was asked for, until the one
\* its subject discloses in an SD-JWT VC (vc-jwt-signing.ts, vc-jwt.ts,
\* sd-jwt-vc.ts, checks.ts).
THEOREM VerdictsTrueHolds == IssuanceSpec => []VerdictsTrue
  <1>1. Traced => VerdictsTrue
    <2> SUFFICES ASSUME Traced, NEW c \in Forms
                 PROVE  /\ Verdict(c) = "VALID" =>
                             /\ Floor(asked.from) <= now
                             /\ asked.until # 0 => now <= asked.until
                             /\ ~TermOver(c)
                        /\ /\ Attributed(c) /\ live = {}
                           /\ asked.from <= now
                           /\ asked.until # 0 => now < Floor(asked.until)
                           => Verdict(c) = IF TermOver(c) THEN "EXPIRED" ELSE "VALID"
                        /\ Verdict(c) = "EXPIRED" =>
                             (asked.until # 0 /\ Floor(asked.until) < now) \/ TermOver(c)
      BY DEF VerdictsTrue
    <2>1. CASE Genuine(c)
      BY <2>1, VerdictIsTrue
    <2>2. CASE Exported(c) /\ Verdict(c) = "ERROR"
      BY <2>2, ExportFields DEF Attributed
    <2> QED BY <2>1, <2>2, Circulating
  <1> QED BY <1>1, FormsTraced, PTL

\* The hash is the committed one exactly for the forms with a status entry.
LEMMA HashTells ==
    ASSUME NEW c, NEW d, HashOf(c) = HashOf(d)
    PROVE  /\ Entry(c) # "none" <=> Entry(d) # "none"
           /\ Entry(c) = "none" => Hashed(c) = Hashed(d)
  BY DEF HashOf

\* An object hashed as a whole is no token's claims.
LEMMA HashedApart ==
    ASSUME NEW c, NEW d, IsProof(c) \/ IsToken(c) \/ IsSdJwt(c),
           Genuine(d) \/ Exported(d), d.form \in Objects,
           Hashed(c) = Hashed(d)
    PROVE  c = d
  <1>1. Hashed(d) = d /\ "form" \in DOMAIN d
    <2>1. Hashed(d) = d
      BY DEF Hashed, Objects
    <2>2. IsProof(d) \/ IsEnvelope(d) \/ Exported(d)
      BY TokenFields, SdJwtFields DEF Genuine, Objects
    <2> QED BY <2>1, <2>2, ProofFields, EnvelopeFields, ExportFields
  <1>2. CASE IsProof(c)
    BY <1>1, <1>2, ProofFields DEF Hashed
  <1>3. CASE IsToken(c)
    <2>1. Hashed(c) = [status |-> StatusAt(asked), claims |-> asked.claims]
      BY <1>3, TokenFields DEF Hashed
    <2>2. "form" \notin DOMAIN Hashed(c)
      BY <2>1
    <2> QED BY <1>1, <2>2
  <1>4. CASE IsSdJwt(c)
    <2>1. Hashed(c) = [iss |-> c.iss, nbf |-> c.nbf, exp |-> c.exp,
                               all |-> Resolved(c)]
      BY <1>4, SdJwtFields DEF Hashed
    <2>2. "form" \notin DOMAIN Hashed(c)
      BY <2>1
    <2> QED BY <1>1, <2>2
  <1> QED BY <1>2, <1>3, <1>4

\* Revoking any form that carries the status entry reaches every form that
\* carries it, and a form is called revoked only when it, or one with its
\* entry, was revoked in the verifier's namespace (jcs.ts, computed apart by
\* the routes that issue, revoke and verify).
THEOREM RevocationReachesHolds == IssuanceSpec => []RevocationReaches
  <1>1. Traced => RevocationReaches
    <2> SUFFICES ASSUME Traced, NEW c \in Forms
                 PROVE  /\ /\ Entry(c) # "none"
                           /\ \E e \in revoked : e[1] = "home" /\ Entry(e[2]) # "none"
                           => Verdict(c) # "VALID"
                        /\ Verdict(c) = "REVOKED" =>
                             \E e \in revoked :
                                /\ e[1] = "home"
                                /\ \/ e[2] = c
                                   \/ Entry(e[2]) # "none" /\ Entry(c) # "none"
      BY DEF RevocationReaches
    <2>1. CASE Exported(c) /\ Verdict(c) = "ERROR"
      BY <2>1
    <2>2. CASE Genuine(c)
      <3> DEFINE f == Judged(c)
      <3>1. /\ Verdict(c) = Judgement(f)
            /\ IsProof(f) \/ IsToken(f) \/ IsSdJwt(f)
            /\ Entry(f) = Entry(c)
            /\ c.form # "envelope" => f = c
        BY <2>2, VerdictOfForm
      <3> HIDE DEF f
      <3>2. ASSUME Entry(c) # "none",
                   NEW e \in revoked, e[1] = "home", Entry(e[2]) # "none"
            PROVE  Judgement(f) # "VALID"
        <4>1. HashOf(e[2]) = HashOf(f)
          BY <3>1, <3>2 DEF HashOf
        <4>2. <<"home", HashOf(f)>> \in live
          BY <3>2, <4>1 DEF Traced
        <4> QED BY <4>2 DEF Judgement
      <3>3. ASSUME Judgement(f) = "REVOKED"
            PROVE  \E e \in revoked :
                      /\ e[1] = "home"
                      /\ \/ e[2] = c
                         \/ Entry(e[2]) # "none" /\ Entry(c) # "none"
        <4>1. <<"home", HashOf(f)>> \in live
          BY <3>3 DEF Judgement
        <4>2. PICK e \in revoked : <<"home", HashOf(f)>> = <<e[1], HashOf(e[2])>>
          BY <4>1 DEF Traced
        <4>3. e[1] = "home" /\ HashOf(f) = HashOf(e[2])
          BY <4>2
        <4>4. CASE Entry(f) # "none"
          BY <3>1, <4>3, <4>4, HashTells
        <4>5. CASE Entry(f) = "none"
          <5>1. Hashed(f) = Hashed(e[2])
            BY <4>3, <4>5, HashTells
          <5>2. /\ Genuine(e[2]) \/ Exported(e[2])
                /\ e[2].form \in Objects
            BY DEF Traced
          <5>3. f = e[2]
            BY <3>1, <5>1, <5>2, HashedApart
          <5>4. IsProof(f)
            BY <3>1, <5>2, <5>3, TokenFields, SdJwtFields DEF Objects
          <5>5. f = c
            <6>1. f.form = "proof"
              BY <5>4, ProofFields
            <6>2. c.form = "envelope" => f.form = "token"
              BY <2>2, ProofFields, TokenFields, EnvelopeFields, SdJwtFields
                 DEF f, Judged, Genuine
            <6> QED BY <3>1, <6>1, <6>2
          <5> QED BY <4>3, <5>3, <5>5
        <4> QED BY <4>4, <4>5
      <3> QED BY <3>1, <3>2, <3>3
    <2> QED BY <2>1, <2>2, Circulating
  <1> QED BY <1>1, FormsTraced, PTL

\* The dates on a certificate: an SD-JWT VC's subject's own where it proves
\* them, and those the verifier reads otherwise.
LEMMA PrintedDates ==
    ASSUME NEW c, Genuine(c)
    PROVE  /\ Printed(c).from = IF Own("validFrom", c) THEN asked.term.from ELSE ValidFrom(c)
           /\ ~Own("validUntil", c) => Printed(c).until = ValidUntil(c)
           /\ Own("validUntil", c) => Printed(c).until = asked.term.until
  <1>1. CASE IsSdJwt(c)
    <2>1. Resolved(c) = Merged(c)
      BY <1>1, SdJwtFields DEF Resolved, Merged
    <2> QED BY <1>1, <2>1, SdJwtFields DEF Printed, Own, ValidFrom, ValidUntil
  <1>2. CASE IsProof(c) \/ IsToken(c) \/ IsEnvelope(c)
    BY <1>2, ProofFields, TokenFields, EnvelopeFields DEF Printed, Own
  <1> QED BY <1>1, <1>2 DEF Genuine

\* What a certificate shows is what the credential in it proves; and its dates
\* hold whenever that verifies, or are the subject's own, proved with the rest
\* (decode-for-display.ts and sd-jwt-vc.ts, two readings of one token).
THEOREM ShownIsProvedHolds == IssuanceSpec => []ShownIsProved
  <1>1. Traced => ShownIsProved
    <2> SUFFICES ASSUME Traced, NEW p \in paper, NEW c, c = p.carried
                 PROVE  /\ c.form = "sd-jwt" => p.claims = Resolved(c) \ Reserved
                        /\ c.form # "sd-jwt" => p.claims = asked.claims
                        /\ Own("validFrom", c) => p.from = asked.term.from
                        /\ Own("validUntil", c) => p.until = asked.term.until
                        /\ Verdict(c) = "VALID" =>
                             /\ Floor(p.from) <= now \/ Own("validFrom", c)
                             /\ \/ p.until = 0 \/ now <= p.until
                                \/ Own("validUntil", c) /\ asked.until # 0
      BY DEF ShownIsProved
    <2>1. Genuine(c) /\ p = Certificate(c)
      BY DEF Traced
    <2>2. /\ p.claims = Shown(c)
          /\ p.from = IF Own("validFrom", c) THEN asked.term.from ELSE ValidFrom(c)
          /\ ~Own("validUntil", c) => p.until = ValidUntil(c)
          /\ Own("validUntil", c) => p.until = asked.term.until
      BY <2>1, PrintedDates DEF Certificate
    <2>3. ASSUME Verdict(c) = "VALID"
          PROVE  /\ Floor(p.from) <= now \/ Own("validFrom", c)
                 /\ \/ p.until = 0 \/ now <= p.until
                    \/ Own("validUntil", c) /\ asked.until # 0
      <3>1. /\ Floor(asked.from) <= now
            /\ asked.until # 0 => now <= asked.until
            /\ ~TermOver(c)
        BY <2>1, <2>3, VerdictIsTrue
      <3>2. /\ asked.from \in Nat /\ asked.until \in Nat /\ now \in Nat
            /\ asked.term.until \in Nat
            /\ Floor(asked.from) \in Nat /\ Floor(asked.until) \in Nat
        BY AskedDates, FloorRounds
      <3>3. Floor(Floor(asked.from)) <= Floor(asked.from)
            /\ Floor(Floor(asked.from)) \in Nat
        BY <3>2, FloorRounds
      <3>4. CASE IsEnvelope(c)
        <4>1. p.from = asked.from /\ p.until = asked.until
          BY <2>2, <3>4, EnvelopeFields DEF ValidFrom, ValidUntil, Own
        <4> QED BY <3>1, <4>1
      <3>5. CASE IsProof(c) \/ IsToken(c) \/ IsSdJwt(c)
        <4>1. ValidFrom(c) \in {asked.from, Floor(asked.from)}
          BY <3>5, JudgedDates
        <4>2. Floor(ValidFrom(c)) <= now
          BY <3>1, <3>2, <3>3, <4>1
        <4>3. Judgement(c) = "VALID"
          BY <2>1, <2>3, <3>5, VerdictOfForm, ProofFields, TokenFields, SdJwtFields
        <4>4. CASE ~Own("validUntil", c)
          <5>1. ValidUntil(c) \in Nat
            BY <3>2, <3>5, <4>4, JudgedDates
          <5>2. ~(ValidUntil(c) # 0 /\ now > ValidUntil(c))
            BY <4>3 DEF Judgement
          <5> QED BY <2>2, <3>2, <4>2, <4>4, <5>1, <5>2
        <4>5. CASE Own("validUntil", c)
          BY <2>2, <3>1, <3>2, <4>2, <4>5 DEF TermOver
        <4> QED BY <4>4, <4>5
      <3> QED BY <2>1, <3>4, <3>5 DEF Genuine
    <2>4. CASE IsSdJwt(c)
      <3>1. p.claims = Resolved(c) \ Reserved /\ c.form = "sd-jwt"
        BY <2>2, <2>4, SdJwtFields DEF Shown, Resolved, Merged
      <3> QED BY <3>1, <2>2, <2>3
    <2>5. CASE IsProof(c) \/ IsToken(c) \/ IsEnvelope(c)
      <3>1. p.claims = asked.claims /\ c.form # "sd-jwt"
        BY <2>2, <2>5, ProofFields, TokenFields, EnvelopeFields DEF Shown
      <3> QED BY <3>1, <2>2, <2>3
    <2> QED BY <2>1, <2>4, <2>5 DEF Genuine
  <1> QED BY <1>1, FormsTraced, PTL
=============================================================================

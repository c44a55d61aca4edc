-------------------------- MODULE RandomAccessProofs --------------------------
(***************************************************************************)
(* No two UEs have the same C-RNTI, for any numbers of UEs, preambles and   *)
(* RNTIs and any windows and delays: a RNTI is in one place at a time on    *)
(* its way from the RARs to be sent to the Msg3 it was granted for, so it   *)
(* is answered once, and the UE named there is the only one to keep it.     *)
(* No UE waits for the end of a contention that nobody will end.  No RAR is *)
(* kept past its window, if those windows whose end the scheduler does not  *)
(* see have a TTI with room.  And then the RAR a UE hears answers the last   *)
(* preamble it sent, if the windows of two PRACHs do not overlap.           *)
(***************************************************************************)
EXTENDS RandomAccess, SequenceTheorems, WellFoundedInduction, TLAPS

(* A non-empty set of natural numbers has a least element. *)
LEMMA LeastOfNaturals ==
    ASSUME NEW B \in SUBSET Nat, B # {}
    PROVE  \E b \in B : \A c \in B : b <= c
  <1> DEFINE R == {p \in Nat \X Nat : p[1] < p[2]}
  <1>1. IsWellFoundedOn(R, Nat)
    BY NatLessThanWellFounded DEF OpToRel, IsWellFoundedOn
  <1>2. \E b \in B : \A c \in B : ~(<<c, b>> \in R)
    <2> HIDE DEF R
    <2> QED
      BY <1>1, WFMin
  <1>3. PICK b \in B : \A c \in B : ~(<<c, b>> \in R)
    BY <1>2
  <1>4. \A c \in B : b <= c
    <2> TAKE c \in B
    <2>1. ~(c < b)
      BY <1>3
    <2> QED
      BY <2>1
  <1> QED
    BY <1>4

(* Counters and TTIs; the name is expanded where they are computed with only. *)
Numbers == Int

RaType == [state : RaStates, preamble : Preambles \cup {0}, tries : Numbers, ra_tti : Numbers,
           temp_rnti : Rnti \cup {0}, crnti : Rnti \cup {0}, transmitted_crnti : Rnti \cup {0},
           msg3 : {"flushed", "pending", "transmitted"}, stored : BOOLEAN,
           timer : BOOLEAN, expiring : BOOLEAN]
Grants == [prach_tti : Numbers, grants : SUBSET Rnti]

RaTypeOK ==
    /\ tti \in Numbers
    /\ ra \in [Ue -> RaType]
    /\ decoding \in [Ue -> SUBSET [tti : Numbers, grants : SUBSET Rnti]]
    /\ rar_grant \in [Ue -> Rnti \cup {0}]
    /\ prach \subseteq [tti : Numbers, preamble : Preambles \cup {0}, by : SUBSET Ue]
    /\ user \in [Rnti -> {"unused", "msg3_rx", "connected", "removed"}]
    /\ conres_id \in [Rnti -> Ue \cup {NoUe}]
    /\ msg3 \in [Rnti -> SUBSET Ue]
    /\ pending_rars \in Seq(Grants) /\ rar_allocs \subseteq Grants

(* A UE that sends Msg3 says in it whether it has a C-RNTI. *)
SaysCRnti(s) ==
    s.state = "CONTENTION_RESOLUTION" \/ s.stored = TRUE \/ s.msg3 # "flushed" => s.transmitted_crnti = s.crnti

(* ra_proc of u, with a C-RNTI only if it is the one named with it. *)
Sound(u, s, id) == s \in RaType /\ SaysCRnti(s) /\ (s.crnti # 0 => id[s.crnti] = u)

(* The grant of r was sent: it is on the air, or a UE has it, or has used it. *)
Given(r) == (\E rar \in rar_allocs : r \in rar.grants) \/ (\E u \in Ue : HoldsGrant(u, r)) \/ msg3[r] # {}

PendingApart ==
    \A i \in DOMAIN pending_rars : \A r \in pending_rars[i].grants :
        /\ ~Given(r) /\ conres_id[r] = NoUe /\ user[r] # "unused"
        /\ \A j \in DOMAIN pending_rars : r \in pending_rars[j].grants => i = j
AnsweredOnce == \A r \in Rnti : conres_id[r] # NoUe => ~Given(r)
UnusedNowhere == \A r \in Rnti : user[r] = "unused" => ~Given(r) /\ conres_id[r] = NoUe

Apart == PendingApart /\ AnsweredOnce /\ UnusedNowhere
RaInv == RaTypeOK /\ Apart /\ \A u \in Ue : Sound(u, ra[u], conres_id)

-----------------------------------------------------------------------------
(* What the procedure does to a UE. *)

LEMMA NumbersClosed ==
    0 \in Numbers /\ 1 \in Numbers /\ Pending \in Numbers /\ \A n \in Numbers : n + 1 \in Numbers
  BY DEF Numbers, Pending

LEMMA TransmissionSound ==
    ASSUME NEW u, NEW id, NEW s, Sound(u, s, id), NEW p \in Preambles
    PROVE  Sound(u, PreambleTransmission(s, p), id)
  BY NumbersClosed DEF Sound, RaType, SaysCRnti, PreambleTransmission, RaStates

LEMMA ResponseErrorSound ==
    ASSUME NEW u, NEW id, NEW s, Sound(u, s, id), NEW p \in Preambles
    PROVE  Sound(u, ResponseError(s, p), id)
  <1> DEFINE t == [s EXCEPT !.temp_rnti = 0, !.tries = @ + 1, !.timer = FALSE]
  <1>1. Sound(u, t, id)
    BY NumbersClosed DEF Sound, RaType, SaysCRnti
  <1>2. Sound(u, [t EXCEPT !.state = "IDLE", !.ra_tti = IF @ = Pending THEN @ ELSE 0], id)
    <2> HIDE DEF t
    <2> DEFINE e == [t EXCEPT !.state = "IDLE", !.ra_tti = IF @ = Pending THEN @ ELSE 0]
    <2>1. t \in RaType /\ "IDLE" \in RaStates /\ 0 \in Numbers
      BY <1>1, NumbersClosed DEF Sound, RaStates
    <2>2. e \in RaType
      BY <2>1 DEF RaType
    <2>3. /\ e.state = "IDLE" /\ e.stored = t.stored /\ e.msg3 = t.msg3 /\ e.crnti = t.crnti
          /\ e.transmitted_crnti = t.transmitted_crnti
      BY <2>1 DEF RaType
    <2> HIDE DEF e
    <2>4. Sound(u, e, id)
      BY <1>1, <2>2, <2>3 DEF Sound, SaysCRnti
    <2> QED
      BY <2>4 DEF e
  <1>3. Sound(u, PreambleTransmission(t, p), id)
    <2> HIDE DEF t
    <2> QED
      BY <1>1, TransmissionSound
  <1> QED
    BY <1>2, <1>3 DEF ResponseError

LEMMA StartSound ==
    ASSUME NEW u, NEW id, NEW s, Sound(u, s, id), s.state = "IDLE", NEW p \in Preambles
    PROVE  Sound(u, StartMacOrder(s, p), id)
  <1>1. Sound(u, [s EXCEPT !.tries = 1, !.msg3 = "flushed", !.stored = FALSE], id)
    BY NumbersClosed DEF Sound, RaType, SaysCRnti
  <1> QED
    BY <1>1, TransmissionSound DEF StartMacOrder

LEMMA TimerSound ==
    ASSUME NEW u, NEW id, NEW s, Sound(u, s, id)
    PROVE  /\ Sound(u, TimerMarked(s), id) /\ Sound(u, HarqRetxTimer(s), id)
           /\ \A p \in Preambles : Sound(u, TimerExpired(s, p), id)
  <1>1. /\ Sound(u, [s EXCEPT !.expiring = FALSE], id)
        /\ Sound(u, TimerMarked(s), id) /\ Sound(u, HarqRetxTimer(s), id)
    BY NumbersClosed DEF Sound, RaType, SaysCRnti, TimerMarked, HarqRetxTimer
  <1> QED
    BY <1>1, ResponseErrorSound DEF TimerExpired

LEMMA ResetSound ==
    ASSUME NEW u, NEW id, NEW s, Sound(u, s, id)
    PROVE  Sound(u, MacReset(s), id)
  BY NumbersClosed DEF Sound, RaType, SaysCRnti, MacReset, RaStates

LEMMA StepSound ==
    ASSUME NEW u, NEW id, NEW s, Sound(u, s, id), NEW t, NEW p \in Preambles
    PROVE  Sound(u, RaStep(s, t, p), id)
  <1>1. /\ Sound(u, [s EXCEPT !.state = "RESPONSE_RECEPTION"], id)
        /\ Sound(u, [s EXCEPT !.state = "IDLE"], id)
    BY NumbersClosed DEF Sound, RaType, SaysCRnti, RaStates
  <1>2. Sound(u, StateContentionResolution(s), id)
    <2>1. Sound(u, [s EXCEPT !.timer = TRUE], id)
      BY NumbersClosed DEF Sound, RaType, SaysCRnti
    <2> QED
      BY <2>1 DEF StateContentionResolution
  <1>3. Sound(u, ResponseError(s, p), id)
    BY ResponseErrorSound
  <1> QED
    BY <1>1, <1>2, <1>3, Zenon DEF RaStep

(* The C-RNTI said in a stored Msg3 is the one the UE still has. *)
LEMMA TakeRarSound ==
    ASSUME NEW u, NEW id, NEW s, Sound(u, s, id), NEW r \in Rnti
    PROVE  Sound(u, TakeRar(s, r), id)
  BY NumbersClosed DEF Sound, RaType, SaysCRnti, TakeRar, RaStates

LEMMA Msg3GetSound ==
    ASSUME NEW u, NEW id, NEW s, Sound(u, s, id)
    PROVE  Sound(u, Msg3Get(s), id)
  BY NumbersClosed DEF Sound, RaType, SaysCRnti, Msg3Get

(* Only the UE that is named gets a C-RNTI. *)
LEMMA ContentionSound ==
    ASSUME NEW u, NEW id, NEW s, Sound(u, s, id), NEW p \in Preambles,
           ListensToTempRnti(s)
    PROVE  Sound(u, ContentionResolution(s, id[s.temp_rnti] = u, p), id)
  <1>1. Sound(u, [s EXCEPT !.timer = FALSE], id)
    BY NumbersClosed DEF Sound, RaType, SaysCRnti
  <1>2. CASE id[s.temp_rnti] = u
    <2> DEFINE t == [s EXCEPT !.timer = FALSE]
               e == Complete(t)
    <2>1. t \in RaType /\ t.transmitted_crnti = s.transmitted_crnti /\ t.temp_rnti = s.temp_rnti
          /\ t.crnti = s.crnti /\ (t.crnti # 0 => id[t.crnti] = u) /\ "START_WAIT_COMPLETION" \in RaStates
      BY DEF Sound, RaType, RaStates
    <2> HIDE DEF t
    <2>2. e \in RaType
      BY <2>1 DEF Complete, RaType
    <2>3. /\ e.state = "START_WAIT_COMPLETION" /\ e.stored = FALSE /\ e.msg3 = "flushed"
          /\ e.crnti = IF t.transmitted_crnti = 0 THEN t.temp_rnti ELSE t.crnti
      BY <2>1 DEF Complete, RaType
    <2>4. e.crnti # 0 => id[e.crnti] = u
      BY <1>2, <2>1, <2>3
    <2>5. ContentionResolution(s, id[s.temp_rnti] = u, p) = e
      BY <1>2 DEF ContentionResolution, t
    <2> HIDE DEF e
    <2> QED
      BY <2>2, <2>3, <2>4, <2>5 DEF Sound, SaysCRnti
  <1>3. CASE id[s.temp_rnti] # u
    BY <1>1, <1>3, ResponseErrorSound DEF ContentionResolution
  <1> QED
    BY <1>2, <1>3

LEMMA PdcchSound ==
    ASSUME NEW u, NEW id, NEW s, Sound(u, s, id), s.state = "CONTENTION_RESOLUTION", s.crnti # 0
    PROVE  Sound(u, PdcchToCrnti(s), id)
  BY NumbersClosed DEF Sound, RaType, SaysCRnti, PdcchToCrnti, Complete, RaStates

-----------------------------------------------------------------------------
LEMMA PendingRars ==
    ASSUME RaTypeOK
    PROVE  /\ DOMAIN pending_rars = 1 .. Len(pending_rars) /\ Len(pending_rars) \in Nat
           /\ \A i \in DOMAIN pending_rars :
                 pending_rars[i] \in Grants /\ pending_rars[i].grants \subseteq Rnti
  <1>1. DOMAIN pending_rars = 1 .. Len(pending_rars) /\ Len(pending_rars) \in Nat
    BY DEF RaTypeOK
  <1>2. \A i \in DOMAIN pending_rars : pending_rars[i] \in Grants
    BY <1>1, ElementOfSeq DEF RaTypeOK
  <1> QED
    BY <1>1, <1>2 DEF Grants

(* Grants only move on. *)
LEMMA GrantsMoveOn ==
    ASSUME RaTypeOK, Apart, pending_rars' = pending_rars, conres_id' = conres_id,
           \A r \in Rnti : Given(r)' => Given(r),
           \A r \in Rnti : user'[r] = "unused" <=> user[r] = "unused"
    PROVE  Apart'
  <1>1. \A i \in DOMAIN pending_rars : pending_rars[i].grants \subseteq Rnti
    BY PendingRars
  <1>2. PendingApart'
    BY <1>1 DEF Apart, PendingApart
  <1>3. AnsweredOnce' /\ UnusedNowhere'
    BY DEF Apart, AnsweredOnce, UnusedNowhere
  <1> QED
    BY <1>2, <1>3 DEF Apart

(* One UE's procedure moves, with what its PHY has. *)
LEMMA OneUeActs ==
    ASSUME RaInv, NEW u \in Ue, NEW s, Sound(u, s, conres_id), RaBecomes(u, s),
           UNCHANGED <<tti, user, conres_id, pending_rars, rar_allocs>>,
           decoding' \in [Ue -> SUBSET [tti : Numbers, grants : SUBSET Rnti]],
           rar_grant' \in [Ue -> Rnti \cup {0}],
           prach' \subseteq [tti : Numbers, preamble : Preambles \cup {0}, by : SUBSET Ue],
           msg3' \in [Rnti -> SUBSET Ue],
           \A r \in Rnti : Given(r)' => Given(r)
    PROVE  RaInv'
  <1>1. RaTypeOK'
    BY DEF RaInv, RaTypeOK, RaBecomes, Sound
  <1>2. Apart'
    BY GrantsMoveOn DEF RaInv
  <1>3. ASSUME NEW v \in Ue PROVE Sound(v, ra[v], conres_id)'
    <2>1. ra'[v] = IF v = u THEN s ELSE ra[v]
      BY DEF RaInv, RaTypeOK, RaBecomes
    <2>2. Sound(v, ra'[v], conres_id)
      BY <2>1 DEF RaInv
    <2> QED
      BY <2>2 DEF Sound
  <1> QED
    BY <1>1, <1>2, <1>3 DEF RaInv

LEMMA OneUeMoves ==
    ASSUME RaInv, NEW u \in Ue, NEW s, Sound(u, s, conres_id), RaBecomes(u, s),
           UNCHANGED <<tti, decoding, rar_grant, user, conres_id, msg3, pending_rars, rar_allocs>>,
           prach' \subseteq [tti : Numbers, preamble : Preambles \cup {0}, by : SUBSET Ue]
    PROVE  RaInv'
  <1>1. \A r \in Rnti : Given(r)' => Given(r)
    BY DEF Given, HoldsGrant
  <1> QED
    BY <1>1, OneUeActs DEF RaInv, RaTypeOK

LEMMA UeStackInv ==
    ASSUME RaInv, NEW u \in Ue,
           Start(u) \/ TimerExpires(u) \/ TimerCallback(u) \/ Reset(u)
    PROVE  RaInv'
  <1> USE DEF uevars, enbvars, airvars, rasvars
  <1>1. Sound(u, ra[u], conres_id) /\ RaTypeOK
    BY DEF RaInv
  <1>2. CASE Start(u)
    <2>1. PICK p \in Preambles : RaBecomes(u, StartMacOrder(ra[u], p))
      BY <1>2 DEF Start
    <2>2. Sound(u, StartMacOrder(ra[u], p), conres_id)
      BY <1>1, <1>2, StartSound DEF Start
    <2> QED
      BY <1>1, <1>2, <2>1, <2>2, OneUeMoves DEF Start, RaTypeOK
  <1>3. CASE TimerExpires(u)
    <2>1. Sound(u, TimerMarked(ra[u]), conres_id)
      BY <1>1, TimerSound
    <2> QED
      BY <1>1, <1>3, <2>1, OneUeMoves DEF TimerExpires, RaTypeOK
  <1>4. CASE TimerCallback(u)
    <2>1. PICK p \in Preambles : RaBecomes(u, TimerExpired(ra[u], p))
      BY <1>4 DEF TimerCallback
    <2>2. Sound(u, TimerExpired(ra[u], p), conres_id)
      BY <1>1, TimerSound
    <2> QED
      BY <1>1, <1>4, <2>1, <2>2, OneUeMoves DEF TimerCallback, RaTypeOK
  <1>5. CASE Reset(u)
    <2>1. Sound(u, MacReset(ra[u]), conres_id)
      BY <1>1, ResetSound
    <2> QED
      BY <1>1, <1>5, <2>1, OneUeMoves DEF Reset, RaTypeOK
  <1> QED
    BY <1>2, <1>3, <1>4, <1>5

LEMMA ContentionInv ==
    ASSUME RaInv, NEW u \in Ue, ContentionResolutionIdReceived(u) \/ PdcchReceived(u)
    PROVE  RaInv'
  <1> USE DEF uevars, enbvars, airvars, rasvars
  <1>1. Sound(u, ra[u], conres_id) /\ RaTypeOK
    BY DEF RaInv
  <1>2. CASE ContentionResolutionIdReceived(u)
    <2>1. PICK p \in Preambles :
             RaBecomes(u, ContentionResolution(ra[u], conres_id[ra[u].temp_rnti] = u, p))
      BY <1>2 DEF ContentionResolutionIdReceived
    <2>2. Sound(u, ContentionResolution(ra[u], conres_id[ra[u].temp_rnti] = u, p), conres_id)
      BY <1>1, <1>2, ContentionSound DEF ContentionResolutionIdReceived
    <2> QED
      BY <1>1, <1>2, <2>1, <2>2, OneUeMoves DEF ContentionResolutionIdReceived, RaTypeOK
  <1>3. CASE PdcchReceived(u)
    <2>1. Sound(u, PdcchToCrnti(ra[u]), conres_id)
      BY <1>1, <1>3, PdcchSound DEF PdcchReceived
    <2> QED
      BY <1>1, <1>3, <2>1, OneUeMoves DEF PdcchReceived, RaTypeOK
  <1> QED
    BY <1>2, <1>3

(* The grants in sent leave the RARs to be sent, of which the first k go. *)
LEMMA GrantsLeave ==
    ASSUME RaTypeOK, Apart, UNCHANGED <<user, conres_id>>, NEW sent, NEW k \in {0, 1},
           \A i \in DOMAIN pending_rars' :
               /\ i \in Nat /\ i + k \in DOMAIN pending_rars
               /\ pending_rars'[i].grants \subseteq pending_rars[i + k].grants \ sent,
           \A r \in sent : \E i \in DOMAIN pending_rars : r \in pending_rars[i].grants,
           \A r \in Rnti : Given(r)' => Given(r) \/ r \in sent
    PROVE  Apart'
  <1>1. \A i \in DOMAIN pending_rars : pending_rars[i].grants \subseteq Rnti
    BY PendingRars
  <1>2. ASSUME NEW i \in DOMAIN pending_rars', NEW r \in pending_rars'[i].grants
        PROVE  /\ ~Given(r)' /\ conres_id'[r] = NoUe /\ user'[r] # "unused"
               /\ \A j \in DOMAIN pending_rars' : r \in pending_rars'[j].grants => i = j
    <2>1. i + k \in DOMAIN pending_rars /\ r \in pending_rars[i + k].grants /\ r \notin sent /\ r \in Rnti
      BY <1>1
    <2>2. ~Given(r) /\ conres_id[r] = NoUe /\ user[r] # "unused"
      BY <2>1 DEF Apart, PendingApart
    <2>3. ASSUME NEW j \in DOMAIN pending_rars', r \in pending_rars'[j].grants
          PROVE  i = j
      <3>1. j + k \in DOMAIN pending_rars /\ r \in pending_rars[j + k].grants
        BY <2>3
      <3>2. i + k = j + k
        BY <2>1, <3>1 DEF Apart, PendingApart
      <3> QED
        BY <3>2
    <2> QED
      BY <2>1, <2>2, <2>3
  <1>3. PendingApart'
    BY <1>2 DEF PendingApart
  <1>4. \A r \in sent : r \in Rnti /\ conres_id[r] = NoUe /\ user[r] # "unused"
    BY <1>1 DEF Apart, PendingApart
  <1>5. AnsweredOnce' /\ UnusedNowhere'
    BY <1>4 DEF Apart, AnsweredOnce, UnusedNowhere
  <1> QED
    BY <1>3, <1>5 DEF Apart

(* Nothing of what the UEs have changes. *)
LEMMA UesStay ==
    ASSUME RaInv, UNCHANGED <<ra, conres_id>>
    PROVE  \A u \in Ue : Sound(u, ra[u], conres_id)'
  BY DEF RaInv, Sound

LEMMA ScheduleInv ==
    ASSUME RaInv, DlSchedule
    PROVE  RaInv'
  <1> USE DEF uevars, enbvars, airvars, rasvars
  <1> DEFINE T == Tail(pending_rars)
  <1>1. RaTypeOK /\ Apart
    BY DEF RaInv
  <1>2. \A u \in Ue : Sound(u, ra[u], conres_id)'
    BY UesStay DEF DlSchedule
  <1>3. pending_rars # <<>> =>
            /\ T \in Seq(Grants) /\ DOMAIN T \subseteq Nat
            /\ \A i \in DOMAIN T : i + 1 \in DOMAIN pending_rars /\ T[i] = pending_rars[i + 1]
    BY <1>1, PendingRars, HeadTailProperties DEF RaTypeOK
  <1>4. pending_rars # <<>> => 1 \in DOMAIN pending_rars /\ Front = pending_rars[1] /\ Front \in Grants
    BY <1>1, PendingRars DEF RaTypeOK, Front
  <1>5. CASE Discard(tti)
    <2>1. RaTypeOK'
      BY <1>1, <1>3, <1>5 DEF Discard, DlSchedule, RaTypeOK
    <2>2. \A r \in Rnti : Given(r)' => Given(r)
      BY <1>5 DEF Given, HoldsGrant, Discard, DlSchedule
    <2>3. Apart'
      <3> DEFINE none == {}
      <3>1. \A i \in DOMAIN pending_rars' :
               /\ i \in Nat /\ i + 1 \in DOMAIN pending_rars
               /\ pending_rars'[i].grants \subseteq pending_rars[i + 1].grants \ none
        BY <1>3, <1>5 DEF Discard
      <3>2. /\ \A r \in none : \E i \in DOMAIN pending_rars : r \in pending_rars[i].grants
            /\ \A r \in Rnti : Given(r)' => Given(r) \/ r \in none
        BY <2>2
      <3>3. UNCHANGED <<user, conres_id>>
        BY DEF DlSchedule
      <3> HIDE DEF none
      <3> QED
        BY <1>1, <3>1, <3>2, <3>3, GrantsLeave
    <2> QED
      BY <1>2, <2>1, <2>3 DEF RaInv
  <1>6. CASE AllocRar(tti)
    <2>1. PICK sent \in (SUBSET Front.grants) \ {{}} :
             /\ rar_allocs' = rar_allocs \cup {[prach_tti |-> Front.prach_tti, grants |-> sent]}
             /\ pending_rars' = IF sent = Front.grants THEN Tail(pending_rars)
                                ELSE [pending_rars EXCEPT ![1].grants = @ \ sent]
      BY <1>6 DEF AllocRar
    <2>2. pending_rars # <<>> /\ Front.prach_tti \in Numbers /\ Front.grants \subseteq Rnti
      BY <1>4, <1>6 DEF AllocRar, Grants
    <2>3. rar_allocs' \subseteq Grants
      BY <1>1, <2>1, <2>2 DEF RaTypeOK, Grants
    <2>4. \A r \in Rnti : Given(r)' => Given(r) \/ r \in sent
      BY <2>1 DEF Given, HoldsGrant, DlSchedule
    <2>5. \A r \in sent : \E i \in DOMAIN pending_rars : r \in pending_rars[i].grants
      BY <1>4, <2>1, <2>2
    <2>6. CASE sent = Front.grants
      <3>1. RaTypeOK'
        BY <1>1, <1>3, <2>1, <2>2, <2>3, <2>6 DEF DlSchedule, RaTypeOK
      <3>2. \A i \in DOMAIN pending_rars' :
               /\ i \in Nat /\ i + 1 \in DOMAIN pending_rars
               /\ pending_rars'[i].grants \subseteq pending_rars[i + 1].grants
        BY <1>3, <2>1, <2>2, <2>6
      <3>3. \A i \in DOMAIN pending_rars' : \A r \in pending_rars[i + 1].grants : r \notin sent
        BY <1>1, <1>4, <2>2, <2>6, <3>2 DEF Apart, PendingApart
      <3>4. Apart'
        BY <1>1, <2>4, <2>5, <3>2, <3>3, GrantsLeave DEF DlSchedule
      <3> QED
        BY <1>2, <3>1, <3>4 DEF RaInv
    <2>7. CASE sent # Front.grants
      <3> DEFINE rest == [Front EXCEPT !.grants = @ \ sent]
      <3>1. rest \in Grants /\ rest.grants = Front.grants \ sent
        BY <1>4, <2>2 DEF Grants
      <3>2. pending_rars' = [pending_rars EXCEPT ![1] = rest]
        BY <1>4, <2>1, <2>2, <2>7
      <3>3. /\ pending_rars' \in Seq(Grants) /\ DOMAIN pending_rars' = DOMAIN pending_rars
            /\ \A i \in DOMAIN pending_rars : pending_rars'[i] = IF i = 1 THEN rest ELSE pending_rars[i]
        <4> HIDE DEF rest
        <4> QED
          BY <1>1, <1>4, <2>2, <3>1, <3>2, PendingRars, ExceptSeq DEF RaTypeOK
      <3>4. RaTypeOK'
        BY <1>1, <2>3, <3>3 DEF DlSchedule, RaTypeOK
      <3>5. \A i \in DOMAIN pending_rars : i # 1 => \A r \in pending_rars[i].grants : r \notin sent
        BY <1>1, <1>4, <2>1, <2>2 DEF Apart, PendingApart
      <3>6. \A i \in DOMAIN pending_rars' :
               /\ i \in Nat /\ i + 0 \in DOMAIN pending_rars
               /\ pending_rars'[i].grants \subseteq pending_rars[i + 0].grants \ sent
        <4> HIDE DEF rest
        <4> QED
          BY <1>1, <1>4, <2>2, <3>1, <3>3, <3>5, PendingRars
      <3>7. Apart'
        BY <1>1, <2>4, <2>5, <3>6, GrantsLeave DEF DlSchedule
      <3> QED
        BY <1>2, <3>4, <3>7 DEF RaInv
    <2> QED
      BY <2>6, <2>7
  <1>7. CASE NoMoreRars(tti)
    <2>1. RaTypeOK'
      BY <1>1, <1>7 DEF NoMoreRars, DlSchedule, RaTypeOK
    <2>2. \A r \in Rnti : Given(r)' => Given(r)
      BY <1>7 DEF Given, HoldsGrant, NoMoreRars, DlSchedule
    <2>3. Apart'
      BY <1>1, <1>7, <2>2, GrantsMoveOn DEF NoMoreRars, DlSchedule
    <2> QED
      BY <1>2, <2>1, <2>3 DEF RaInv
  <1> QED
    BY <1>5, <1>6, <1>7 DEF DlSchedule, DlSched

LEMMA SendersAreUes ==
    ASSUME NEW S, \A x \in S : x.by \in SUBSET Ue, NEW u \in Ue
    PROVE  (UNION {x.by : x \in S}) \cup {u} \subseteq Ue
  <1> DEFINE all == UNION {x.by : x \in S}
  <1>1. all \subseteq Ue
    OBVIOUS
  <1> HIDE DEF all
  <1>2. all \cup {u} \subseteq Ue
    BY <1>1
  <1> QED
    BY <1>2 DEF all

LEMMA UePhyInv ==
    ASSUME RaInv, NEW u \in Ue,
           \/ SendPrach(u) \/ FindRar(u) \/ TbDecodedOk(u) \/ SendMsg3(u)
           \/ HarqRetx(u) \/ HarqMaxRetx(u)
    PROVE  RaInv'
  <1> USE DEF uevars, enbvars, airvars, rasvars
  <1>1. Sound(u, ra[u], conres_id) /\ RaTypeOK /\ ra[u] \in RaType
    BY DEF RaInv, RaTypeOK
  <1>2. RaBecomes(u, ra[u]) <=> ra' = ra
    BY <1>1 DEF RaBecomes, RaTypeOK
  <1>3. CASE SendPrach(u)
    <2> DEFINE s == [ra[u] EXCEPT !.ra_tti = tti]
               same == {x \in prach : x.tti = tti /\ x.preamble = ra[u].preamble}
               by   == (UNION {x.by : x \in same}) \cup {u}
    <2>1. Sound(u, s, conres_id)
      BY <1>1 DEF Sound, RaType, SaysCRnti, RaTypeOK
    <2>2. prach' = (prach \ same) \cup {[tti |-> tti, preamble |-> ra[u].preamble, by |-> by]}
      BY <1>3 DEF SendPrach
    <2>3. by \subseteq Ue
      <3>1. \A x \in same : x.by \in SUBSET Ue
        BY <1>1 DEF RaTypeOK
      <3> QED
        BY <3>1, SendersAreUes
    <2>4. [tti |-> tti, preamble |-> ra[u].preamble, by |-> by]
              \in [tti : Numbers, preamble : Preambles \cup {0}, by : SUBSET Ue]
      <3> HIDE DEF by
      <3> QED
        BY <1>1, <2>3 DEF RaTypeOK, RaType
    <2>5. prach' \subseteq [tti : Numbers, preamble : Preambles \cup {0}, by : SUBSET Ue]
      <3> HIDE DEF by
      <3> QED
        BY <1>1, <2>2, <2>4 DEF RaTypeOK
    <2> QED
      BY <1>3, <2>1, <2>5, OneUeMoves DEF SendPrach
  <1>4. CASE FindRar(u)
    <2>1. PICK rar \in rar_allocs :
             decoding' = [decoding EXCEPT ![u] = {[tti |-> tti, grants |-> rar.grants]}]
      BY <1>4 DEF FindRar
    <2>2. rar.grants \subseteq Rnti
      BY <1>1 DEF RaTypeOK, Grants
    <2>3. decoding' \in [Ue -> SUBSET [tti : Numbers, grants : SUBSET Rnti]]
      BY <1>1, <2>1, <2>2 DEF RaTypeOK
    <2>4. \A r \in Rnti : Given(r)' => Given(r)
      BY <1>1, <1>4, <2>1 DEF Given, HoldsGrant, FindRar, RaTypeOK
    <2> QED
      BY <1>1, <1>2, <1>4, <2>3, <2>4, OneUeActs DEF FindRar, RaTypeOK
  <1>5. CASE TbDecodedOk(u)
    <2>1. PICK rar \in decoding[u] :
             \/ UNCHANGED <<ra, rar_grant>>
             \/ \E r \in rar.grants : /\ RaBecomes(u, TakeRar(ra[u], r))
                                      /\ rar_grant' = [rar_grant EXCEPT ![u] = r]
      BY <1>5 DEF TbDecodedOk, ForMe
    <2>2. rar.grants \subseteq Rnti
      BY <1>1 DEF RaTypeOK
    <2>3. /\ decoding' = [decoding EXCEPT ![u] = {}]
          /\ decoding' \in [Ue -> SUBSET [tti : Numbers, grants : SUBSET Rnti]]
      BY <1>1, <1>5 DEF RaTypeOK, TbDecodedOk
    <2>4. CASE UNCHANGED <<ra, rar_grant>>
      <3>1. \A r \in Rnti : Given(r)' => Given(r)
        BY <1>1, <1>5, <2>3, <2>4 DEF Given, HoldsGrant, TbDecodedOk, RaTypeOK
      <3> QED
        BY <1>1, <1>2, <1>5, <2>3, <2>4, <3>1, OneUeActs DEF TbDecodedOk, RaTypeOK
    <2>5. CASE \E r \in rar.grants : /\ RaBecomes(u, TakeRar(ra[u], r))
                                     /\ rar_grant' = [rar_grant EXCEPT ![u] = r]
      <3>1. PICK r \in rar.grants : /\ RaBecomes(u, TakeRar(ra[u], r))
                                    /\ rar_grant' = [rar_grant EXCEPT ![u] = r]
        BY <2>5
      <3>2. Sound(u, TakeRar(ra[u], r), conres_id) /\ r \in Rnti
        BY <1>1, <2>2, TakeRarSound
      <3>3. \A q \in Rnti : Given(q)' => Given(q)
        BY <1>1, <1>5, <2>3, <3>1 DEF Given, HoldsGrant, TbDecodedOk, RaTypeOK
      <3>4. rar_grant' \in [Ue -> Rnti \cup {0}]
        BY <1>1, <3>1, <3>2 DEF RaTypeOK
      <3> QED
        BY <1>1, <1>5, <2>3, <3>1, <3>2, <3>3, <3>4, OneUeActs DEF TbDecodedOk, RaTypeOK
    <2> QED
      BY <2>1, <2>4, <2>5
  <1>6. CASE SendMsg3(u)
    <2>1. Sound(u, Msg3Get(ra[u]), conres_id)
      BY <1>1, Msg3GetSound
    <2>2. rar_grant[u] \in Rnti
      BY <1>1, <1>6 DEF RaTypeOK, SendMsg3
    <2>3. /\ msg3' \in [Rnti -> SUBSET Ue] /\ rar_grant' \in [Ue -> Rnti \cup {0}]
          /\ \A r \in Rnti : msg3'[r] # {} => msg3[r] # {} \/ r = rar_grant[u]
          /\ \A v \in Ue : rar_grant'[v] \in {0, rar_grant[v]}
      BY <1>1, <1>6, <2>2 DEF RaTypeOK, SendMsg3
    <2>4. \A r \in Rnti : Given(r)' => Given(r)
      BY <1>1, <1>6, <2>2, <2>3 DEF Given, HoldsGrant, SendMsg3, Rnti
    <2> QED
      BY <1>1, <1>6, <2>1, <2>3, <2>4, OneUeActs DEF SendMsg3, RaTypeOK
  <1>7. CASE HarqMaxRetx(u)
    <2>1. PICK p \in Preambles : RaBecomes(u, ResponseError(ra[u], p))
      BY <1>7 DEF HarqMaxRetx
    <2>2. Sound(u, ResponseError(ra[u], p), conres_id)
      BY <1>1, ResponseErrorSound
    <2>3. /\ msg3' \in [Rnti -> SUBSET Ue]
          /\ \A r \in Rnti : msg3'[r] \subseteq msg3[r]
      BY <1>1, <1>7 DEF RaTypeOK, HarqMaxRetx
    <2>4. \A r \in Rnti : Given(r)' => Given(r)
      BY <1>7, <2>3 DEF Given, HoldsGrant, HarqMaxRetx
    <2> QED
      BY <1>1, <1>7, <2>1, <2>2, <2>3, <2>4, OneUeActs DEF HarqMaxRetx, RaTypeOK
  <1>8. CASE HarqRetx(u)
    <2>1. Sound(u, HarqRetxTimer(ra[u]), conres_id)
      BY <1>1, TimerSound
    <2> QED
      BY <1>1, <1>8, <2>1, OneUeMoves DEF HarqRetx, RaTypeOK
  <1> QED
    BY <1>3, <1>4, <1>5, <1>6, <1>7, <1>8

-----------------------------------------------------------------------------
LEMMA NextRntiUnused ==
    ASSUME Unused # {}
    PROVE  NextRnti \in Rnti /\ user[NextRnti] = "unused"
  <1>1. Unused \in SUBSET Nat
    BY DEF Unused, Rnti
  <1>2. PICK r \in Unused : \A q \in Unused : r <= q
    BY <1>1, LeastOfNaturals
  <1>3. \A q \in 1 .. r - 1 : user[q] # "unused"
    BY <1>1, <1>2, RandomAccessAssumption DEF Unused, Rnti
  <1>4. r \in Rnti /\ user[r] = "unused"
    BY DEF Unused
  <1> QED
    BY <1>3, <1>4 DEF NextRnti

(* A new grant is in one RAR only. *)
LEMMA DlRachInfoInv ==
    ASSUME RaTypeOK, NEW t \in Numbers, NEW r \in Rnti, DlRachInfo(t, r),
           \A i \in DOMAIN pending_rars : r \notin pending_rars[i].grants
    PROVE  /\ pending_rars' \in Seq(Grants)
           /\ \E n \in DOMAIN pending_rars' : \A i \in DOMAIN pending_rars' :
                 \A q \in pending_rars'[i].grants :
                    \/ q = r /\ i = n
                    \/ q # r /\ i \in DOMAIN pending_rars /\ q \in pending_rars[i].grants
  <1>1. /\ pending_rars \in Seq(Grants)
        /\ DOMAIN pending_rars = 1 .. Len(pending_rars) /\ Len(pending_rars) \in Nat
    BY PendingRars DEF RaTypeOK
  <1> DEFINE new == [prach_tti |-> t, grants |-> {r}]
  <1>2. CASE pending_rars' = Append(pending_rars, new)
    <2>1. new \in Grants /\ new.grants = {r}
      BY DEF Grants
    <2> HIDE DEF new
    <2>2. /\ pending_rars' \in Seq(Grants) /\ DOMAIN pending_rars' = 1 .. Len(pending_rars) + 1
          /\ \A i \in 1 .. Len(pending_rars) : pending_rars'[i] = pending_rars[i]
          /\ pending_rars'[Len(pending_rars) + 1] = new
      BY <1>1, <1>2, <2>1, AppendProperties
    <2>3. \A i \in DOMAIN pending_rars' : \A q \in pending_rars'[i].grants :
             \/ q = r /\ i = Len(pending_rars) + 1
             \/ q # r /\ i \in DOMAIN pending_rars /\ q \in pending_rars[i].grants
      <3> TAKE i \in DOMAIN pending_rars'
      <3>1. CASE i = Len(pending_rars) + 1
        BY <2>1, <2>2, <3>1
      <3>2. CASE i \in DOMAIN pending_rars
        BY <1>1, <2>2, <3>2
      <3> QED
        BY <1>1, <2>2, <3>1, <3>2
    <2> PICK k : k = Len(pending_rars) + 1
      OBVIOUS
    <2>4. /\ k \in DOMAIN pending_rars'
          /\ \A i \in DOMAIN pending_rars' : \A q \in pending_rars'[i].grants :
                \/ q = r /\ i = k
                \/ q # r /\ i \in DOMAIN pending_rars /\ q \in pending_rars[i].grants
      BY <1>1, <2>2, <2>3
    <2> QED
      BY <2>2, <2>4
  <1>3. CASE \E n \in DOMAIN pending_rars : pending_rars' = [pending_rars EXCEPT ![n].grants = @ \cup {r}]
    <2>1. PICK n \in DOMAIN pending_rars : pending_rars' = [pending_rars EXCEPT ![n].grants = @ \cup {r}]
      BY <1>3
    <2> DEFINE more == [pending_rars[n] EXCEPT !.grants = @ \cup {r}]
    <2>2. more \in Grants /\ more.grants = pending_rars[n].grants \cup {r}
      BY PendingRars DEF Grants
    <2>3. pending_rars' = [pending_rars EXCEPT ![n] = more]
      BY <2>1
    <2> HIDE DEF more
    <2>4. /\ pending_rars' \in Seq(Grants) /\ DOMAIN pending_rars' = DOMAIN pending_rars
          /\ \A i \in DOMAIN pending_rars : pending_rars'[i] = IF i = n THEN more ELSE pending_rars[i]
      BY <1>1, <2>2, <2>3, ExceptSeq
    <2> QED
      BY <2>2, <2>4
  <1> QED
    BY <1>2, <1>3 DEF DlRachInfo

LEMMA RachDetectedInv ==
    ASSUME RaInv, RachDetected
    PROVE  RaInv'
  <1> USE DEF uevars
  <1> DEFINE r == NextRnti
  <1>1. RaTypeOK /\ Apart /\ Unused # {}
    BY DEF RaInv, RachDetected
  <1>2. r \in Rnti /\ user[r] = "unused"
    BY <1>1, NextRntiUnused
  <1>3. PICK x \in prach : /\ prach' = prach \ {x} /\ DlRachInfo(x.tti, r)
                           /\ user' = [user EXCEPT ![r] = "msg3_rx"]
    BY DEF RachDetected
  <1>4. UNCHANGED <<tti, ra, decoding, rar_grant, conres_id, msg3, rar_allocs>>
    BY DEF RachDetected
  <1>5. x.tti \in Numbers
    BY <1>1, <1>3 DEF RaTypeOK
  <1> HIDE DEF r
  <1>6. \A i \in DOMAIN pending_rars : r \notin pending_rars[i].grants
    BY <1>1, <1>2 DEF Apart, PendingApart
  <1>7. /\ pending_rars' \in Seq(Grants)
        /\ \E n \in DOMAIN pending_rars' : \A i \in DOMAIN pending_rars' :
              \A q \in pending_rars'[i].grants :
                 \/ q = r /\ i = n
                 \/ q # r /\ i \in DOMAIN pending_rars /\ q \in pending_rars[i].grants
    BY <1>1, <1>2, <1>3, <1>5, <1>6, DlRachInfoInv
  <1>8. RaTypeOK'
    BY <1>1, <1>3, <1>4, <1>7 DEF RaTypeOK
  <1>9. /\ \A q \in Rnti : Given(q)' <=> Given(q)
        /\ \A q \in Rnti : user'[q] = IF q = r THEN "msg3_rx" ELSE user[q]
    BY <1>1, <1>3, <1>4 DEF Given, HoldsGrant, RaTypeOK
  <1>10. AnsweredOnce' /\ UnusedNowhere'
    BY <1>1, <1>4, <1>9 DEF Apart, AnsweredOnce, UnusedNowhere
  <1>11. PendingApart'
    <2>1. PICK n \in DOMAIN pending_rars' : \A i \in DOMAIN pending_rars' :
             \A q \in pending_rars'[i].grants :
                \/ q = r /\ i = n
                \/ q # r /\ i \in DOMAIN pending_rars /\ q \in pending_rars[i].grants
      BY <1>7
    <2>2. ASSUME NEW i \in DOMAIN pending_rars', NEW q \in pending_rars'[i].grants
          PROVE  /\ ~Given(q)' /\ conres_id'[q] = NoUe /\ user'[q] # "unused"
                 /\ \A j \in DOMAIN pending_rars' : q \in pending_rars'[j].grants => i = j
      <3>1. CASE q = r
        BY <1>1, <1>2, <1>4, <1>9, <2>1, <3>1 DEF Apart, UnusedNowhere
      <3>2. CASE q # r
        <4>1. i \in DOMAIN pending_rars /\ q \in pending_rars[i].grants /\ q \in Rnti
          BY <1>1, <2>1, <3>2, PendingRars
        <4>2. \A j \in DOMAIN pending_rars' :
                 q \in pending_rars'[j].grants => j \in DOMAIN pending_rars /\ q \in pending_rars[j].grants
          BY <2>1, <3>2
        <4> QED
          BY <1>1, <1>4, <1>9, <3>2, <4>1, <4>2 DEF Apart, PendingApart
      <3> QED
        BY <3>1, <3>2
    <2> QED
      BY <2>2 DEF PendingApart
  <1>12. \A u \in Ue : Sound(u, ra[u], conres_id)'
    BY <1>4, UesStay
  <1> QED
    BY <1>8, <1>10, <1>11, <1>12 DEF RaInv, Apart

(* The base station's other steps, but for the answer to Msg3. *)
LEMMA EnbKeeps ==
    ASSUME RaInv, UNCHANGED <<tti, ra, decoding, rar_grant, conres_id, rasvars>>,
           prach' \subseteq prach, \A r \in Rnti : msg3'[r] \subseteq msg3[r],
           msg3' \in [Rnti -> SUBSET Ue],
           user' \in [Rnti -> {"unused", "msg3_rx", "connected", "removed"}],
           \A r \in Rnti : user'[r] = "unused" <=> user[r] = "unused"
    PROVE  RaInv'
  <1>1. RaTypeOK'
    BY DEF RaInv, RaTypeOK, rasvars
  <1>2. \A r \in Rnti : Given(r)' => Given(r)
    BY DEF Given, HoldsGrant, rasvars
  <1>3. Apart'
    BY <1>2, GrantsMoveOn DEF RaInv, rasvars
  <1>4. \A u \in Ue : Sound(u, ra[u], conres_id)'
    BY UesStay
  <1> QED
    BY <1>1, <1>3, <1>4 DEF RaInv

LEMMA EnbInv ==
    ASSUME RaInv,
           \/ PrachMissed \/ RrcTtiClock
           \/ \E r \in Rnti : ActivityTimerExpires(r) \/ Msg4Ends(r) \/ Msg3Lost(r)
    PROVE  RaInv'
  <1> USE DEF uevars, enbvars, airvars
  <1>1. RaTypeOK
    BY DEF RaInv
  <1>2. CASE PrachMissed
    BY <1>1, <1>2, EnbKeeps DEF PrachMissed, RaTypeOK
  <1>3. CASE RrcTtiClock
    <2> DEFINE r == Head(rx_pdu_queue)[1]
    <2>1. \/ UNCHANGED user
          \/ Exists(r) /\ \E now \in {"connected", "removed"} : user' = [user EXCEPT ![r] = now]
      BY ONLY <1>3 DEF RrcTtiClock
    <2> HIDE DEF r
    <2>2. /\ user' \in [Rnti -> {"unused", "msg3_rx", "connected", "removed"}]
          /\ \A q \in Rnti : user'[q] = "unused" <=> user[q] = "unused"
      BY <1>1, <2>1 DEF RaTypeOK, Exists
    <2> QED
      BY <1>1, <1>3, <2>2, EnbKeeps DEF RrcTtiClock, RaTypeOK
  <1>4. ASSUME NEW r \in Rnti, ActivityTimerExpires(r)
        PROVE  RaInv'
    BY <1>1, <1>4, EnbKeeps DEF ActivityTimerExpires, RaTypeOK
  <1>5. ASSUME NEW r \in Rnti, Msg4Ends(r)
        PROVE  RaInv'
    BY <1>1, <1>5, EnbKeeps DEF Msg4Ends, RaTypeOK
  <1>6. ASSUME NEW r \in Rnti, Msg3Lost(r)
        PROVE  RaInv'
    <2>1. msg3' \in [Rnti -> SUBSET Ue] /\ \A q \in Rnti : msg3'[q] \subseteq msg3[q]
      BY <1>1, <1>6 DEF Msg3Lost, RaTypeOK
    <2> QED
      BY <1>1, <1>6, <2>1, EnbKeeps DEF Msg3Lost, RaTypeOK
  <1> QED
    BY <1>2, <1>3, <1>4, <1>5, <1>6

(* The RNTI that is answered was given, so none has its identity yet; and no *)
(* grant of it is left.                                                     *)
LEMMA Msg3DecodedInv ==
    ASSUME RaInv, NEW r \in Rnti, NEW u \in Ue, Msg3Decoded(r, u)
    PROVE  RaInv'
  <1> USE DEF uevars, enbvars, airvars
  <1>1. RaTypeOK /\ Apart
    BY DEF RaInv
  <1>2. /\ UNCHANGED <<tti, ra, decoding, rar_grant, user, prach, pending_rars, rar_allocs>>
        /\ msg3' = [msg3 EXCEPT ![r] = {}] /\ AllHaveSent(r) /\ Given(r)
        /\ conres_id' = conres_id \/ conres_id' = [conres_id EXCEPT ![r] = u]
    BY DEF Msg3Decoded, rasvars, Given
  <1>3. conres_id[r] = NoUe /\ user[r] # "unused"
        /\ \A i \in DOMAIN pending_rars : r \notin pending_rars[i].grants
    BY <1>1, <1>2 DEF Apart, AnsweredOnce, UnusedNowhere, PendingApart
  <1>4. /\ RaTypeOK'
        /\ \A q \in Rnti : q # r => conres_id'[q] = conres_id[q]
        /\ msg3'[r] = {} /\ \A q \in Rnti : q # r => msg3'[q] = msg3[q]
    BY <1>1, <1>2 DEF RaTypeOK
  <1>5. ~Given(r)' /\ \A q \in Rnti : Given(q)' => Given(q)
    BY <1>2, <1>4 DEF Given, AllHaveSent, HoldsGrant
  <1>6. AnsweredOnce' /\ UnusedNowhere'
    BY <1>1, <1>2, <1>3, <1>4, <1>5 DEF Apart, AnsweredOnce, UnusedNowhere
  <1>7. PendingApart'
    BY <1>1, <1>2, <1>3, <1>4, <1>5, PendingRars DEF Apart, PendingApart
  <1>8. ASSUME NEW v \in Ue PROVE Sound(v, ra[v], conres_id)'
    <2>1. Sound(v, ra[v], conres_id)
      BY DEF RaInv
    <2>2. ra[v].crnti # 0 => ra[v].crnti \in Rnti /\ conres_id[ra[v].crnti] # NoUe
      BY <2>1, RandomAccessAssumption DEF Sound, RaType
    <2>3. ra[v].crnti # 0 => conres_id'[ra[v].crnti] = v
      BY <1>3, <1>4, <2>1, <2>2 DEF Sound
    <2> QED
      BY <1>2, <2>1, <2>3 DEF Sound
  <1> QED
    BY <1>4, <1>6, <1>7, <1>8 DEF RaInv, Apart

LEMMA NextTtiInv ==
    ASSUME RaInv, NextTti
    PROVE  RaInv'
  <1> USE DEF enbvars, airvars
  <1>1. RaTypeOK /\ Apart
    BY DEF RaInv
  <1>2. /\ UNCHANGED <<decoding, rar_grant, user, conres_id, prach, msg3, pending_rars>>
        /\ rar_allocs' = {} /\ tti' = (tti + 1) % NofTtis
    BY DEF NextTti, NextResult
  <1>3. PICK p \in [Ue -> Preambles] : ra' = [u \in Ue |-> RaStep(ra[u], tti, p[u])]
    BY DEF NextTti
  <1>4. \A u \in Ue : Sound(u, ra'[u], conres_id)
    BY <1>3, StepSound DEF RaInv
  <1>5. tti' \in Numbers
    BY <1>1, <1>2, RaProcAssumption DEF RaTypeOK, Numbers
  <1>6. ra' \in [Ue -> RaType]
    BY <1>3, <1>4 DEF Sound
  <1>7. RaTypeOK'
    BY <1>1, <1>2, <1>5, <1>6 DEF RaTypeOK
  <1>8. \A r \in Rnti : Given(r)' => Given(r)
    BY <1>2 DEF Given, HoldsGrant
  <1>9. Apart'
    BY <1>1, <1>2, <1>8, GrantsMoveOn
  <1>10. \A u \in Ue : Sound(u, ra[u], conres_id)'
    BY <1>2, <1>4 DEF Sound
  <1> QED
    BY <1>7, <1>9, <1>10 DEF RaInv

LEMMA RaInitInv == Init => RaInv
  <1> SUFFICES ASSUME Init PROVE RaInv
    OBVIOUS
  <1>1. RaInit \in RaType /\ SaysCRnti(RaInit) /\ RaInit.crnti = 0
    BY NumbersClosed DEF RaInit, RaType, RaStates, SaysCRnti
  <1>2. pending_rars \in Seq(Grants) /\ DOMAIN pending_rars = {} /\ rar_allocs = {}
    BY DEF Init, RaSchedInit
  <1>3. RaTypeOK
    BY <1>1, <1>2, NumbersClosed DEF Init, RaTypeOK
  <1>4. \A r \in Rnti : ~Given(r)
    <2>1. \A r \in Rnti : r # 0
      BY DEF Rnti
    <2> QED
      BY <1>2, <2>1 DEF Init, Given, HoldsGrant
  <1>5. Apart
    BY <1>2, <1>4 DEF Init, Apart, PendingApart, AnsweredOnce, UnusedNowhere
  <1>6. \A u \in Ue : Sound(u, ra[u], conres_id)
    BY <1>1 DEF Init, Sound
  <1> QED
    BY <1>3, <1>5, <1>6 DEF RaInv

LEMMA RaStepInv == RaInv /\ [Next]_vars => RaInv'
  <1> SUFFICES ASSUME RaInv, [Next]_vars PROVE RaInv'
    OBVIOUS
  <1>1. CASE DlSchedule
    BY <1>1, ScheduleInv
  <1>2. CASE NextTti
    BY <1>2, NextTtiInv
  <1>3. CASE EnbNext
    BY <1>3, RachDetectedInv, EnbInv, Msg3DecodedInv DEF EnbNext
  <1>4. CASE \E u \in Ue : UeNext(u)
    BY <1>4, UeStackInv, UePhyInv, ContentionInv DEF UeNext
  <1>5. CASE UNCHANGED vars
    BY <1>5 DEF vars, uevars, enbvars, airvars, rasvars, RaInv, RaTypeOK, Apart, PendingApart,
                AnsweredOnce, UnusedNowhere, Given, HoldsGrant, Sound
  <1> QED
    BY <1>1, <1>2, <1>3, <1>4, <1>5 DEF Next

(* No two UEs have the same C-RNTI (ra_proc::contention_resolution_id_received, *)
(* ue::process_pdu): the RNTI was answered once, and names one UE.              *)
THEOREM OneUePerRntiHolds == Spec => []OneUePerRnti
  <1>1. RaInv => OneUePerRnti
    <2> SUFFICES ASSUME RaInv, NEW u \in Ue, NEW v \in Ue, ra[u].crnti # 0, ra[u].crnti = ra[v].crnti
                 PROVE  u = v
      BY DEF OneUePerRnti
    <2>1. conres_id[ra[u].crnti] = u /\ conres_id[ra[v].crnti] = v
      BY DEF RaInv, Sound
    <2> QED
      BY <2>1
  <1> QED
    BY <1>1, RaInitInv, RaStepInv, PTL DEF Spec
-----------------------------------------------------------------------------
(* ContentionEnds, of one UE with the C-RNTI of the grant its PHY has. *)
EndInSight(s, grant) ==
    s.state = "CONTENTION_RESOLUTION" =>
        \/ s.timer \/ s.expiring \/ s.msg3 = "transmitted"
        \/ s.msg3 = "pending" /\ grant # 0

(* The steps of ra_proc that do not lead out of the contention start the timer, *)
(* or keep what starts it.                                                     *)
LEMMA EndsStayInSight ==
    ASSUME NEW s \in RaType, NEW grant, EndInSight(s, grant), NEW p
    PROVE  /\ EndInSight(StartMacOrder(s, p), grant) /\ EndInSight(TimerMarked(s), grant)
           /\ EndInSight(MacReset(s), grant) /\ EndInSight(TimerExpired(s, p), grant)
           /\ EndInSight(ResponseError(s, p), grant) /\ EndInSight(PdcchToCrnti(s), grant)
           /\ \A mine \in BOOLEAN : EndInSight(ContentionResolution(s, mine, p), grant)
           /\ \A t : EndInSight([s EXCEPT !.ra_tti = t], grant)
           /\ EndInSight(HarqRetxTimer(s), grant) /\ EndInSight(Msg3Get(s), 0)
           /\ \A t : EndInSight(RaStep(s, t, p), grant)
  <1> USE DEF EndInSight, RaType
  <1>1. /\ ResponseError(s, p).state # "CONTENTION_RESOLUTION"
        /\ TimerExpired(s, p).state # "CONTENTION_RESOLUTION"
        /\ StartMacOrder(s, p).state # "CONTENTION_RESOLUTION"
        /\ MacReset(s).state # "CONTENTION_RESOLUTION"
        /\ PdcchToCrnti(s).state # "CONTENTION_RESOLUTION"
        /\ \A mine \in BOOLEAN :
              ContentionResolution(s, mine, p).state # "CONTENTION_RESOLUTION"
    BY DEF ResponseError, PreambleTransmission, TimerExpired, StartMacOrder, MacReset,
           PdcchToCrnti, Complete, ContentionResolution
  <1>2. EndInSight(TimerMarked(s), grant) /\ EndInSight(HarqRetxTimer(s), grant)
    BY DEF TimerMarked, HarqRetxTimer
  <1>3. \A t : EndInSight([s EXCEPT !.ra_tti = t], grant)
    OBVIOUS
  <1>4. EndInSight(Msg3Get(s), 0)
    BY DEF Msg3Get
  <1>5. ASSUME NEW t PROVE EndInSight(RaStep(s, t, p), grant)
    <2>1. CASE s.state = "CONTENTION_RESOLUTION"
      BY <2>1 DEF RaStep, StateContentionResolution
    <2>2. CASE s.state # "CONTENTION_RESOLUTION"
      <3>1. RaStep(s, t, p).state # "CONTENTION_RESOLUTION"
        BY <1>1, <2>2 DEF RaStep
      <3> QED
        BY <3>1
    <2> QED
      BY <2>1, <2>2
  <1> QED
    BY <1>1, <1>2, <1>3, <1>4, <1>5

LEMMA OneEndInSight ==
    ASSUME ra \in [Ue -> RaType], ContentionEnds, NEW u \in Ue, NEW s, RaBecomes(u, s),
           \A v \in Ue \ {u} : rar_grant'[v] = rar_grant[v],
           EndInSight(s, rar_grant'[u])
    PROVE  ContentionEnds'
  BY DEF ContentionEnds, EndInSight, RaBecomes

LEMMA ContentionEndsStep ==
    ASSUME RaTypeOK, ContentionEnds, [Next]_vars
    PROVE  ContentionEnds'
  <1> USE DEF uevars, enbvars, airvars, rasvars
  <1>1. ra \in [Ue -> RaType] /\ rar_grant \in [Ue -> Rnti \cup {0}]
        /\ \A u \in Ue : ra[u] \in RaType /\ EndInSight(ra[u], rar_grant[u])
    BY DEF RaTypeOK, ContentionEnds, EndInSight
  <1>2. ASSUME NEW u \in Ue, UeNext(u) PROVE ContentionEnds'
    <2>0. ra[u] \in RaType /\ EndInSight(ra[u], rar_grant[u])
      BY <1>1
    <2>1. ASSUME NEW s, RaBecomes(u, s), UNCHANGED rar_grant, EndInSight(s, rar_grant[u])
          PROVE  ContentionEnds'
      BY <1>1, <2>1, OneEndInSight
    <2>2. CASE Start(u) \/ TimerExpires(u) \/ TimerCallback(u) \/ Reset(u)
      BY <2>0, <2>1, <2>2, EndsStayInSight DEF Start, TimerExpires, TimerCallback, Reset
    <2>3. CASE SendPrach(u)
      BY <2>0, <2>1, <2>3, EndsStayInSight DEF SendPrach
    <2>4. CASE FindRar(u)
      BY <1>1, <2>4 DEF FindRar, ContentionEnds
    <2>5. CASE TbDecodedOk(u)
      <3>1. PICK rar \in decoding[u] :
              IF ForMe(u, rar) = {} THEN UNCHANGED <<ra, rar_grant>>
              ELSE \E r \in ForMe(u, rar) : /\ RaBecomes(u, TakeRar(ra[u], r))
                                            /\ rar_grant' = [rar_grant EXCEPT ![u] = r]
        BY <2>5 DEF TbDecodedOk
      <3>2. ASSUME NEW r \in ForMe(u, rar), RaBecomes(u, TakeRar(ra[u], r)),
                   rar_grant' = [rar_grant EXCEPT ![u] = r]
            PROVE  ContentionEnds'
        <4>1. r \in Rnti /\ r # 0
          BY DEF RaTypeOK, ForMe, Rnti
        <4>2. EndInSight(TakeRar(ra[u], r), r)
          BY <2>0, <4>1 DEF EndInSight, TakeRar, RaType
        <4>3. rar_grant'[u] = r /\ \A v \in Ue \ {u} : rar_grant'[v] = rar_grant[v]
          BY <1>1, <3>2
        <4> QED
          BY <1>1, <3>2, <4>2, <4>3, OneEndInSight
      <3>3. CASE UNCHANGED <<ra, rar_grant>>
        BY <3>3 DEF ContentionEnds
      <3> QED
        BY <3>1, <3>2, <3>3
    <2>6. CASE SendMsg3(u)
      <3>1. RaBecomes(u, Msg3Get(ra[u])) /\ rar_grant' = [rar_grant EXCEPT ![u] = 0]
        BY <2>6 DEF SendMsg3
      <3>2. rar_grant'[u] = 0 /\ \A v \in Ue \ {u} : rar_grant'[v] = rar_grant[v]
        BY <1>1, <3>1
      <3>3. EndInSight(Msg3Get(ra[u]), 0)
        BY <2>0, EndsStayInSight
      <3> QED
        BY <1>1, <3>1, <3>2, <3>3, OneEndInSight
    <2>7. CASE HarqMaxRetx(u)
      BY <2>0, <2>1, <2>7, EndsStayInSight DEF HarqMaxRetx
    <2>10. CASE HarqRetx(u)
      BY <2>0, <2>1, <2>10, EndsStayInSight DEF HarqRetx
    <2>8. CASE ContentionResolutionIdReceived(u)
      <3>1. PICK p \in Preambles :
              RaBecomes(u, ContentionResolution(ra[u], conres_id[ra[u].temp_rnti] = u, p))
        BY <2>8 DEF ContentionResolutionIdReceived
      <3>2. (conres_id[ra[u].temp_rnti] = u) \in BOOLEAN
        OBVIOUS
      <3>3. EndInSight(ContentionResolution(ra[u], conres_id[ra[u].temp_rnti] = u, p), rar_grant[u])
        BY <2>0, <3>2, EndsStayInSight
      <3> QED
        BY <2>1, <2>8, <3>1, <3>3 DEF ContentionResolutionIdReceived
    <2>9. CASE PdcchReceived(u)
      BY <2>0, <2>1, <2>9, EndsStayInSight DEF PdcchReceived
    <2> QED
      BY <1>2, <2>2, <2>3, <2>4, <2>5, <2>6, <2>7, <2>8, <2>9, <2>10 DEF UeNext
  <1>3. CASE NextTti
    <2>1. PICK p \in [Ue -> Preambles] : ra' = [u \in Ue |-> RaStep(ra[u], tti, p[u])]
      BY <1>3 DEF NextTti
    <2>2. ASSUME NEW u \in Ue PROVE EndInSight(ra'[u], rar_grant'[u])
      <3>1. ra'[u] = RaStep(ra[u], tti, p[u]) /\ rar_grant'[u] = rar_grant[u]
        BY <1>3, <2>1 DEF NextTti
      <3>2. EndInSight(RaStep(ra[u], tti, p[u]), rar_grant[u])
        BY <1>1, EndsStayInSight
      <3> QED
        BY <3>1, <3>2
    <2> QED
      BY <2>2 DEF ContentionEnds, EndInSight
  <1>4. CASE DlSchedule \/ EnbNext \/ UNCHANGED vars
    <2>1. UNCHANGED <<ra, rar_grant>>
      BY <1>4 DEF DlSchedule, EnbNext, RachDetected, PrachMissed, RrcTtiClock,
                  ActivityTimerExpires, Msg4Ends, Msg3Lost, Msg3Decoded, vars
    <2> QED
      BY <2>1 DEF ContentionEnds
  <1> QED
    BY <1>2, <1>3, <1>4 DEF Next

(* A UE that waits for the end of the contention never waits without a timer that *)
(* runs, has expired or will be started (ra_proc::state_contention_resolution).   *)
THEOREM ContentionEndsHolds == Spec => []ContentionEnds
  <1>1. Init => ContentionEnds
    BY DEF Init, RaInit, ContentionEnds
  <1>2. RaInv => RaTypeOK
    BY DEF RaInv
  <1> QED
    BY <1>1, <1>2, ContentionEndsStep, RaInitInv, RaStepInv, PTL DEF Spec

-----------------------------------------------------------------------------
(* RarInTime.  A TTI of the cycle in which preambles may be sent, *)
OfPrach(t) == t \in 0 .. NofTtis - 1 /\ t % PrachPeriod = 0

(* the last TTI of the window counted from it, *)
Last == PRACH_RAR_OFFSET + prach_rar_window

(* and whether the TTI after the window is in the next cycle: such a window, *)
(* which RaSched does not see pass, has a TTI with room for its RAR.          *)
EndsLate(t) == t + Last + 1 >= NofTtis
FreeInTime ==
    /\ RachDelay <= PrachPeriod /\ NofTtis % PrachPeriod = 0 /\ RachDelay < Last
    /\ \A t \in 0 .. NofTtis - 1 :
          OfPrach(t) /\ EndsLate(t) =>
              \E d \in PRACH_RAR_OFFSET .. Last : d > RachDelay /\ (t + d) % NofTtis \notin NoRoom

(* A RAR that waits: if RaSched will not see its window pass, no TTI with room *)
(* has come since the preamble was detected.                                  *)
Waits(t) ==
    /\ OfPrach(t) /\ 1 <= Age(t)
    /\ Age(t) <= IF scheduled \/ EndsLate(t) THEN Last ELSE Last + 1
    /\ \A d \in PRACH_RAR_OFFSET .. Last :
          /\ EndsLate(t) /\ d > RachDelay
          /\ d < Age(t) \/ (scheduled /\ d = Age(t))
          => (t + d) % NofTtis \in NoRoom

TtisInCycle == tti \in 0 .. NofTtis - 1 /\ \A x \in prach : OfPrach(x.tti) /\ Age(x.tti) <= RachDelay
AllWait == \A i \in DOMAIN pending_rars : Waits(pending_rars[i].prach_tti)
OldestFirst ==
    \A k, i \in DOMAIN pending_rars :
        k < i => Age(pending_rars[k].prach_tti) > Age(pending_rars[i].prach_tti)
KeepsTime == TtisInCycle /\ AllWait /\ OldestFirst

(* The code's window fits a cycle. *)
LEMMA CycleIsLonger ==
    /\ NofTtis \in Nat \ {0} /\ PrachPeriod \in Nat \ {0} /\ RachDelay \in Nat \ {0}
    /\ Last \in Nat /\ Last > 3 /\ Last + 2 < NofTtis /\ SchedTtis = NofTtis
  BY RandomAccessAssumption, RaProcAssumption, RaSchedAssumption DEF Last, PRACH_RAR_OFFSET

(* TTIs added and taken away go round the cycle once. *)
LEMMA OnceRound ==
    ASSUME NEW a \in 0 .. NofTtis - 1, NEW b \in 0 .. NofTtis - 1
    PROVE  /\ (a + b) % NofTtis = IF a + b < NofTtis THEN a + b ELSE a + b - NofTtis
           /\ (a - b) % NofTtis = IF b <= a THEN a - b ELSE a - b + NofTtis
  BY CycleIsLonger

(* Ages, in cases. *)
LEMMA AgeOf ==
    ASSUME NEW now \in 0 .. NofTtis - 1, NEW t \in 0 .. NofTtis - 1
    PROVE  (now - t) % NofTtis = IF t <= now THEN now - t ELSE now - t + NofTtis
  BY OnceRound

(* What they are in the next TTI, and that they tell the TTIs apart. *)
LEMMA Ages ==
    ASSUME NEW now \in 0 .. NofTtis - 1, NEW t \in 0 .. NofTtis - 1
    PROVE  /\ (now - t) % NofTtis = IF t <= now THEN now - t ELSE now - t + NofTtis
           /\ (now - t) % NofTtis \in 0 .. NofTtis - 1
           /\ (now + 1) % NofTtis \in 0 .. NofTtis - 1
           /\ (now - t) % NofTtis < NofTtis - 1 =>
                 (((now + 1) % NofTtis) - t) % NofTtis = ((now - t) % NofTtis) + 1
           /\ (t + ((now - t) % NofTtis)) % NofTtis = now
           /\ (now - t) % NofTtis = 0 => now = t
  <1>0. NofTtis \in Nat \ {0}
    BY CycleIsLonger
  <1>1. (now - t) % NofTtis = IF t <= now THEN now - t ELSE now - t + NofTtis
    BY OnceRound
  <1>2. (now + 1) % NofTtis = IF now + 1 < NofTtis THEN now + 1 ELSE 0
    <2>1. 1 \in 0 .. NofTtis - 1
      BY CycleIsLonger
    <2> QED
      BY <1>0, <2>1, OnceRound
  <1> PICK a, m : a = (now - t) % NofTtis /\ m = (now + 1) % NofTtis
    OBVIOUS
  <1>3. a \in 0 .. NofTtis - 1 /\ m \in 0 .. NofTtis - 1 /\ (a = 0 => now = t)
    BY <1>0, <1>1, <1>2
  <1>4. (m - t) % NofTtis = IF t <= m THEN m - t ELSE m - t + NofTtis
    BY <1>3, OnceRound
  <1>5. a < NofTtis - 1 => (m - t) % NofTtis = a + 1
    BY <1>0, <1>1, <1>2, <1>4
  <1>6. (t + a) % NofTtis = IF t + a < NofTtis THEN t + a ELSE t + a - NofTtis
    BY <1>3, OnceRound
  <1>7. (t + a) % NofTtis = now
    BY <1>0, <1>1, <1>6
  <1> QED
    BY <1>1, <1>3, <1>5, <1>7

(* The base station's window is that of the ages from its offset to its last TTI. *)
LEMMA WindowByAge ==
    ASSUME NEW now \in 0 .. NofTtis - 1, NEW rar, rar.prach_tti \in 0 .. NofTtis - 1
    PROVE  InWindow(rar, now) <=> (now - rar.prach_tti) % NofTtis \in PRACH_RAR_OFFSET .. Last
  <1> PICK t, a : t = rar.prach_tti /\ a = (now - t) % NofTtis
    OBVIOUS
  <1>1. a = IF t <= now THEN now - t ELSE now - t + NofTtis
    BY Ages
  <1> PICK t1, t2 : t1 = (t + 3) % NofTtis /\ t2 = (t + Last) % NofTtis
    OBVIOUS
  <1>2. /\ t1 = IF t + 3 < NofTtis THEN t + 3 ELSE t + 3 - NofTtis
        /\ t2 = IF t + Last < NofTtis THEN t + Last ELSE t + Last - NofTtis
    <2>1. 3 \in 0 .. NofTtis - 1 /\ Last \in 0 .. NofTtis - 1
      BY CycleIsLonger
    <2> QED
      BY <2>1, OnceRound
  <1>3. InWindow(rar, now) <=> IF t1 <= t2 THEN t1 <= now /\ now <= t2 ELSE now >= t1 \/ now <= t2
    <2>1. WindowStart(rar) = t + 3 /\ WindowEnd(rar) = t + Last
      BY RaSchedAssumption DEF WindowStart, WindowEnd, Last, PRACH_RAR_OFFSET
    <2> QED
      BY <2>1, CycleIsLonger DEF InWindow, IsInTtiInterval
  <1>4. (IF t1 <= t2 THEN t1 <= now /\ now <= t2 ELSE now >= t1 \/ now <= t2) <=> a \in 3 .. Last
    BY <1>1, <1>2, CycleIsLonger
  <1> QED
    BY <1>3, <1>4 DEF PRACH_RAR_OFFSET

(* A window that does not end late is seen to have passed in the TTI after it. *)
LEMMA PassedByAge ==
    ASSUME NEW now \in 0 .. NofTtis - 1, NEW rar, rar.prach_tti \in 0 .. NofTtis - 1,
           ~EndsLate(rar.prach_tti), (now - rar.prach_tti) % NofTtis = Last + 1
    PROVE  PastWindow(rar, now)
  <1> PICK t : t = rar.prach_tti
    OBVIOUS
  <1>1. Last + 1 = IF t <= now THEN now - t ELSE now - t + NofTtis
    BY Ages
  <1>2. now >= t + Last
    BY <1>1, CycleIsLonger DEF EndsLate
  <1>3. WindowEnd(rar) = t + Last
    BY RaSchedAssumption DEF WindowStart, WindowEnd, Last, PRACH_RAR_OFFSET
  <1> QED
    BY <1>2, <1>3 DEF PastWindow

(* A multiple of the period lies in no interval of less than a period after 0. *)
LEMMA NoMultipleBetween ==
    ASSUME NEW n \in Nat \ {0}, NEW a \in Int
    PROVE  ~(0 < n * a /\ n * a < n)
  <1>1. CASE a <= 0
    BY <1>1
  <1>2. CASE a >= 1
    <2> PICK b \in Nat : a = b + 1
      BY <1>2
    <2>1. n * a = n * b + n /\ n * b >= 0
      OBVIOUS
    <2> QED
      BY <2>1
  <1> QED
    BY <1>1, <1>2

(* PRACH TTIs of one period are one. *)
LEMMA OnePerPeriod ==
    ASSUME NEW now \in 0 .. NofTtis - 1, NEW t, NEW u, OfPrach(t), OfPrach(u),
           NofTtis % PrachPeriod = 0, (now - t) % NofTtis < (now - u) % NofTtis
    PROVE  ((now - u) % NofTtis) - ((now - t) % NofTtis) >= PrachPeriod
  <1>1. t \in 0 .. NofTtis - 1 /\ u \in 0 .. NofTtis - 1
    BY DEF OfPrach
  <1> PICK a, b : a = (now - t) % NofTtis /\ b = (now - u) % NofTtis
    OBVIOUS
  <1>2. /\ a = IF t <= now THEN now - t ELSE now - t + NofTtis
        /\ b = IF u <= now THEN now - u ELSE now - u + NofTtis
    BY <1>1, Ages
  <1>3. b - a = t - u \/ b - a = t - u + NofTtis \/ b - a = t - u - NofTtis
    BY <1>1, <1>2, CycleIsLonger
  <1> PICK P : P = PrachPeriod
    OBVIOUS
  <1>4. P \in Nat \ {0} /\ t % P = 0 /\ u % P = 0 /\ NofTtis % P = 0
    BY CycleIsLonger DEF OfPrach
  <1> PICK x, y, z : x = t \div P /\ y = u \div P /\ z = NofTtis \div P
    OBVIOUS
  <1>5. /\ t = P * x /\ u = P * y /\ NofTtis = P * z
        /\ x \in Int /\ y \in Int /\ z \in Int
    BY <1>1, <1>4, CycleIsLonger
  <1>6. /\ P * x - P * y = P * (x - y)
        /\ P * x - P * y + P * z = P * (x - y + z) /\ P * x - P * y - P * z = P * (x - y - z)
    BY <1>4, <1>5
  <1>7. b - a = P * (x - y) \/ b - a = P * (x - y + z) \/ b - a = P * (x - y - z)
    BY <1>3, <1>5, <1>6
  <1>8. \E m \in Int : b - a = P * m
    <2>1. x - y \in Int /\ x - y + z \in Int /\ x - y - z \in Int
      BY <1>5
    <2> QED
      BY <1>7, <2>1
  <1>9. PICK m \in Int : b - a = P * m
    BY <1>8
  <1>10. a \in Int /\ b \in Int /\ a < b
    BY <1>1, <1>2, CycleIsLonger
  <1>11. ~(0 < b - a /\ b - a < P)
    BY <1>4, <1>9, NoMultipleBetween
  <1>12. b - a >= P
    BY <1>4, <1>10, <1>11
  <1> QED
    BY <1>12
-----------------------------------------------------------------------------
(* The RARs that are left when those in front were taken away, or grants of some. *)
LEMMA RarsStay ==
    ASSUME KeepsTime, UNCHANGED <<tti, scheduled>>, TtisInCycle',
           NEW s \in Nat, DOMAIN pending_rars' \subseteq Nat,
           \A i \in DOMAIN pending_rars' :
              /\ i + s \in DOMAIN pending_rars
              /\ pending_rars'[i].prach_tti = pending_rars[i + s].prach_tti
    PROVE  KeepsTime'
  <1>1. \A t : Waits(t)' <=> Waits(t)
    BY DEF Waits, Age
  <1>2. AllWait'
    BY <1>1 DEF KeepsTime, AllWait
  <1>3. OldestFirst'
    <2> SUFFICES ASSUME NEW k \in DOMAIN pending_rars', NEW i \in DOMAIN pending_rars', k < i
                 PROVE  (Age(pending_rars[k].prach_tti) > Age(pending_rars[i].prach_tti))'
      BY DEF OldestFirst
    <2>1. k + s < i + s
      OBVIOUS
    <2>2. Age(pending_rars[k + s].prach_tti) > Age(pending_rars[i + s].prach_tti)
      BY <2>1 DEF KeepsTime, OldestFirst
    <2> QED
      BY <2>2 DEF Age
  <1> QED
    BY <1>2, <1>3 DEF KeepsTime

(* A preamble that is detected in time joins the RAR of its PRACH, or is the last *)
(* to be answered.                                                                *)
LEMMA DetectedInTime ==
    ASSUME FreeInTime, RaTypeOK, KeepsTime, NEW x \in prach, x.tti # tti, NEW r \in Rnti,
           DlRachInfo(x.tti, r), UNCHANGED <<tti, scheduled>>, prach' \subseteq prach
    PROVE  KeepsTime'
  <1>0. TtisInCycle /\ TtisInCycle' /\ AllWait /\ OldestFirst
    BY DEF KeepsTime, TtisInCycle, Age
  <1>1. /\ pending_rars \in Seq(Grants)
        /\ DOMAIN pending_rars = 1 .. Len(pending_rars) /\ Len(pending_rars) \in Nat
    BY PendingRars DEF RaTypeOK
  <1>2. OfPrach(x.tti) /\ Age(x.tti) <= RachDelay /\ tti \in 0 .. NofTtis - 1
    BY <1>0 DEF TtisInCycle
  <1>3. x.tti \in 0 .. NofTtis - 1 /\ x.tti \in Numbers
    BY <1>2, CycleIsLonger DEF OfPrach, Numbers
  <1>4. Age(x.tti) \in 0 .. NofTtis - 1 /\ Age(x.tti) # 0
    BY <1>2, <1>3, Ages DEF Age
  <1>5. CASE \E n \in DOMAIN pending_rars : pending_rars' = [pending_rars EXCEPT ![n].grants = @ \cup {r}]
    <2>1. PICK n \in DOMAIN pending_rars : pending_rars' = [pending_rars EXCEPT ![n].grants = @ \cup {r}]
      BY <1>5
    <2>2. DOMAIN pending_rars' = DOMAIN pending_rars
      BY <2>1
    <2>3. \A i \in DOMAIN pending_rars' : pending_rars'[i].prach_tti = pending_rars[i].prach_tti
      <3> TAKE i \in DOMAIN pending_rars'
      <3>1. pending_rars[i] \in Grants
        BY <2>2, PendingRars
      <3>2. pending_rars'[i] = IF i = n THEN [pending_rars[i] EXCEPT !.grants = @ \cup {r}] ELSE pending_rars[i]
        BY <2>1, <2>2
      <3> QED
        BY <3>1, <3>2 DEF Grants
    <2>4. /\ DOMAIN pending_rars' \subseteq Nat
          /\ \A i \in DOMAIN pending_rars' :
                /\ i + 0 \in DOMAIN pending_rars
                /\ pending_rars'[i].prach_tti = pending_rars[i + 0].prach_tti
      BY <1>1, <2>2, <2>3
    <2> QED
      BY <1>0, <2>4, RarsStay
  <1>6. CASE /\ {i \in DOMAIN pending_rars : pending_rars[i].prach_tti = x.tti} = {}
             /\ pending_rars' = Append(pending_rars, [prach_tti |-> x.tti, grants |-> {r}])
    <2> DEFINE new == [prach_tti |-> x.tti, grants |-> {r}]
    <2>1. new \in Grants /\ new.prach_tti = x.tti
      BY <1>3 DEF Grants
    <2> HIDE DEF new
    <2>2. /\ DOMAIN pending_rars' = 1 .. Len(pending_rars) + 1
          /\ \A i \in 1 .. Len(pending_rars) : pending_rars'[i] = pending_rars[i]
          /\ pending_rars'[Len(pending_rars) + 1] = new
      BY <1>1, <1>6, <2>1, AppendProperties DEF new
    <2>3. \A t : Waits(t)' <=> Waits(t)
      BY DEF Waits, Age
    <2>4. Waits(x.tti)
      <3>1. Age(x.tti) <= Last /\ Age(x.tti) <= Last + 1 /\ 1 <= Age(x.tti)
        BY <1>2, <1>4, CycleIsLonger DEF FreeInTime
      <3>2. \A d \in PRACH_RAR_OFFSET .. Last : d > RachDelay => ~(d < Age(x.tti)) /\ d # Age(x.tti)
        BY <1>2, <1>4, CycleIsLonger DEF PRACH_RAR_OFFSET
      <3> QED
        BY <1>2, <3>1, <3>2 DEF Waits
    <2>5. AllWait'
      <3> SUFFICES ASSUME NEW i \in DOMAIN pending_rars' PROVE Waits(pending_rars'[i].prach_tti)
        BY <2>3 DEF AllWait
      <3>1. CASE i = Len(pending_rars) + 1
        BY <2>1, <2>2, <2>4, <3>1
      <3>2. CASE i \in DOMAIN pending_rars
        BY <1>0, <1>1, <2>2, <3>2 DEF AllWait
      <3> QED
        BY <1>1, <2>2, <3>1, <3>2
    <2>6. ASSUME NEW k \in DOMAIN pending_rars
          PROVE  Age(pending_rars[k].prach_tti) > Age(x.tti)
      <3> PICK t : t = pending_rars[k].prach_tti
        OBVIOUS
      <3>1. OfPrach(t) /\ 1 <= Age(t) /\ t # x.tti
        BY <1>0, <1>6 DEF AllWait, Waits
      <3>2. t \in 0 .. NofTtis - 1
        BY <3>1 DEF OfPrach
      <3>3. Age(t) \in 0 .. NofTtis - 1 /\ (t + Age(t)) % NofTtis = tti
        BY <1>2, <3>2, Ages DEF Age
      <3>4. Age(t) # Age(x.tti)
        <4>1. /\ Age(t) = IF t <= tti THEN tti - t ELSE tti - t + NofTtis
              /\ Age(x.tti) = IF x.tti <= tti THEN tti - x.tti ELSE tti - x.tti + NofTtis
          <5>0. Age(t) = (tti - t) % NofTtis /\ Age(x.tti) = (tti - x.tti) % NofTtis
            BY DEF Age
          <5>1. Age(t) = IF t <= tti THEN tti - t ELSE tti - t + NofTtis
            BY <1>2, <3>2, <5>0, AgeOf
          <5>2. Age(x.tti) = IF x.tti <= tti THEN tti - x.tti ELSE tti - x.tti + NofTtis
            BY <1>2, <1>3, <5>0, AgeOf
          <5> QED
            BY <5>1, <5>2
        <4> QED
          BY <1>2, <1>3, <3>1, <3>2, <4>1, CycleIsLonger
      <3>5. ~(Age(t) < Age(x.tti))
        <4> SUFFICES ASSUME Age(t) < Age(x.tti) PROVE FALSE
          OBVIOUS
        <4>1. Age(x.tti) - Age(t) >= PrachPeriod
          BY <1>2, <3>1, OnePerPeriod DEF Age, FreeInTime
        <4> QED
          BY <1>2, <1>4, <3>1, <3>3, <4>1, CycleIsLonger DEF FreeInTime
      <3> QED
        BY <1>4, <3>3, <3>4, <3>5, CycleIsLonger
    <2>7. OldestFirst'
      <3> SUFFICES ASSUME NEW k \in DOMAIN pending_rars', NEW i \in DOMAIN pending_rars', k < i
                   PROVE  Age(pending_rars'[k].prach_tti) > Age(pending_rars'[i].prach_tti)
        BY DEF OldestFirst, Age
      <3>1. k \in DOMAIN pending_rars /\ pending_rars'[k] = pending_rars[k]
        BY <1>1, <2>2
      <3>2. CASE i = Len(pending_rars) + 1
        BY <2>1, <2>2, <2>6, <3>1, <3>2
      <3>3. CASE i \in DOMAIN pending_rars
        BY <1>0, <1>1, <2>2, <3>1, <3>3 DEF OldestFirst
      <3> QED
        BY <1>1, <2>2, <3>2, <3>3
    <2> QED
      BY <1>0, <2>5, <2>7 DEF KeepsTime
  <1> QED
    BY <1>5, <1>6 DEF DlRachInfo

(* The scheduler leaves no RAR behind another whose window has begun, unless the *)
(* grid is full.                                                                *)
LEMMA ScheduledInTime ==
    ASSUME RaTypeOK, KeepsTime, DlSchedule
    PROVE  KeepsTime'
  <1> USE DEF airvars
  <1>0. TtisInCycle /\ AllWait /\ OldestFirst /\ tti \in 0 .. NofTtis - 1
    BY DEF KeepsTime, TtisInCycle
  <1>1. UNCHANGED <<tti, prach>> /\ TtisInCycle'
    BY <1>0 DEF DlSchedule, TtisInCycle, Age
  <1>2. /\ pending_rars \in Seq(Grants)
        /\ DOMAIN pending_rars = 1 .. Len(pending_rars) /\ Len(pending_rars) \in Nat
    BY PendingRars DEF RaTypeOK
  <1>3. pending_rars # <<>> =>
            /\ DOMAIN Tail(pending_rars) \subseteq Nat
            /\ \A i \in DOMAIN Tail(pending_rars) :
                  i + 1 \in DOMAIN pending_rars /\ Tail(pending_rars)[i] = pending_rars[i + 1]
    BY <1>2, HeadTailProperties
  <1>4. pending_rars # <<>> => 1 \in DOMAIN pending_rars /\ Front = pending_rars[1] /\ Front \in Grants
    BY <1>2, PendingRars DEF Front
  <1>5. CASE pending_rars # <<>> /\ pending_rars' = Tail(pending_rars) /\ UNCHANGED scheduled
    BY <1>1, <1>3, <1>5, RarsStay
  <1>6. CASE AllocRar(tti)
    <2>1. PICK sent : pending_rars' = IF sent = Front.grants THEN Tail(pending_rars)
                                      ELSE [pending_rars EXCEPT ![1].grants = @ \ sent]
      BY <1>6 DEF AllocRar
    <2>2. pending_rars # <<>> /\ UNCHANGED scheduled
      BY <1>6 DEF AllocRar
    <2>3. CASE sent # Front.grants
      <3>1. DOMAIN pending_rars' = DOMAIN pending_rars
        BY <2>1, <2>3
      <3>2. \A i \in DOMAIN pending_rars' : pending_rars'[i].prach_tti = pending_rars[i].prach_tti
        <4> TAKE i \in DOMAIN pending_rars'
        <4>1. pending_rars[i] \in Grants
          BY <3>1, PendingRars
        <4>2. pending_rars'[i] = IF i = 1 THEN [pending_rars[i] EXCEPT !.grants = @ \ sent] ELSE pending_rars[i]
          BY <2>1, <2>3, <3>1
        <4> QED
          BY <4>1, <4>2 DEF Grants
      <3>3. /\ DOMAIN pending_rars' \subseteq Nat
            /\ \A i \in DOMAIN pending_rars' :
                  /\ i + 0 \in DOMAIN pending_rars
                  /\ pending_rars'[i].prach_tti = pending_rars[i + 0].prach_tti
        BY <1>2, <3>1, <3>2
      <3> QED
        BY <1>1, <2>2, <3>3, RarsStay
    <2> QED
      BY <1>5, <2>1, <2>2, <2>3
  <1>7. CASE NoMoreRars(tti)
    <2>1. UNCHANGED pending_rars /\ scheduled' = TRUE /\ ~scheduled
      BY <1>7 DEF NoMoreRars
    <2>2. ASSUME NEW i \in DOMAIN pending_rars PROVE Waits(pending_rars[i].prach_tti)'
      <3> PICK t, f : t = pending_rars[i].prach_tti /\ f = Front.prach_tti
        OBVIOUS
      <3>1. pending_rars # <<>> /\ Front = pending_rars[1] /\ 1 \in DOMAIN pending_rars /\ 1 <= i
        BY <1>2, <1>4
      <3>2. Waits(t) /\ Waits(f)
        BY <1>0, <3>1 DEF AllWait
      <3>3. t \in 0 .. NofTtis - 1 /\ f \in 0 .. NofTtis - 1
        BY <3>2 DEF Waits, OfPrach
      <3>4. /\ Age(t) \in 0 .. NofTtis - 1 /\ Age(f) \in 0 .. NofTtis - 1
            /\ (t + Age(t)) % NofTtis = tti
        BY <1>0, <3>3, Ages DEF Age
      <3>5. (i = 1 /\ t = f) \/ Age(f) > Age(t)
        <4>1. CASE i = 1
          BY <3>1, <4>1
        <4>2. CASE i # 1
          <5>1. 1 < i
            BY <1>2, <3>1, <4>2
          <5>2. Age(pending_rars[1].prach_tti) > Age(pending_rars[i].prach_tti)
            BY <1>0, <3>1, <5>1 DEF OldestFirst
          <5> QED
            BY <3>1, <5>2
        <4> QED
          BY <4>1, <4>2
      <3>6. InWindow(Front, tti) <=> Age(f) \in PRACH_RAR_OFFSET .. Last
        BY <1>0, <3>3, WindowByAge DEF Age
      <3>7. Age(f) # Last + 1
        <4> SUFFICES ASSUME Age(f) = Last + 1 PROVE FALSE
          OBVIOUS
        <4>1. ~EndsLate(f)
          BY <2>1, <3>2, CycleIsLonger DEF Waits
        <4>2. PastWindow(Front, tti)
          BY <1>0, <3>3, <4>1, PassedByAge DEF Age
        <4>3. ~InWindow(Front, tti)
          BY <3>6, CycleIsLonger
        <4> QED
          BY <1>7, <3>1, <4>2, <4>3 DEF NoMoreRars
      <3>8. Age(f) <= Last /\ Age(t) <= Last
        <4>1. Age(f) <= Last + 1
          BY <3>2, <3>4, CycleIsLonger DEF Waits
        <4> QED
          BY <3>4, <3>5, <3>7, <4>1, CycleIsLonger
      <3>9. Age(t) >= PRACH_RAR_OFFSET => tti \in NoRoom
        <4> SUFFICES ASSUME Age(t) >= PRACH_RAR_OFFSET PROVE tti \in NoRoom
          OBVIOUS
        <4>1. Age(f) \in PRACH_RAR_OFFSET .. Last
          BY <3>4, <3>5, <3>8, CycleIsLonger DEF PRACH_RAR_OFFSET
        <4> QED
          BY <1>7, <3>1, <3>6, <4>1 DEF NoMoreRars
      <3>10. \A d \in PRACH_RAR_OFFSET .. Last :
                EndsLate(t) /\ d > RachDelay /\ (d < Age(t) \/ d = Age(t)) => (t + d) % NofTtis \in NoRoom
        <4> TAKE d \in PRACH_RAR_OFFSET .. Last
        <4>1. CASE d = Age(t)
          <5>1. Age(t) >= PRACH_RAR_OFFSET
            BY <3>4, <4>1 DEF PRACH_RAR_OFFSET
          <5> QED
            BY <3>4, <3>9, <4>1, <5>1
        <4>2. CASE d # Age(t)
          BY <3>2, <4>2 DEF Waits
        <4> QED
          BY <4>1, <4>2
      <3>11. Age(t)' = Age(t)
        BY <1>1 DEF Age
      <3>12. OfPrach(t) /\ 1 <= Age(t)
        BY <3>2 DEF Waits
      <3>13. Waits(t)'
        BY <1>1, <2>1, <3>8, <3>10, <3>11, <3>12 DEF Waits
      <3> QED
        BY <2>1, <3>13
    <2>3. AllWait' /\ OldestFirst'
      BY <1>0, <1>1, <2>1, <2>2 DEF AllWait, OldestFirst, Age
    <2> QED
      BY <1>1, <2>3 DEF KeepsTime
  <1> QED
    BY <1>5, <1>6, <1>7 DEF DlSchedule, DlSched, Discard

(* Ages grow together, and a RAR in the last TTI of a window that ends late was *)
(* sent in one with room.                                                       *)
LEMMA NextTtiInTime ==
    ASSUME FreeInTime, RaTypeOK, KeepsTime, NextTti
    PROVE  KeepsTime'
  <1> USE DEF airvars
  <1>0. TtisInCycle /\ AllWait /\ OldestFirst /\ tti \in 0 .. NofTtis - 1
    BY DEF KeepsTime, TtisInCycle
  <1>1. /\ UNCHANGED <<pending_rars, prach>> /\ scheduled /\ scheduled' = FALSE
        /\ tti' = (tti + 1) % NofTtis /\ \A x \in prach : Age(x.tti) < RachDelay
    BY DEF NextTti, NextResult
  <1>2. ASSUME NEW t, OfPrach(t), Age(t) <= Last
        PROVE  Age(t)' = Age(t) + 1 /\ Age(t) \in 0 .. NofTtis - 1
    <2>1. t \in 0 .. NofTtis - 1
      BY <1>2 DEF OfPrach
    <2>2. Age(t) \in 0 .. NofTtis - 1
      BY <1>0, <2>1, Ages DEF Age
    <2>3. Age(t) < NofTtis - 1
      BY <1>2, <2>2, CycleIsLonger
    <2>4. (((tti + 1) % NofTtis) - t) % NofTtis = Age(t) + 1
      BY <1>0, <2>1, <2>3, Ages DEF Age
    <2> QED
      BY <1>1, <2>2, <2>4 DEF Age
  <1>3. TtisInCycle'
    <2>1. tti' \in 0 .. NofTtis - 1
      <3>1. 0 \in 0 .. NofTtis - 1
        BY CycleIsLonger
      <3> QED
        BY <1>0, <1>1, <3>1, Ages
    <2>2. ASSUME NEW x \in prach PROVE OfPrach(x.tti) /\ Age(x.tti)' <= RachDelay
      <3>1. OfPrach(x.tti) /\ Age(x.tti) < RachDelay /\ x.tti \in 0 .. NofTtis - 1
        BY <1>0, <1>1 DEF TtisInCycle, OfPrach
      <3>2. Age(x.tti) \in 0 .. NofTtis - 1
        BY <1>0, <3>1, Ages DEF Age
      <3>3. Age(x.tti) <= Last
        BY <3>1, <3>2, CycleIsLonger DEF FreeInTime
      <3> QED
        BY <1>2, <3>1, <3>2, <3>3, CycleIsLonger
    <2> QED
      BY <1>1, <2>1, <2>2 DEF TtisInCycle
  <1>4. ASSUME NEW i \in DOMAIN pending_rars, NEW t, t = pending_rars[i].prach_tti
        PROVE  Waits(t)' /\ Age(t)' = Age(t) + 1 /\ Age(t) \in 0 .. NofTtis - 1
    <2>1. Waits(t) /\ OfPrach(t) /\ 1 <= Age(t) /\ Age(t) <= Last
      BY <1>0, <1>1, <1>4 DEF AllWait, Waits
    <2>2. Age(t)' = Age(t) + 1 /\ Age(t) \in 0 .. NofTtis - 1
      BY <1>2, <2>1
    <2>3. EndsLate(t) => Age(t) + 1 <= Last
      <3> SUFFICES ASSUME EndsLate(t), Age(t) = Last PROVE FALSE
        BY <2>1, <2>2, CycleIsLonger
      <3>1. PICK d \in PRACH_RAR_OFFSET .. Last : d > RachDelay /\ (t + d) % NofTtis \notin NoRoom
        BY <2>1 DEF FreeInTime, OfPrach
      <3>2. d < Age(t) \/ d = Age(t)
        BY CycleIsLonger DEF PRACH_RAR_OFFSET
      <3> QED
        BY <1>1, <2>1, <3>1, <3>2 DEF Waits
    <2>4. \A d \in PRACH_RAR_OFFSET .. Last :
             EndsLate(t) /\ d > RachDelay /\ d < Age(t)' => (t + d) % NofTtis \in NoRoom
      <3> TAKE d \in PRACH_RAR_OFFSET .. Last
      <3>1. d < Age(t)' => d < Age(t) \/ d = Age(t)
        BY <2>2, CycleIsLonger DEF PRACH_RAR_OFFSET
      <3> QED
        BY <1>1, <2>1, <3>1 DEF Waits
    <2>5. 1 <= Age(t)' /\ Age(t)' <= IF EndsLate(t) THEN Last ELSE Last + 1
      BY <2>1, <2>2, <2>3, CycleIsLonger
    <2>6. Waits(t)'
      BY <1>1, <2>1, <2>4, <2>5 DEF Waits
    <2> QED
      BY <2>2, <2>6
  <1>5. AllWait'
    BY <1>1, <1>4 DEF AllWait
  <1>6. OldestFirst'
    <2> SUFFICES ASSUME NEW k \in DOMAIN pending_rars, NEW i \in DOMAIN pending_rars, k < i
                 PROVE  (Age(pending_rars[k].prach_tti) > Age(pending_rars[i].prach_tti))'
      BY <1>1 DEF OldestFirst
    <2> PICK t, u : t = pending_rars[k].prach_tti /\ u = pending_rars[i].prach_tti
      OBVIOUS
    <2>1. Age(t) > Age(u)
      BY <1>0 DEF OldestFirst
    <2>2. /\ Age(t)' = Age(t) + 1 /\ Age(t) \in 0 .. NofTtis - 1
          /\ Age(u)' = Age(u) + 1 /\ Age(u) \in 0 .. NofTtis - 1
      BY <1>4
    <2>3. Age(t)' > Age(u)'
      BY <2>1, <2>2
    <2>4. t = pending_rars'[k].prach_tti /\ u = pending_rars'[i].prach_tti
      BY <1>1
    <2> QED
      BY <2>3, <2>4 DEF Age
  <1> QED
    BY <1>3, <1>5, <1>6 DEF KeepsTime

LEMMA KeepsTimeInit == Init => KeepsTime
  <1> SUFFICES ASSUME Init PROVE KeepsTime
    OBVIOUS
  <1>1. tti \in 0 .. NofTtis - 1 /\ prach = {} /\ DOMAIN pending_rars = {}
    BY CycleIsLonger DEF Init, RaSchedInit
  <1> QED
    BY <1>1 DEF KeepsTime, TtisInCycle, AllWait, OldestFirst

LEMMA KeepsTimeStep ==
    ASSUME FreeInTime, RaTypeOK, KeepsTime, [Next]_vars
    PROVE  KeepsTime'
  <1> USE DEF uevars, enbvars, airvars, rasvars
  <1>0. TtisInCycle /\ tti \in 0 .. NofTtis - 1
    BY DEF KeepsTime, TtisInCycle
  <1>1. CASE DlSchedule
    BY <1>1, ScheduledInTime
  <1>2. CASE NextTti
    BY <1>2, NextTtiInTime
  <1>3. CASE RachDetected
    <2>1. PICK x \in prach : x.tti # tti /\ prach' = prach \ {x} /\ DlRachInfo(x.tti, NextRnti)
      BY <1>3 DEF RachDetected
    <2>2. UNCHANGED <<tti, scheduled>> /\ Unused # {}
      BY <1>3 DEF RachDetected
    <2> QED
      BY <2>1, <2>2, NextRntiUnused, DetectedInTime
  <1>4. ASSUME UNCHANGED <<tti, pending_rars, scheduled>>, TtisInCycle' PROVE KeepsTime'
    BY <1>4 DEF KeepsTime, AllWait, OldestFirst, Waits, Age
  <1>5. ASSUME NEW u \in Ue, SendPrach(u) PROVE KeepsTime'
    <2>1. /\ tti % PrachPeriod = 0 /\ UNCHANGED <<tti, pending_rars, scheduled>>
          /\ \A x \in prach' : x \in prach \/ x.tti = tti
      BY <1>5 DEF SendPrach
    <2>2. OfPrach(tti) /\ Age(tti) = 0
      BY <1>0, <2>1, Ages, CycleIsLonger DEF OfPrach, Age
    <2>3. TtisInCycle'
      BY <1>0, <2>1, <2>2, CycleIsLonger DEF TtisInCycle, Age
    <2> QED
      BY <1>4, <2>1, <2>3
  <1>6. ASSUME UNCHANGED <<tti, pending_rars, scheduled>>, prach' \subseteq prach PROVE KeepsTime'
    <2>1. TtisInCycle'
      BY <1>0, <1>6 DEF TtisInCycle, Age
    <2> QED
      BY <1>4, <1>6, <2>1
  <1>7. CASE \E u \in Ue : UeNext(u)
    <2> PICK u \in Ue : UeNext(u)
      BY <1>7
    <2>1. SendPrach(u) \/ UNCHANGED <<tti, pending_rars, scheduled, prach>>
      BY DEF UeNext, Start, TimerExpires, TimerCallback, Reset, FindRar, TbDecodedOk, SendMsg3,
             HarqRetx, HarqMaxRetx, ContentionResolutionIdReceived, PdcchReceived
    <2> QED
      BY <1>5, <1>6, <2>1
  <1>8. CASE EnbNext /\ ~RachDetected
    <2>1. UNCHANGED <<tti, pending_rars, scheduled>> /\ prach' \subseteq prach
      BY <1>8 DEF EnbNext, PrachMissed, RrcTtiClock, ActivityTimerExpires, Msg4Ends, Msg3Lost,
                  Msg3Decoded
    <2> QED
      BY <1>6, <2>1
  <1>9. CASE UNCHANGED vars
    BY <1>6, <1>9 DEF vars
  <1> QED
    BY <1>1, <1>2, <1>3, <1>7, <1>8, <1>9 DEF Next

(* No RAR waits past its window (ra_sched::dl_sched), for any PRACH period, window, *)
(* delay and cycle that fit: preambles are detected within a period, and a window   *)
(* whose end the scheduler does not see, because the next TTI is in the next cycle, *)
(* has a TTI with room.  All other windows may be full from end to end.             *)
THEOREM RarInTimeHolds == FreeInTime => (Spec => []RarInTime)
  <1> SUFFICES ASSUME FreeInTime PROVE Spec => []RarInTime
    OBVIOUS
  <1>1. KeepsTime => RarInTime
    BY DEF KeepsTime, AllWait, Waits, RarInTime, Last
  <1>2. RaInv => RaTypeOK
    BY DEF RaInv
  <1>3. RaInv /\ KeepsTime /\ [Next]_vars => KeepsTime'
    BY <1>2, KeepsTimeStep
  <1> QED
    BY <1>1, <1>3, KeepsTimeInit, RaInitInv, RaStepInv, PTL DEF Spec

-----------------------------------------------------------------------------
(* RarIsAnswer.  A UE that has sent its preamble and waits for the answer, *)
Trying(s) == s.state = "RESPONSE_RECEPTION" \/ (s.state = "PDCCH_SETUP" /\ s.ra_tti # Pending)
Tries(u, t, p) == Trying(ra[u]) /\ ra[u].ra_tti = t /\ ra[u].preamble = p

(* and whom it has not forgotten after the window. *)
TriesInTime ==
    \A u \in Ue : Trying(ra[u]) =>
        /\ OfPrach(ra[u].ra_tti)
        /\ Age(ra[u].ra_tti) <= IF ra[u].state = "PDCCH_SETUP" THEN 0 ELSE Last

(* The preamble on the air is that of all who have sent it, *)
Heard ==
    /\ \A x \in prach : \A u \in Ue : Tries(u, x.tti, x.preamble) => u \in x.by
    /\ \A u \in Ue : Trying(ra[u]) /\ Age(ra[u].ra_tti) = 0 =>
          \E x \in prach : x.tti = ra[u].ra_tti /\ x.preamble = ra[u].preamble

(* and so is each grant of a RAR. *)
Answers(rar) == \A r \in rar.grants : \A u \in Ue : Tries(u, rar.prach_tti, of[r].preamble) => u \in of[r].by
Answered ==
    /\ \A i \in DOMAIN pending_rars : Answers(pending_rars[i])
    /\ \A rar \in rar_allocs :
          Answers(rar) /\ OfPrach(rar.prach_tti) /\ Age(rar.prach_tti) \in PRACH_RAR_OFFSET .. Last

Preamble == [preamble : Preambles \cup {0}, by : SUBSET Ue]
AnswerInv == of \in [Rnti -> Preamble] /\ TriesInTime /\ Heard /\ Answered

(* The windows of two PRACHs do not overlap, and the UE's is shorter than a cycle. *)
WindowsApart == prach_rar_window < PrachPeriod /\ Last + 4 < NofTtis

(* The procedure forgets its preamble or keeps it. *)
KeepsTry(s, t) == Trying(t) => t.state = s.state /\ t.ra_tti = s.ra_tti /\ t.preamble = s.preamble

LEMMA ProcedureKeepsTry ==
    ASSUME NEW s \in RaType, NEW p
    PROVE  /\ KeepsTry(s, StartMacOrder(s, p)) /\ KeepsTry(s, TimerMarked(s))
           /\ KeepsTry(s, TimerExpired(s, p)) /\ KeepsTry(s, HarqRetxTimer(s))
           /\ KeepsTry(s, MacReset(s)) /\ KeepsTry(s, Msg3Get(s))
           /\ KeepsTry(s, ResponseError(s, p)) /\ KeepsTry(s, PdcchToCrnti(s))
           /\ \A mine \in BOOLEAN : KeepsTry(s, ContentionResolution(s, mine, p))
           /\ \A r : KeepsTry(s, TakeRar(s, r))
  <1> USE DEF KeepsTry, Trying, RaType
  <1>1. ASSUME NEW t \in RaType PROVE ~Trying(ResponseError(t, p))
    <2>1. CASE t.tries + 1 > preambleTransMax
      BY <2>1 DEF ResponseError
    <2>2. CASE ~(t.tries + 1 > preambleTransMax)
      BY <2>2 DEF ResponseError, PreambleTransmission
    <2> QED
      BY <2>1, <2>2
  <1>2. KeepsTry(s, StartMacOrder(s, p))
    BY DEF StartMacOrder, PreambleTransmission
  <1>3. /\ KeepsTry(s, TimerMarked(s)) /\ KeepsTry(s, HarqRetxTimer(s))
        /\ KeepsTry(s, MacReset(s)) /\ KeepsTry(s, Msg3Get(s))
    BY DEF TimerMarked, HarqRetxTimer, MacReset, Msg3Get
  <1>4. KeepsTry(s, TimerExpired(s, p))
    <2> PICK t : t = [s EXCEPT !.expiring = FALSE]
      OBVIOUS
    <2>1. t \in RaType
      OBVIOUS
    <2> QED
      BY <1>1, <2>1 DEF TimerExpired
  <1>5. ASSUME NEW t \in RaType PROVE ~Trying(Complete(t))
    BY DEF Complete
  <1>6. [s EXCEPT !.timer = FALSE] \in RaType
    OBVIOUS
  <1>7. KeepsTry(s, PdcchToCrnti(s))
    BY <1>5, <1>6 DEF PdcchToCrnti
  <1>8. \A mine \in BOOLEAN : KeepsTry(s, ContentionResolution(s, mine, p))
    BY <1>1, <1>5, <1>6 DEF ContentionResolution
  <1>9. \A r : KeepsTry(s, TakeRar(s, r))
    BY DEF TakeRar
  <1> QED
    BY <1>1, <1>2, <1>3, <1>4, <1>7, <1>8, <1>9

(* The step of the procedure does not go on with a preamble whose window is over. *)
LEMMA StepKeepsTry ==
    ASSUME NEW s \in RaType, NEW now, NEW p
    PROVE  Trying(RaStep(s, now, p)) =>
              /\ Trying(s) /\ RaStep(s, now, p).state = "RESPONSE_RECEPTION"
              /\ RaStep(s, now, p).ra_tti = s.ra_tti /\ RaStep(s, now, p).preamble = s.preamble
              /\ s.state = "RESPONSE_RECEPTION" => ~WindowOver(s, now)
  <1> USE DEF Trying, RaType
  <1>1. ~Trying(ResponseError(s, p))
    <2>1. CASE s.tries + 1 > preambleTransMax
      BY <2>1 DEF ResponseError
    <2>2. CASE ~(s.tries + 1 > preambleTransMax)
      BY <2>2 DEF ResponseError, PreambleTransmission
    <2> QED
      BY <2>1, <2>2
  <1>2. CASE s.state = "PDCCH_SETUP"
    BY <1>2 DEF RaStep
  <1>3. CASE s.state = "RESPONSE_RECEPTION"
    BY <1>1, <1>3 DEF RaStep
  <1>4. CASE s.state \notin {"PDCCH_SETUP", "RESPONSE_RECEPTION"}
    BY <1>4 DEF RaStep, StateContentionResolution
  <1> QED
    BY <1>2, <1>3, <1>4

(* The UE's window is one TTI longer than the base station's, and not over before. *)
LEMMA UeWindow ==
    ASSUME WindowsApart, NEW now \in 0 .. NofTtis - 1, NEW s, s.ra_tti \in 0 .. NofTtis - 1
    PROVE  /\ InRarWindow(s, now) => (now - s.ra_tti) % NofTtis \in 3 .. Last + 4
           /\ (now - s.ra_tti) % NofTtis = Last => WindowOver(s, now)
  <1>a. PICK t, a : t = s.ra_tti /\ a = (now - t) % NofTtis
    OBVIOUS
  <1>1. /\ a = IF t <= now THEN now - t ELSE now - t + NofTtis
        /\ t = s.ra_tti /\ t \in 0 .. NofTtis - 1
    BY <1>a, AgeOf
  <1>2. /\ NofTtis \in Nat /\ responseWindowSize \in Nat /\ Last = 3 + responseWindowSize
        /\ Last + 4 < NofTtis /\ responseWindowSize > 0
    BY RandomAccessAssumption, RaProcAssumption DEF WindowsApart, Last, PRACH_RAR_OFFSET
  <1>3. InRarWindow(s, now) => a \in 3 .. Last + 4
    <2> SUFFICES ASSUME TtiInterval(now, t + 3) \in 0 .. responseWindowSize + 4
                 PROVE  a \in 3 .. Last + 4
      BY <1>1 DEF InRarWindow
    <2>1. CASE now >= t + 3
      BY <1>1, <1>2, <2>1 DEF TtiInterval
    <2>2. CASE ~(now >= t + 3)
      BY <1>1, <1>2, <2>2 DEF TtiInterval
    <2> QED
      BY <2>1, <2>2
  <1>4. a = Last => WindowOver(s, now)
    <2> SUFFICES ASSUME a = Last PROVE TtiInterval(now, t + 3 + responseWindowSize - 1) \in 1 .. NofTtis \div 2
      BY <1>1 DEF WindowOver
    <2>1. TtiInterval(now, t + 3 + responseWindowSize - 1) = 1
      <3> PICK y \in Int : y = t + responseWindowSize + 2 /\ y = t + 3 + responseWindowSize - 1
        BY <1>1, <1>2
      <3>0. (IF t <= now THEN now - t ELSE now - t + NofTtis) = 3 + responseWindowSize
        BY <1>1, <1>2
      <3>1. CASE t <= now
        <4>1. now >= y /\ now - y = 1
          BY <1>1, <1>2, <3>0, <3>1
        <4> QED
          BY <4>1 DEF TtiInterval
      <3>2. CASE ~(t <= now)
        <4>1. ~(now >= y) /\ NofTtis - y + now = 1
          BY <1>1, <1>2, <3>0, <3>2
        <4> QED
          BY <4>1 DEF TtiInterval
      <3> QED
        BY <3>1, <3>2
    <2>2. NofTtis \div 2 >= 1
      BY <1>2
    <2> QED
      BY <1>2, <2>1, <2>2
  <1> QED
    BY <1>a, <1>3, <1>4

-----------------------------------------------------------------------------
(* Steps in which nothing is sent to or by the base station. *)
LEMMA AnswersStay ==
    ASSUME AnswerInv, UNCHANGED <<tti, prach, of, pending_rars, rar_allocs>>,
           \A v \in Ue : KeepsTry(ra[v], ra'[v])
    PROVE  AnswerInv'
  <1>1. \A v \in Ue : \A t, p : Tries(v, t, p)' => Tries(v, t, p)
    BY DEF Tries, KeepsTry, Trying
  <1>2. TriesInTime'
    BY DEF AnswerInv, TriesInTime, KeepsTry, Trying, Age
  <1>3. Heard'
    <2>1. \A x \in prach' : \A u \in Ue : Tries(u, x.tti, x.preamble)' => u \in x.by
      BY <1>1 DEF AnswerInv, Heard
    <2>2. \A u \in Ue : Trying(ra'[u]) /\ Age(ra'[u].ra_tti) = 0 =>
             \E x \in prach' : x.tti = ra'[u].ra_tti /\ x.preamble = ra'[u].preamble
      BY DEF AnswerInv, Heard, KeepsTry, Trying
    <2> QED
      BY <2>1, <2>2 DEF Heard, Age
  <1>4. \A rar : Answers(rar) => Answers(rar)'
    BY <1>1 DEF Answers
  <1>5. Answered'
    BY <1>4 DEF AnswerInv, Answered, Age
  <1> QED
    BY <1>2, <1>3, <1>5 DEF AnswerInv

(* A RAR that a UE hears is that of the PRACH it sent its preamble in. *)
LEMMA HearsItsAnswer ==
    ASSUME FreeInTime, WindowsApart, KeepsTime, AnswerInv,
           NEW u \in Ue, NEW rar \in rar_allocs, Hears(u, rar)
    PROVE  /\ rar.prach_tti = ra[u].ra_tti
           /\ \A r \in rar.grants : of[r].preamble = ra[u].preamble => u \in of[r].by
  <1>2. ListensToRaRnti(ra[u], tti)
    BY DEF Hears
  <1>3. tti \in 0 .. NofTtis - 1
    BY DEF KeepsTime, TtisInCycle
  <1> PICK t, s : t = rar.prach_tti /\ s = ra[u].ra_tti
    OBVIOUS
  <1>4. Trying(ra[u]) /\ OfPrach(s) /\ Age(s) <= Last
    BY <1>2, CycleIsLonger DEF ListensToRaRnti, Trying, AnswerInv, TriesInTime
  <1>5. Answers(rar) /\ OfPrach(t) /\ Age(t) \in PRACH_RAR_OFFSET .. Last
    BY DEF AnswerInv, Answered
  <1>6. s \in 0 .. NofTtis - 1 /\ t \in 0 .. NofTtis - 1
    BY <1>4, <1>5 DEF OfPrach
  <1>7. Age(s) \in PRACH_RAR_OFFSET .. Last
    <2>1. InRarWindow(ra[u], tti)
      BY <1>2 DEF ListensToRaRnti
    <2>2. (tti - s) % NofTtis \in 3 .. Last + 4
      BY <1>3, <1>6, <2>1, UeWindow
    <2>3. Age(s) \in 3 .. Last + 4
      BY <2>2 DEF Age
    <2> QED
      BY <1>4, <2>3, CycleIsLonger DEF PRACH_RAR_OFFSET
  <1>8. s = t
    <2>1. Age(s) - Age(t) < PrachPeriod /\ Age(t) - Age(s) < PrachPeriod
      BY <1>5, <1>7, RaSchedAssumption, CycleIsLonger DEF WindowsApart, Last, PRACH_RAR_OFFSET
    <2>2. ~(Age(s) < Age(t))
      <3> SUFFICES ASSUME Age(s) < Age(t) PROVE FALSE
        OBVIOUS
      <3>1. Age(t) - Age(s) >= PrachPeriod
        BY <1>3, <1>4, <1>5, OnePerPeriod DEF Age, FreeInTime
      <3> QED
        BY <1>5, <1>7, <2>1, <3>1, CycleIsLonger DEF PRACH_RAR_OFFSET
    <2>3. ~(Age(t) < Age(s))
      <3> SUFFICES ASSUME Age(t) < Age(s) PROVE FALSE
        OBVIOUS
      <3>1. Age(s) - Age(t) >= PrachPeriod
        BY <1>3, <1>4, <1>5, OnePerPeriod DEF Age, FreeInTime
      <3> QED
        BY <1>5, <1>7, <2>1, <3>1, CycleIsLonger DEF PRACH_RAR_OFFSET
    <2>4. Age(s) = Age(t)
      BY <1>5, <1>7, <2>2, <2>3, CycleIsLonger DEF PRACH_RAR_OFFSET
    <2>6. (tti - s) % NofTtis = (tti - t) % NofTtis
      BY <2>4 DEF Age
    <2>7. /\ (tti - s) % NofTtis = IF s <= tti THEN tti - s ELSE tti - s + NofTtis
          /\ (tti - t) % NofTtis = IF t <= tti THEN tti - t ELSE tti - t + NofTtis
      BY <1>3, <1>6, AgeOf
    <2>8. (IF s <= tti THEN tti - s ELSE tti - s + NofTtis) = IF t <= tti THEN tti - t ELSE tti - t + NofTtis
      BY <2>6, <2>7
    <2>9. CASE s <= tti /\ t <= tti
      BY <1>6, <1>3, <2>8, <2>9
    <2>10. CASE ~(s <= tti) /\ ~(t <= tti)
      BY <1>6, <1>3, <2>8, <2>10, CycleIsLonger
    <2>11. CASE s <= tti /\ ~(t <= tti)
      BY <1>6, <1>3, <2>8, <2>11, CycleIsLonger
    <2>12. CASE ~(s <= tti) /\ t <= tti
      BY <1>6, <1>3, <2>8, <2>12, CycleIsLonger
    <2> QED
      BY <2>9, <2>10, <2>11, <2>12
  <1>9. \A r \in rar.grants : of[r].preamble = ra[u].preamble => u \in of[r].by
    BY <1>4, <1>5, <1>8 DEF Answers, Tries
  <1> QED
    BY <1>8, <1>9

(* All that send a preamble in a TTI send one. *)
LEMMA SendPrachAnswers ==
    ASSUME RaTypeOK, KeepsTime, AnswerInv, NEW u \in Ue, SendPrach(u)
    PROVE  AnswerInv'
  <1> USE DEF rasvars
  <1> DEFINE same == {x \in prach : x.tti = tti /\ x.preamble = ra[u].preamble}
             all  == (UNION {x.by : x \in same}) \cup {u}
             new  == [tti |-> tti, preamble |-> ra[u].preamble, by |-> all]
  <1>1. /\ tti % PrachPeriod = 0 /\ ra[u].ra_tti = Pending
        /\ RaBecomes(u, [ra[u] EXCEPT !.ra_tti = tti])
        /\ prach' = (prach \ same) \cup {new}
        /\ UNCHANGED <<tti, of, pending_rars, rar_allocs, scheduled>>
    BY DEF SendPrach, enbvars
  <1>2. /\ \A v \in Ue \ {u} : ra'[v] = ra[v]
        /\ ra'[u].state = ra[u].state /\ ra'[u].preamble = ra[u].preamble /\ ra'[u].ra_tti = tti
    BY <1>1 DEF RaTypeOK, RaType, RaBecomes
  <1>3. new.tti = tti /\ new.preamble = ra[u].preamble /\ new.by = all
    OBVIOUS
  <1>4. \A x \in same : x \in prach /\ x.tti = tti /\ x.preamble = ra[u].preamble /\ x.by \subseteq all
    OBVIOUS
  <1>5. \A x \in prach : x.tti = tti /\ x.preamble = ra[u].preamble => x \in same
    OBVIOUS
  <1>6. u \in all
    OBVIOUS
  <1> HIDE DEF same, all, new
  <1>7. tti \in 0 .. NofTtis - 1 /\ OfPrach(tti) /\ Age(tti) = 0
    <2>1. tti \in 0 .. NofTtis - 1
      BY DEF KeepsTime, TtisInCycle
    <2>2. Age(tti) = 0
      BY <2>1, AgeOf DEF Age
    <2> QED
      BY <1>1, <2>1, <2>2 DEF OfPrach
  <1>8. ~(tti < 0) /\ tti # Pending /\ ra[u].state # "RESPONSE_RECEPTION"
    <2>1. ~OfPrach(Pending)
      BY CycleIsLonger DEF OfPrach, Pending
    <2> QED
      BY <1>1, <1>7, <2>1, CycleIsLonger DEF Pending, AnswerInv, TriesInTime, Trying
  <1>9. \A v \in Ue : Trying(ra[v]) /\ Age(ra[v].ra_tti) = 0 => ra[v].ra_tti = tti
    <2> SUFFICES ASSUME NEW v \in Ue, Trying(ra[v]), Age(ra[v].ra_tti) = 0 PROVE ra[v].ra_tti = tti
      OBVIOUS
    <2>1. ra[v].ra_tti \in 0 .. NofTtis - 1
      BY DEF AnswerInv, TriesInTime, OfPrach
    <2> QED
      BY <1>7, <2>1, Ages DEF Age
  <1>10. TriesInTime'
    <2> SUFFICES ASSUME NEW v \in Ue, Trying(ra'[v])
                 PROVE  /\ OfPrach(ra'[v].ra_tti)
                        /\ Age(ra'[v].ra_tti) <= IF ra'[v].state = "PDCCH_SETUP" THEN 0 ELSE Last
      BY <1>1 DEF TriesInTime, Age
    <2>1. CASE v = u
      BY <1>2, <1>7, <1>8, <2>1 DEF Trying
    <2>2. CASE v # u
      BY <1>2, <2>2 DEF AnswerInv, TriesInTime
    <2> QED
      BY <2>1, <2>2
  <1>11. \A v \in Ue : \A t, p : Tries(v, t, p)' => Tries(v, t, p) \/ (v = u /\ t = tti /\ p = ra[u].preamble)
    BY <1>2 DEF Tries
  <1>12. Heard'
    <2>1. ASSUME NEW x \in prach', NEW v \in Ue, Tries(v, x.tti, x.preamble)' PROVE v \in x.by
      <3>1. CASE x = new
        <4>1. CASE v = u
          BY <1>3, <1>6, <3>1, <4>1
        <4>2. CASE v # u
          <5>1. Tries(v, tti, ra[u].preamble)
            BY <1>2, <1>3, <2>1, <3>1, <4>2 DEF Tries
          <5>2. PICK y \in prach : y.tti = tti /\ y.preamble = ra[u].preamble
            BY <1>7, <5>1 DEF Tries, AnswerInv, Heard
          <5>3. v \in y.by
            BY <5>1, <5>2 DEF AnswerInv, Heard
          <5> QED
            BY <1>3, <1>4, <1>5, <3>1, <5>2, <5>3
        <4> QED
          BY <4>1, <4>2
      <3>2. CASE x \in prach /\ x \notin same
        <4>1. Tries(v, x.tti, x.preamble)
          BY <1>5, <1>11, <2>1, <3>2
        <4> QED
          BY <3>2, <4>1 DEF AnswerInv, Heard
      <3> QED
        BY <1>1, <3>1, <3>2
    <2>2. ASSUME NEW v \in Ue, Trying(ra'[v]), Age(ra'[v].ra_tti) = 0
          PROVE  \E x \in prach' : x.tti = ra'[v].ra_tti /\ x.preamble = ra'[v].preamble
      <3>1. new \in prach'
        BY <1>1
      <3>2. CASE v = u
        BY <1>2, <1>3, <3>1, <3>2
      <3>3. CASE v # u
        <4>1. Trying(ra[v]) /\ Age(ra[v].ra_tti) = 0 /\ ra'[v] = ra[v]
          BY <1>2, <2>2, <3>3
        <4>2. PICK y \in prach : y.tti = ra[v].ra_tti /\ y.preamble = ra[v].preamble
          BY <4>1 DEF AnswerInv, Heard
        <4>3. CASE y \in same
          BY <1>3, <1>4, <3>1, <4>1, <4>2, <4>3
        <4>4. CASE y \notin same
          BY <1>1, <4>1, <4>2, <4>4
        <4> QED
          BY <4>3, <4>4
      <3> QED
        BY <3>2, <3>3
    <2> QED
      BY <1>1, <2>1, <2>2 DEF Heard, Age
  <1>13. ASSUME NEW rar, Answers(rar), Age(rar.prach_tti) # 0 PROVE Answers(rar)'
    <2>1. rar.prach_tti # tti
      BY <1>7, <1>13
    <2> QED
      BY <1>1, <1>11, <1>13, <2>1 DEF Answers
  <1>14. Answered'
    <2>1. \A i \in DOMAIN pending_rars : Answers(pending_rars[i]) /\ Age(pending_rars[i].prach_tti) # 0
      BY DEF AnswerInv, Answered, KeepsTime, AllWait, Waits
    <2>2. \A rar \in rar_allocs : Answers(rar) /\ Age(rar.prach_tti) # 0
      BY DEF AnswerInv, Answered, PRACH_RAR_OFFSET
    <2>3. \A i \in DOMAIN pending_rars : Answers(pending_rars[i])'
      <3> TAKE i \in DOMAIN pending_rars
      <3> PICK rar : rar = pending_rars[i]
        OBVIOUS
      <3>1. Answers(rar)'
        BY <1>13, <2>1
      <3> QED
        BY <1>1, <3>1 DEF Answers
    <2>4. \A rar \in rar_allocs : Answers(rar)'
      BY <1>13, <2>2
    <2> QED
      BY <1>1, <2>3, <2>4 DEF AnswerInv, Answered, Age, Answers
  <1> QED
    BY <1>1, <1>10, <1>12, <1>14 DEF AnswerInv

(* The grant for a preamble is that of all who have sent it. *)
LEMMA DlRachInfoGrants ==
    ASSUME RaTypeOK, NEW t \in Numbers, NEW r \in Rnti, DlRachInfo(t, r)
    PROVE  \A i \in DOMAIN pending_rars' : \A q \in pending_rars'[i].grants :
              \/ q = r /\ pending_rars'[i].prach_tti = t
              \/ \E k \in DOMAIN pending_rars :
                    q \in pending_rars[k].grants /\ pending_rars'[i].prach_tti = pending_rars[k].prach_tti
  <1>1. /\ pending_rars \in Seq(Grants)
        /\ DOMAIN pending_rars = 1 .. Len(pending_rars) /\ Len(pending_rars) \in Nat
    BY PendingRars DEF RaTypeOK
  <1> DEFINE new == [prach_tti |-> t, grants |-> {r}]
  <1>2. CASE pending_rars' = Append(pending_rars, new)
    <2>1. new \in Grants /\ new.grants = {r} /\ new.prach_tti = t
      BY DEF Grants
    <2> HIDE DEF new
    <2>2. /\ DOMAIN pending_rars' = 1 .. Len(pending_rars) + 1
          /\ \A i \in 1 .. Len(pending_rars) : pending_rars'[i] = pending_rars[i]
          /\ pending_rars'[Len(pending_rars) + 1] = new
      BY <1>1, <1>2, <2>1, AppendProperties
    <2> TAKE i \in DOMAIN pending_rars'
    <2> TAKE q \in pending_rars'[i].grants
    <2>3. CASE i = Len(pending_rars) + 1
      BY <2>1, <2>2, <2>3
    <2>4. CASE i \in DOMAIN pending_rars
      BY <1>1, <2>2, <2>4
    <2> QED
      BY <1>1, <2>2, <2>3, <2>4
  <1>3. CASE \E n \in DOMAIN pending_rars :
                pending_rars[n].prach_tti = t /\ pending_rars' = [pending_rars EXCEPT ![n].grants = @ \cup {r}]
    <2>1. PICK n \in DOMAIN pending_rars :
             pending_rars[n].prach_tti = t /\ pending_rars' = [pending_rars EXCEPT ![n].grants = @ \cup {r}]
      BY <1>3
    <2> TAKE i \in DOMAIN pending_rars'
    <2> TAKE q \in pending_rars'[i].grants
    <2>2. i \in DOMAIN pending_rars /\ pending_rars[i] \in Grants
      BY <2>1, PendingRars
    <2>3. pending_rars'[i] = IF i = n THEN [pending_rars[i] EXCEPT !.grants = @ \cup {r}] ELSE pending_rars[i]
      BY <2>1, <2>2
    <2> QED
      BY <2>1, <2>2, <2>3 DEF Grants
  <1> QED
    BY <1>2, <1>3 DEF DlRachInfo

LEMMA RachDetectedAnswers ==
    ASSUME RaInv, KeepsTime, AnswerInv, RachDetected
    PROVE  AnswerInv'
  <1> USE DEF uevars
  <1>1. RaTypeOK /\ Apart /\ Unused # {} /\ tti \in 0 .. NofTtis - 1
    BY DEF RaInv, RachDetected, KeepsTime, TtisInCycle
  <1> DEFINE r == NextRnti
  <1>2. r \in Rnti /\ user[r] = "unused"
    BY <1>1, NextRntiUnused
  <1>3. PICK x \in prach : /\ x.tti # tti /\ prach' = prach \ {x} /\ DlRachInfo(x.tti, r)
                           /\ of' = [of EXCEPT ![r] = [preamble |-> x.preamble, by |-> x.by]]
    BY DEF RachDetected
  <1>4. UNCHANGED <<tti, ra, rar_allocs>>
    BY DEF RachDetected
  <1> HIDE DEF r
  <1>5. x.tti \in Numbers /\ x.preamble \in Preambles \cup {0} /\ x.by \subseteq Ue
    BY <1>1 DEF RaTypeOK
  <1>6. /\ of' \in [Rnti -> Preamble]
        /\ \A q \in Rnti : q # r => of'[q] = of[q]
        /\ of'[r].preamble = x.preamble /\ of'[r].by = x.by
    BY <1>2, <1>3, <1>5 DEF AnswerInv, Preamble
  <1>7. \A v \in Ue : \A t, p : Tries(v, t, p)' <=> Tries(v, t, p)
    BY <1>4 DEF Tries
  <1>8. TriesInTime'
    BY <1>4 DEF AnswerInv, TriesInTime, Age
  <1>9. Heard'
    <2>1. \A y \in prach' : \A v \in Ue : Tries(v, y.tti, y.preamble)' => v \in y.by
      BY <1>3, <1>7 DEF AnswerInv, Heard
    <2>2. ASSUME NEW v \in Ue, Trying(ra[v]), Age(ra[v].ra_tti) = 0
          PROVE  \E y \in prach' : y.tti = ra[v].ra_tti /\ y.preamble = ra[v].preamble
      <3>1. PICK y \in prach : y.tti = ra[v].ra_tti /\ y.preamble = ra[v].preamble
        BY <2>2 DEF AnswerInv, Heard
      <3>2. ra[v].ra_tti \in 0 .. NofTtis - 1
        BY <2>2 DEF AnswerInv, TriesInTime, OfPrach
      <3>3. ra[v].ra_tti = tti
        BY <1>1, <2>2, <3>2, Ages DEF Age
      <3> QED
        BY <1>3, <3>1, <3>3
    <2> QED
      BY <1>4, <2>1, <2>2 DEF Heard, Age
  <1>10. /\ \A i \in DOMAIN pending_rars : pending_rars[i].grants \subseteq Rnti /\ r \notin pending_rars[i].grants
         /\ \A rar \in rar_allocs : rar.grants \subseteq Rnti /\ r \notin rar.grants
    <2>1. \A i \in DOMAIN pending_rars : pending_rars[i].grants \subseteq Rnti /\ r \notin pending_rars[i].grants
      BY <1>1, <1>2, PendingRars DEF Apart, PendingApart
    <2>2. ~Given(r)
      BY <1>1, <1>2 DEF Apart, UnusedNowhere
    <2>3. \A rar \in rar_allocs : rar.grants \subseteq Rnti /\ r \notin rar.grants
      BY <1>1, <2>2 DEF RaTypeOK, Grants, Given
    <2> QED
      BY <2>1, <2>3
  <1>11. Answered'
    <2>1. ASSUME NEW i \in DOMAIN pending_rars', NEW q \in pending_rars'[i].grants, NEW v \in Ue,
                 Tries(v, pending_rars'[i].prach_tti, of'[q].preamble)
          PROVE  v \in of'[q].by
      <3>1. CASE q = r /\ pending_rars'[i].prach_tti = x.tti
        <4>1. Tries(v, x.tti, x.preamble)
          BY <1>6, <2>1, <3>1
        <4> QED
          BY <1>6, <3>1, <4>1 DEF AnswerInv, Heard
      <3>2. CASE \E k \in DOMAIN pending_rars :
                    q \in pending_rars[k].grants /\ pending_rars'[i].prach_tti = pending_rars[k].prach_tti
        <4>1. PICK k \in DOMAIN pending_rars :
                 q \in pending_rars[k].grants /\ pending_rars'[i].prach_tti = pending_rars[k].prach_tti
          BY <3>2
        <4>2. of'[q] = of[q]
          BY <1>6, <1>10, <4>1
        <4>3. Tries(v, pending_rars[k].prach_tti, of[q].preamble)
          BY <2>1, <4>1, <4>2
        <4>4. Answers(pending_rars[k])
          BY DEF AnswerInv, Answered
        <4> QED
          BY <4>1, <4>2, <4>3, <4>4 DEF Answers
      <3> QED
        BY <1>1, <1>2, <1>3, <1>5, <3>1, <3>2, DlRachInfoGrants
    <2>2. \A i \in DOMAIN pending_rars' : Answers(pending_rars[i])'
      BY <1>7, <2>1 DEF Answers
    <2>3. ASSUME NEW rar \in rar_allocs
          PROVE  /\ Answers(rar)' /\ OfPrach(rar.prach_tti)
                 /\ Age(rar.prach_tti) \in PRACH_RAR_OFFSET .. Last
      <3>1. /\ Answers(rar) /\ OfPrach(rar.prach_tti)
            /\ Age(rar.prach_tti) \in PRACH_RAR_OFFSET .. Last
        BY DEF AnswerInv, Answered
      <3>2. \A q \in rar.grants : of'[q] = of[q]
        BY <1>6, <1>10
      <3>3. Answers(rar)'
        BY <1>7, <3>1, <3>2 DEF Answers
      <3> QED
        BY <3>1, <3>3
    <2> QED
      BY <1>4, <2>2, <2>3 DEF Answered, Age
  <1> QED
    BY <1>6, <1>8, <1>9, <1>11 DEF AnswerInv

(* The scheduler sends a RAR in the base station's window. *)
LEMMA ScheduleAnswers ==
    ASSUME RaTypeOK, KeepsTime, AnswerInv, DlSchedule
    PROVE  AnswerInv'
  <1> USE DEF uevars, enbvars, airvars
  <1>1. UNCHANGED <<tti, ra, prach, of>>
    BY DEF DlSchedule
  <1>2. /\ pending_rars \in Seq(Grants)
        /\ DOMAIN pending_rars = 1 .. Len(pending_rars) /\ Len(pending_rars) \in Nat
    BY PendingRars DEF RaTypeOK
  <1>3. \A v \in Ue : \A t, p : Tries(v, t, p)' <=> Tries(v, t, p)
    BY <1>1 DEF Tries
  <1>4. \A rar : Answers(rar)' <=> Answers(rar)
    BY <1>1, <1>3 DEF Answers
  <1>5. TriesInTime' /\ Heard'
    <2>1. TriesInTime'
      BY <1>1 DEF AnswerInv, TriesInTime, Age
    <2>2. Heard'
      BY <1>1 DEF AnswerInv, Heard, Age, Tries
    <2> QED
      BY <2>1, <2>2
  <1>6. ASSUME \A i \in DOMAIN pending_rars' :
                  \E k \in DOMAIN pending_rars :
                     /\ pending_rars'[i].prach_tti = pending_rars[k].prach_tti
                     /\ pending_rars'[i].grants \subseteq pending_rars[k].grants,
               \A rar \in rar_allocs' :
                  \/ rar \in rar_allocs
                  \/ /\ OfPrach(rar.prach_tti) /\ Age(rar.prach_tti) \in PRACH_RAR_OFFSET .. Last
                     /\ \E k \in DOMAIN pending_rars :
                           /\ rar.prach_tti = pending_rars[k].prach_tti
                           /\ rar.grants \subseteq pending_rars[k].grants
        PROVE  AnswerInv'
    <2>1. ASSUME NEW rar, NEW k \in DOMAIN pending_rars, rar.prach_tti = pending_rars[k].prach_tti,
                 rar.grants \subseteq pending_rars[k].grants
          PROVE  Answers(rar)
      <3>1. Answers(pending_rars[k])
        BY DEF AnswerInv, Answered
      <3> QED
        BY <2>1, <3>1 DEF Answers
    <2>2. ASSUME NEW i \in DOMAIN pending_rars' PROVE Answers(pending_rars[i])'
      <3> PICK rar : rar = pending_rars'[i]
        OBVIOUS
      <3>1. Answers(rar)'
        BY <1>4, <1>6, <2>1
      <3> QED
        BY <3>1 DEF Answers
    <2>3. ASSUME NEW rar \in rar_allocs'
          PROVE  Answers(rar)' /\ OfPrach(rar.prach_tti) /\ Age(rar.prach_tti) \in PRACH_RAR_OFFSET .. Last
      <3>1. CASE rar \in rar_allocs
        BY <1>4, <3>1 DEF AnswerInv, Answered
      <3>2. CASE rar \notin rar_allocs
        BY <1>4, <1>6, <2>1, <3>2
      <3> QED
        BY <3>1, <3>2
    <2>4. Answered'
      BY <1>1, <2>2, <2>3 DEF Answered, Age
    <2> QED
      BY <1>1, <1>5, <2>4 DEF AnswerInv
  <1>7. pending_rars # <<>> =>
            \A i \in DOMAIN Tail(pending_rars) :
               i + 1 \in DOMAIN pending_rars /\ Tail(pending_rars)[i] = pending_rars[i + 1]
    BY <1>2, HeadTailProperties
  <1>8. pending_rars # <<>> => 1 \in DOMAIN pending_rars /\ Front = pending_rars[1] /\ Front \in Grants
    BY <1>2, PendingRars DEF Front
  <1>9. CASE Discard(tti)
    <2>1. pending_rars # <<>> /\ pending_rars' = Tail(pending_rars) /\ UNCHANGED rar_allocs
      BY <1>9 DEF Discard
    <2>2. \A i \in DOMAIN pending_rars' : i + 1 \in DOMAIN pending_rars /\ pending_rars'[i] = pending_rars[i + 1]
      BY <1>7, <2>1
    <2> QED
      BY <1>6, <2>1, <2>2
  <1>10. CASE AllocRar(tti)
    <2>1. PICK sent \in (SUBSET Front.grants) \ {{}} :
             /\ rar_allocs' = rar_allocs \cup {[prach_tti |-> Front.prach_tti, grants |-> sent]}
             /\ pending_rars' = IF sent = Front.grants THEN Tail(pending_rars)
                                ELSE [pending_rars EXCEPT ![1].grants = @ \ sent]
      BY <1>10 DEF AllocRar
    <2>2. pending_rars # <<>> /\ InWindow(Front, tti)
      BY <1>10 DEF AllocRar
    <2>3. \A i \in DOMAIN pending_rars' :
             \E k \in DOMAIN pending_rars :
                /\ pending_rars'[i].prach_tti = pending_rars[k].prach_tti
                /\ pending_rars'[i].grants \subseteq pending_rars[k].grants
      <3>1. CASE sent = Front.grants
        <4>1. \A i \in DOMAIN pending_rars' :
                 i + 1 \in DOMAIN pending_rars /\ pending_rars'[i] = pending_rars[i + 1]
          BY <1>7, <2>1, <2>2, <3>1
        <4> QED
          BY <4>1
      <3>2. CASE sent # Front.grants
        <4> TAKE i \in DOMAIN pending_rars'
        <4>1. i \in DOMAIN pending_rars /\ pending_rars[i] \in Grants
          BY <2>1, <3>2, PendingRars
        <4>2. pending_rars'[i] = IF i = 1 THEN [pending_rars[i] EXCEPT !.grants = @ \ sent] ELSE pending_rars[i]
          BY <2>1, <3>2, <4>1
        <4>3. /\ pending_rars'[i].prach_tti = pending_rars[i].prach_tti
              /\ pending_rars'[i].grants \subseteq pending_rars[i].grants
          BY <4>1, <4>2 DEF Grants
        <4> QED
          BY <4>1, <4>3
      <3> QED
        BY <3>1, <3>2
    <2>4. OfPrach(Front.prach_tti) /\ Age(Front.prach_tti) \in PRACH_RAR_OFFSET .. Last
      <3>1. Waits(Front.prach_tti) /\ tti \in 0 .. NofTtis - 1
        BY <1>8, <2>2 DEF KeepsTime, AllWait, TtisInCycle
      <3>2. OfPrach(Front.prach_tti) /\ Front.prach_tti \in 0 .. NofTtis - 1
        BY <3>1 DEF Waits, OfPrach
      <3> QED
        BY <2>2, <3>1, <3>2, WindowByAge DEF Age
    <2>5. ASSUME NEW rar \in rar_allocs', rar \notin rar_allocs
          PROVE  /\ OfPrach(rar.prach_tti) /\ Age(rar.prach_tti) \in PRACH_RAR_OFFSET .. Last
                 /\ \E k \in DOMAIN pending_rars :
                       /\ rar.prach_tti = pending_rars[k].prach_tti
                       /\ rar.grants \subseteq pending_rars[k].grants
      <3>1. rar.prach_tti = Front.prach_tti /\ rar.grants \subseteq Front.grants
        BY <2>1, <2>5
      <3> QED
        BY <1>8, <2>2, <2>4, <3>1
    <2> QED
      BY <1>6, <2>3, <2>5
  <1>11. CASE NoMoreRars(tti)
    BY <1>6, <1>11 DEF NoMoreRars
  <1> QED
    BY <1>9, <1>10, <1>11 DEF DlSchedule, DlSched

(* A UE gives up when its window is over. *)
LEMMA NextTtiAnswers ==
    ASSUME WindowsApart, RaTypeOK, KeepsTime, AnswerInv, NextTti
    PROVE  AnswerInv'
  <1> USE DEF enbvars, airvars
  <1>1. /\ UNCHANGED <<of, prach, pending_rars>> /\ rar_allocs' = {}
        /\ tti' = (tti + 1) % NofTtis
    BY DEF NextTti, NextResult
  <1>2. tti \in 0 .. NofTtis - 1
    BY DEF KeepsTime, TtisInCycle
  <1>3. PICK p \in [Ue -> Preambles] : ra' = [u \in Ue |-> RaStep(ra[u], tti, p[u])]
    BY DEF NextTti
  <1>4. ASSUME NEW u \in Ue, Trying(ra'[u])
        PROVE  /\ Trying(ra[u]) /\ ra'[u].state = "RESPONSE_RECEPTION"
               /\ ra'[u].ra_tti = ra[u].ra_tti /\ ra'[u].preamble = ra[u].preamble
               /\ ra[u].state = "RESPONSE_RECEPTION" => ~WindowOver(ra[u], tti)
    <2>1. ra'[u] = RaStep(ra[u], tti, p[u]) /\ ra[u] \in RaType
      BY <1>3 DEF RaTypeOK
    <2> QED
      BY <1>4, <2>1, StepKeepsTry
  <1>5. ASSUME NEW t \in 0 .. NofTtis - 1, Age(t) < NofTtis - 1
        PROVE  Age(t)' = Age(t) + 1 /\ Age(t) \in 0 .. NofTtis - 1
    <2>1. Age(t) \in 0 .. NofTtis - 1 /\ (((tti + 1) % NofTtis) - t) % NofTtis = Age(t) + 1
      BY <1>2, <1>5, Ages DEF Age
    <2> QED
      BY <1>1, <2>1 DEF Age
  <1>6. ASSUME NEW u \in Ue, Trying(ra'[u])
        PROVE  OfPrach(ra'[u].ra_tti) /\ Age(ra[u].ra_tti)' \in 1 .. Last
    <2> PICK t : t = ra[u].ra_tti
      OBVIOUS
    <2>1. /\ OfPrach(t) /\ t \in 0 .. NofTtis - 1
          /\ Age(t) <= IF ra[u].state = "PDCCH_SETUP" THEN 0 ELSE Last
      BY <1>4, <1>6 DEF AnswerInv, TriesInTime, OfPrach
    <2>2. Age(t) \in 0 .. NofTtis - 1
      BY <1>2, <2>1, Ages DEF Age
    <2>3. Age(t) < Last
      <3>1. CASE ra[u].state = "PDCCH_SETUP"
        <4>1. Age(t) <= 0
          BY <2>1, <3>1
        <4> QED
          BY <2>2, <4>1, CycleIsLonger
      <3>2. CASE ra[u].state = "RESPONSE_RECEPTION"
        <4>1. (tti - ra[u].ra_tti) % NofTtis # Last
          BY <1>2, <1>4, <1>6, <2>1, <3>2, UeWindow
        <4> QED
          BY <2>1, <2>2, <3>2, <4>1, CycleIsLonger DEF Age
      <3> QED
        BY <1>4, <1>6, <3>1, <3>2 DEF Trying
    <2>4. Age(t)' = Age(t) + 1
      BY <1>5, <2>1, <2>2, <2>3, CycleIsLonger
    <2>5. Age(t)' \in 1 .. Last
      BY <2>2, <2>3, <2>4, CycleIsLonger
    <2>6. ra'[u].ra_tti = t
      BY <1>4, <1>6
    <2> QED
      BY <2>1, <2>5, <2>6 DEF Age
  <1>7. TriesInTime'
    <2> SUFFICES ASSUME NEW u \in Ue, Trying(ra'[u])
                 PROVE  /\ OfPrach(ra'[u].ra_tti)
                        /\ Age(ra[u].ra_tti)' <= IF ra'[u].state = "PDCCH_SETUP" THEN 0 ELSE Last
      BY DEF TriesInTime
    <2> QED
      BY <1>4, <1>6, CycleIsLonger DEF Age
  <1>8. \A v \in Ue : \A t, q : Tries(v, t, q)' => Tries(v, t, q)
    BY <1>4 DEF Tries
  <1>9. Heard'
    <2>1. \A x \in prach' : \A v \in Ue : Tries(v, x.tti, x.preamble)' => v \in x.by
      BY <1>1, <1>8 DEF AnswerInv, Heard
    <2>2. \A v \in Ue : Trying(ra'[v]) => Age(ra[v].ra_tti)' # 0
      BY <1>6 DEF Age
    <2> QED
      BY <2>1, <2>2 DEF Heard
  <1>10. Answered'
    <2>1. \A rar : Answers(rar) => Answers(rar)'
      BY <1>1, <1>8 DEF Answers
    <2>2. ASSUME NEW i \in DOMAIN pending_rars PROVE Answers(pending_rars[i])'
      <3> PICK rar : rar = pending_rars[i]
        OBVIOUS
      <3>1. Answers(rar)'
        BY <2>1 DEF AnswerInv, Answered
      <3> QED
        BY <1>1, <3>1 DEF Answers
    <2> QED
      BY <1>1, <2>2 DEF Answered
  <1> QED
    BY <1>1, <1>7, <1>9, <1>10 DEF AnswerInv

-----------------------------------------------------------------------------
LEMMA OneUeKeepsTry ==
    ASSUME RaTypeOK, NEW u \in Ue, NEW s, RaBecomes(u, s), KeepsTry(ra[u], s)
    PROVE  \A v \in Ue : KeepsTry(ra[v], ra'[v])
  <1>1. ra'[u] = s /\ \A v \in Ue \ {u} : ra'[v] = ra[v]
    BY DEF RaTypeOK, RaBecomes
  <1>2. \A v \in Ue : KeepsTry(ra[v], ra[v])
    BY DEF KeepsTry
  <1> QED
    BY <1>1, <1>2

LEMMA UeAnswers ==
    ASSUME RaTypeOK, KeepsTime, AnswerInv, NEW u \in Ue, UeNext(u)
    PROVE  AnswerInv'
  <1> USE DEF enbvars, airvars, rasvars
  <1>0. ra[u] \in RaType
    BY DEF RaTypeOK
  <1>1. ASSUME NEW s, RaBecomes(u, s), KeepsTry(ra[u], s),
               UNCHANGED <<tti, prach, of, pending_rars, rar_allocs>>
        PROVE  AnswerInv'
    BY <1>1, OneUeKeepsTry, AnswersStay
  <1>2. ASSUME UNCHANGED <<tti, prach, of, pending_rars, rar_allocs, ra>> PROVE AnswerInv'
    BY <1>2, AnswersStay DEF KeepsTry
  <1>3. CASE Start(u) \/ TimerExpires(u) \/ TimerCallback(u) \/ Reset(u)
    BY <1>0, <1>1, <1>3, ProcedureKeepsTry DEF Start, TimerExpires, TimerCallback, Reset
  <1>4. CASE SendPrach(u)
    BY <1>4, SendPrachAnswers
  <1>5. CASE FindRar(u)
    BY <1>2, <1>5 DEF FindRar
  <1>6. CASE TbDecodedOk(u)
    <2>1. /\ UNCHANGED ra \/ \E r : RaBecomes(u, TakeRar(ra[u], r))
          /\ UNCHANGED <<tti, prach, of, pending_rars, rar_allocs>>
      BY <1>6 DEF TbDecodedOk
    <2> QED
      BY <1>0, <1>1, <1>2, <2>1, ProcedureKeepsTry
  <1>7. CASE SendMsg3(u) \/ HarqRetx(u) \/ HarqMaxRetx(u)
    BY <1>0, <1>1, <1>7, ProcedureKeepsTry DEF SendMsg3, HarqRetx, HarqMaxRetx
  <1>8. CASE ContentionResolutionIdReceived(u)
    <2>1. (conres_id[ra[u].temp_rnti] = u) \in BOOLEAN
      OBVIOUS
    <2> QED
      BY <1>0, <1>1, <1>8, <2>1, ProcedureKeepsTry DEF ContentionResolutionIdReceived
  <1>9. CASE PdcchReceived(u)
    BY <1>0, <1>1, <1>9, ProcedureKeepsTry DEF PdcchReceived
  <1> QED
    BY <1>3, <1>4, <1>5, <1>6, <1>7, <1>8, <1>9 DEF UeNext

(* The other steps of the base station change nothing of all this. *)
LEMMA EnbAnswers ==
    ASSUME RaInv, KeepsTime, AnswerInv, EnbNext
    PROVE  AnswerInv'
  <1> USE DEF uevars, enbvars, airvars, rasvars
  <1>1. CASE RachDetected
    BY <1>1, RachDetectedAnswers
  <1>2. CASE PrachMissed
    <2>1. PICK x \in prach : x.tti # tti /\ prach' = prach \ {x}
      BY <1>2 DEF PrachMissed
    <2>2. UNCHANGED <<tti, ra, of, pending_rars, rar_allocs>>
      BY <1>2 DEF PrachMissed
    <2>3. TriesInTime' /\ Answered'
      BY <2>2 DEF AnswerInv, TriesInTime, Answered, Answers, Tries, Age
    <2>4. ASSUME NEW v \in Ue, Trying(ra[v]), Age(ra[v].ra_tti) = 0
          PROVE  \E y \in prach' : y.tti = ra[v].ra_tti /\ y.preamble = ra[v].preamble
      <3>1. PICK y \in prach : y.tti = ra[v].ra_tti /\ y.preamble = ra[v].preamble
        BY <2>4 DEF AnswerInv, Heard
      <3>2. ra[v].ra_tti \in 0 .. NofTtis - 1 /\ tti \in 0 .. NofTtis - 1
        BY <2>4 DEF AnswerInv, TriesInTime, OfPrach, KeepsTime, TtisInCycle
      <3>3. ra[v].ra_tti = tti
        BY <2>4, <3>2, Ages DEF Age
      <3> QED
        BY <2>1, <3>1, <3>3
    <2>5. Heard'
      BY <2>1, <2>2, <2>4 DEF AnswerInv, Heard, Tries, Age
    <2> QED
      BY <2>2, <2>3, <2>5 DEF AnswerInv
  <1>3. CASE EnbNext /\ ~RachDetected /\ ~PrachMissed
    <2>1. UNCHANGED <<tti, ra, of, prach, pending_rars, rar_allocs>>
      BY <1>3 DEF EnbNext, RrcTtiClock, ActivityTimerExpires, Msg4Ends, Msg3Lost, Msg3Decoded
    <2> QED
      BY <2>1 DEF AnswerInv, TriesInTime, Heard, Answered, Answers, Tries, Age
  <1> QED
    BY <1>1, <1>2, <1>3

LEMMA AnswerInit == Init => AnswerInv
  <1> SUFFICES ASSUME Init PROVE AnswerInv
    OBVIOUS
  <1>1. /\ prach = {} /\ rar_allocs = {} /\ DOMAIN pending_rars = {}
        /\ \A u \in Ue : ~Trying(ra[u])
    BY DEF Init, RaSchedInit, RaInit, Trying
  <1>2. of \in [Rnti -> Preamble]
    BY DEF Init, Preamble
  <1> QED
    BY <1>1, <1>2 DEF AnswerInv, TriesInTime, Heard, Answered

LEMMA AnswerStep ==
    ASSUME WindowsApart, RaInv, KeepsTime, AnswerInv, [Next]_vars
    PROVE  AnswerInv'
  <1>0. RaTypeOK
    BY DEF RaInv
  <1>1. CASE DlSchedule
    BY <1>0, <1>1, ScheduleAnswers
  <1>2. CASE NextTti
    BY <1>0, <1>2, NextTtiAnswers
  <1>3. CASE EnbNext
    BY <1>3, EnbAnswers
  <1>4. CASE \E u \in Ue : UeNext(u)
    BY <1>0, <1>4, UeAnswers
  <1>5. CASE UNCHANGED vars
    BY <1>5 DEF vars, uevars, enbvars, airvars, rasvars, AnswerInv, TriesInTime, Heard, Answered,
                Answers, Tries, Age
  <1> QED
    BY <1>1, <1>2, <1>3, <1>4, <1>5 DEF Next

(* The RAR a UE hears answers the last preamble it sent (mac::is_in_window,          *)
(* ra_sched::dl_sched), whatever attempts it and others began before, for all numbers, *)
(* windows and delays with which RARs keep their window and that of one PRACH is over  *)
(* before that of the next.                                                            *)
THEOREM RarIsAnswerHolds == FreeInTime /\ WindowsApart => (Spec => []RarIsAnswer)
  <1> SUFFICES ASSUME FreeInTime, WindowsApart PROVE Spec => []RarIsAnswer
    OBVIOUS
  <1> DEFINE Inv == RaInv /\ KeepsTime /\ AnswerInv
  <1>1. Init => Inv
    BY RaInitInv, KeepsTimeInit, AnswerInit
  <1>2. Inv /\ [Next]_vars => Inv'
    <2>1. RaInv => RaTypeOK
      BY DEF RaInv
    <2> QED
      BY <2>1, RaStepInv, KeepsTimeStep, AnswerStep
  <1>3. Inv => RarIsAnswer
    BY HearsItsAnswer DEF RarIsAnswer
  <1> QED
    BY <1>1, <1>2, <1>3, PTL DEF Spec
=============================================================================

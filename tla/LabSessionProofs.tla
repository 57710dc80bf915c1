-------------------------- MODULE LabSessionProofs --------------------------
(***************************************************************************)
(* The store behind the handlers of LabSession is the one Reservations     *)
(* specifies, for every value of the constants, so that what is proved of  *)
(* the store holds under the handlers too; and the modified flag covers    *)
(* every edit, so that a release leaves the original topology.             *)
(***************************************************************************)
EXTENDS LabSession, ReservationsProofs

\* A read of the store prunes it or leaves it alone.
LEMMA PruneOrStutter ==
    ASSUME res' = Unexpired, UNCHANGED now
    PROVE  [Next]_resVars
  BY DEF Next, Prune, resVars

\* Each operation a handler calls is a step of the store.
LEMMA BookingIsStep ==
    ASSUME NEW u \in Users, NEW l \in Labs, NEW s \in 0 .. Horizon,
           NEW h \in 1 .. MaxHours, ReserveLab(u, l, s, h)
    PROVE  Next
<1>1. h \in 0 .. MaxHours + 1
  BY LimitsAssumption
<1> QED
  BY <1>1 DEF Next

LEMMA MoveIsStep ==
    ASSUME NEW l \in Labs, NEW i \in Ids, NEW s \in 0 .. Horizon,
           NEW h \in 1 .. MaxHours, UpdateScheduled(l, i, s, h)
    PROVE  Next
<1>1. h \in 0 .. MaxHours + 1
  BY LimitsAssumption
<1> QED
  BY <1>1 DEF Next

LEMMA ExtensionIsStep ==
    ASSUME NEW l \in Labs, NEW a \in 1 .. MaxTotalHours, ExtendReservation(l, a)
    PROVE  Next
<1>1. a \in 0 .. MaxTotalHours
  BY LimitsAssumption
<1> QED
  BY <1>1 DEF Next

\* What a handler does to the store when it resumes.
LEMMA ResumeIsStep ==
    ASSUME NEW l \in Labs, Resume(l)
    PROVE  [Next]_resVars
<1> DEFINE a == Head(answers[l])
<1>1. CASE ResumeRelease(a.user, l, a)
  BY <1>1 DEF ResumeRelease, Next, resVars
<1>2. CASE ResumeApply(a.user, l, a)
  BY <1>2 DEF ResumeApply, resVars
<1> QED
  BY <1>1, <1>2 DEF Resume

\* What the agent does, and giving up on it, leaves the store alone.
LEMMA AgentLeavesStore ==
    ASSUME NEW op \in agent, Timeout(op) \/ AgentRuns(op)
    PROVE  UNCHANGED resVars
  BY DEF Timeout, AgentRuns, AgentFails, AgentResets, AgentKeeps, AgentApplies, Answered

LEMMA SessionStepIsStoreStep == [SessionNext]_vars => [Next]_resVars
<1> SUFFICES ASSUME [SessionNext]_vars PROVE [Next]_resVars
  OBVIOUS
<1>1. CASE Tick \/ Prune
  BY <1>1 DEF Next
<1>2. ASSUME NEW u \in Users, NEW l \in Labs, NEW s \in 0 .. Horizon,
             NEW h \in 1 .. MaxHours, Reserve(u, l, s, h)
      PROVE  [Next]_resVars
  BY <1>2, BookingIsStep DEF Reserve
<1>3. ASSUME NEW u \in Users, NEW l \in Labs, NEW i \in Ids, Cancel(u, l, i)
      PROVE  [Next]_resVars
  BY <1>3 DEF Cancel, Next
<1>4. ASSUME NEW u \in Users, NEW l \in Labs, NEW i \in Ids, NEW s \in 0 .. Horizon,
             NEW h \in 1 .. MaxHours, Move(u, l, i, s, h)
      PROVE  [Next]_resVars
  BY <1>4, MoveIsStep DEF Move
<1>5. ASSUME NEW u \in Users, NEW l \in Labs, NEW a \in 1 .. MaxTotalHours,
             Extend(u, l, a)
      PROVE  [Next]_resVars
  BY <1>5, ExtensionIsStep DEF Extend
<1>6. ASSUME NEW u \in Users, NEW l \in Labs, Release(u, l)
      PROVE  [Next]_resVars
  BY <1>6 DEF Release, Next
<1>7. ASSUME NEW u \in Users, NEW l \in Labs,
             ReleaseWithReset(u, l) \/ ApplySandbox(u, l) \/ ProbeCapacity(u, l)
      PROVE  [Next]_resVars
  BY <1>7, PruneOrStutter DEF ReleaseWithReset, ApplySandbox, ProbeCapacity, Suspend
<1>8. ASSUME NEW l \in Labs, NEW b \in BOOLEAN, SetEnabled(l, b) \/ SetLocked(l, b)
      PROVE  [Next]_resVars
  BY <1>8 DEF SetEnabled, SetLocked
<1>9. ASSUME NEW u \in Users, Submit(u)
      PROVE  [Next]_resVars
  BY <1>9 DEF Submit
<1>10. ASSUME NEW l \in Labs, Resume(l)
       PROVE  [Next]_resVars
  BY <1>10, ResumeIsStep
<1>11. ASSUME NEW op \in agent, Timeout(op) \/ AgentRuns(op)
       PROVE  [Next]_resVars
  BY <1>11, AgentLeavesStore
<1>12. CASE UNCHANGED vars
  BY <1>12 DEF vars, resVars
<1> QED
  BY <1>1, <1>2, <1>3, <1>4, <1>5, <1>6, <1>7, <1>8, <1>9, <1>10, <1>11, <1>12
     DEF SessionNext

LEMMA SessionRunsStore == SessionSpec => Spec
<1>1. SessionInit => Init
  BY DEF SessionInit, Init
<1> QED
  BY <1>1, SessionStepIsStoreStep, PTL DEF SessionSpec, Spec

\* Whatever the handlers have checked before an await, two users get one lab
\* by an extension only.
THEOREM SessionKeepsLabsExclusive == SessionSpec => []OverlapOnlyByExtension
  BY SessionRunsStore, LabExclusiveButForExtension, PTL

-----------------------------------------------------------------------------
(* The modified flag.  While handlers wait, the flag lags behind the agent; *)
(* what the waiting handlers will do to it is already settled by the        *)
(* answers that are there, and that is what the invariant is about.         *)

\* The answers that set the flag and the ones that take it back.
Edits(a) == a.kind = "apply" /\ a.ok /\ a.changed
Resets(a) == a.kind = "reset" /\ a.ok

\* A reset is due once the handlers of the answers s have resumed, when m is
\* the flag before.
Due(s, m) ==
    \/ m /\ \A i \in 1 .. Len(s) : ~Resets(s[i])
    \/ \E i \in 1 .. Len(s) : Edits(s[i]) /\ \A j \in (i + 1) .. Len(s) : ~Resets(s[j])

\* The handler of an accepted operation or of an answer waits for that very
\* call, and for one only.
OperationsAwaited ==
    \A op \in agent : op.awaited =>
        /\ call[op.user] = [kind |-> op.kind, lab |-> op.lab]
        /\ \A l \in Labs : \A i \in 1 .. Len(answers[l]) : answers[l][i].user # op.user

AnswersAwaited ==
    \A l \in Labs : \A i \in 1 .. Len(answers[l]) :
        /\ call[answers[l][i].user] = [kind |-> answers[l][i].kind, lab |-> l]
        /\ \A j \in 1 .. Len(answers[l]) : j # i => answers[l][j].user # answers[l][i].user

\* An edit nobody waits for any more counts as lost.
AbandonedAreLost ==
    \A op \in agent : op.kind = "apply" /\ ~op.awaited => op.lab \in lost

\* An edit is remembered by the flag or by an answer still to be handled.
EditsRemembered ==
    \A l \in Labs \ lost : deployed[l] # Original => Due(answers[l], modified[l])

\* Sandbox mode stays on over an edit and over a handler that may bring one.
EditsEnabled ==
    \A l \in Labs \ lost : deployed[l] # Original \/ EditUnderWay(l) => enabled[l]

Waiting == OperationsAwaited /\ AnswersAwaited /\ AbandonedAreLost

SessionInv ==
    /\ Inv
    /\ SessionTypeOK
    /\ Waiting
    /\ EditsRemembered
    /\ EditsEnabled

-----------------------------------------------------------------------------
(* Sequences of answers.                                                   *)

LEMMA TailOf ==
    ASSUME NEW S, NEW s \in Seq(S), s # <<>>
    PROVE  /\ Tail(s) \in Seq(S) /\ Head(s) \in S /\ Head(s) = s[1]
           /\ Len(s) \in Nat \ {0} /\ Len(Tail(s)) = Len(s) - 1
           /\ \A i \in 1 .. Len(Tail(s)) : Tail(s)[i] = s[i + 1]
  OBVIOUS

LEMMA AppendTo ==
    ASSUME NEW S, NEW s \in Seq(S), NEW a \in S
    PROVE  /\ Append(s, a) \in Seq(S)
           /\ Len(s) \in Nat /\ Len(Append(s, a)) = Len(s) + 1
           /\ Append(s, a)[Len(s) + 1] = a
           /\ \A i \in 1 .. Len(s) : Append(s, a)[i] = s[i]
  OBVIOUS

\* An answer that joins the queue makes a reset due, settles it or leaves it.
LEMMA DueAppend ==
    ASSUME NEW s \in Seq(Answer), NEW m \in BOOLEAN, NEW a \in Answer,
           Edits(a) \/ (Due(s, m) /\ ~Resets(a))
    PROVE  Due(Append(s, a), m)
<1> DEFINE t == Append(s, a)
<1>1. /\ Len(s) \in Nat /\ Len(t) = Len(s) + 1 /\ t[Len(s) + 1] = a
      /\ \A i \in 1 .. Len(s) : t[i] = s[i]
  BY AppendTo
<1> HIDE DEF t
<1>2. CASE Edits(a)
  <2>1. Len(t) \in 1 .. Len(t) /\ t[Len(t)] = a /\ (Len(t) + 1) .. Len(t) = {}
    BY <1>1
  <2> QED BY <1>2, <2>1 DEF Due, t
<1>3. CASE m /\ ~Resets(a) /\ \A i \in 1 .. Len(s) : ~Resets(s[i])
  <2>1. ASSUME NEW i \in 1 .. Len(t) PROVE ~Resets(t[i])
    <3>1. i \in 1 .. Len(s) \/ i = Len(s) + 1
      BY <1>1
    <3> QED BY <3>1, <1>1, <1>3
  <2> QED BY <1>3, <2>1 DEF Due, t
<1>4. CASE /\ ~Resets(a)
           /\ \E i \in 1 .. Len(s) :
                 Edits(s[i]) /\ \A j \in (i + 1) .. Len(s) : ~Resets(s[j])
  <2>1. PICK i \in 1 .. Len(s) :
           Edits(s[i]) /\ \A j \in (i + 1) .. Len(s) : ~Resets(s[j])
    BY <1>4
  <2>2. i \in 1 .. Len(t) /\ Edits(t[i])
    BY <2>1, <1>1
  <2>3. ASSUME NEW j \in (i + 1) .. Len(t) PROVE ~Resets(t[j])
    <3>1. j = Len(s) + 1 \/ (j \in (i + 1) .. Len(s) /\ j \in 1 .. Len(s))
      BY <1>1
    <3> QED BY <3>1, <2>1, <1>1, <1>4
  <2> QED BY <2>2, <2>3 DEF Due, t
<1> QED BY <1>2, <1>3, <1>4 DEF Due

\* Handling the first answer leaves what is due as it was.
LEMMA DueTail ==
    ASSUME NEW s \in Seq(Answer), s # <<>>, NEW m \in BOOLEAN, NEW n \in BOOLEAN,
           n = (Edits(Head(s)) \/ (m /\ ~Resets(Head(s)))),
           Due(s, m)
    PROVE  Due(Tail(s), n)
<1> DEFINE t == Tail(s)
<1>1. /\ Head(s) = s[1] /\ Len(s) \in Nat \ {0} /\ Len(t) = Len(s) - 1
      /\ \A i \in 1 .. Len(t) : t[i] = s[i + 1]
  BY TailOf
<1> HIDE DEF t
<1>2. CASE m /\ \A i \in 1 .. Len(s) : ~Resets(s[i])
  <2>1. ~Resets(Head(s)) /\ \A i \in 1 .. Len(t) : ~Resets(t[i])
    <3>1. 1 \in 1 .. Len(s) /\ \A i \in 1 .. Len(t) : i + 1 \in 1 .. Len(s)
      BY <1>1
    <3> QED BY <3>1, <1>1, <1>2
  <2> QED BY <1>2, <2>1 DEF Due, t
<1>3. ASSUME NEW i \in 1 .. Len(s), Edits(s[i]),
             \A j \in (i + 1) .. Len(s) : ~Resets(s[j])
      PROVE  Due(t, n)
  <2>1. CASE i = 1
    <3>1. n
      BY <1>1, <1>3, <2>1
    <3>2. ASSUME NEW k \in 1 .. Len(t) PROVE ~Resets(t[k])
      <4>1. k + 1 \in (i + 1) .. Len(s)
        BY <1>1, <2>1
      <4> QED BY <4>1, <1>1, <1>3
    <3> QED BY <3>1, <3>2 DEF Due
  <2>2. CASE i # 1
    <3>1. i - 1 \in 1 .. Len(t) /\ t[i - 1] = s[i]
      BY <1>1, <2>2
    <3>2. ASSUME NEW k \in ((i - 1) + 1) .. Len(t) PROVE ~Resets(t[k])
      <4>1. k \in 1 .. Len(t) /\ k + 1 \in (i + 1) .. Len(s)
        BY <1>1
      <4> QED BY <4>1, <1>1, <1>3
    <3> QED BY <3>1, <3>2, <1>3 DEF Due
  <2> QED BY <2>1, <2>2
<1> QED BY <1>2, <1>3 DEF Due, t

LEMMA DueNothing ==
    ASSUME NEW m \in BOOLEAN, Due(<<>>, m)
    PROVE  m
  BY DEF Due

-----------------------------------------------------------------------------
(* The steps.                                                              *)

LEMMA SandboxTyped ==
    ASSUME SessionInv
    PROVE  /\ enabled \in [Labs -> BOOLEAN] /\ modified \in [Labs -> BOOLEAN]
           /\ locked \in [Labs -> BOOLEAN]
           /\ call \in [Users -> Call \cup {NoCall}]
           /\ agent \subseteq Operation
           /\ answers \in [Labs -> Seq(Answer)]
           /\ deployed \in [Labs -> Users \cup {Original}]
           /\ lost \subseteq Labs
  BY DEF SessionInv, SessionTypeOK

LEMMA ElementOf ==
    ASSUME NEW S, NEW s \in Seq(S), NEW i \in 1 .. Len(s)
    PROVE  s[i] \in S
  OBVIOUS

\* Operations and answers carry the names of users.
LEMMA UsersNamed ==
    ASSUME SessionInv
    PROVE  /\ \A op \in agent : op.user \in Users /\ op.kind \in Kinds /\ op.lab \in Labs
           /\ \A l \in Labs : \A i \in 1 .. Len(answers[l]) :
                 answers[l][i].user \in Users /\ answers[l][i].kind \in Kinds
<1>1. \A op \in agent : op.user \in Users /\ op.kind \in Kinds /\ op.lab \in Labs
  BY SandboxTyped DEF Operation
<1>2. ASSUME NEW l \in Labs, NEW i \in 1 .. Len(answers[l])
      PROVE  answers[l][i].user \in Users /\ answers[l][i].kind \in Kinds
  <2>1. answers[l] \in Seq(Answer)
    BY SandboxTyped
  <2>2. answers[l][i] \in Answer
    BY <2>1, ElementOf
  <2> QED BY <2>2 DEF Answer
<1> QED BY <1>1, <1>2

LEMMA AnswerAwaited ==
    ASSUME SessionInv, NEW l \in Labs, NEW i \in 1 .. Len(answers[l])
    PROVE  /\ call[answers[l][i].user] = [kind |-> answers[l][i].kind, lab |-> l]
           /\ call[answers[l][i].user].lab = l
           /\ answers[l][i].user \in Users
<1>1. call[answers[l][i].user] = [kind |-> answers[l][i].kind, lab |-> l]
  BY DEF SessionInv, Waiting, AnswersAwaited
<1> QED BY <1>1, UsersNamed

LEMMA AnswersApart ==
    ASSUME SessionInv, NEW l \in Labs, NEW i \in 1 .. Len(answers[l]),
           NEW j \in 1 .. Len(answers[l]), i # j
    PROVE  answers[l][i].user # answers[l][j].user
<1>1. AnswersAwaited
  BY DEF SessionInv, Waiting
<1>2. \A k \in 1 .. Len(answers[l]) : k # i => answers[l][k].user # answers[l][i].user
  BY <1>1 DEF AnswersAwaited
<1> QED BY <1>2

LEMMA OperationAwaited ==
    ASSUME SessionInv, NEW op \in agent, op.awaited
    PROVE  /\ call[op.user] = [kind |-> op.kind, lab |-> op.lab]
           /\ \A l \in Labs : \A i \in 1 .. Len(answers[l]) : answers[l][i].user # op.user
  BY DEF SessionInv, Waiting, OperationsAwaited

\* A user who waits for nothing has no operation and no answer.
LEMMA FreeUser ==
    ASSUME SessionInv, NEW u \in Users, call[u] = NoCall \/ call[u].kind = "probe"
    PROVE  /\ \A op \in agent : op.awaited => op.user # u
           /\ \A l \in Labs : \A i \in 1 .. Len(answers[l]) : answers[l][i].user # u
<1>1. \A k \in Kinds, l \in Labs : call[u] # [kind |-> k, lab |-> l]
  <2>1. ASSUME NEW k \in Kinds, NEW l \in Labs, call[u] = [kind |-> k, lab |-> l]
        PROVE  FALSE
    <3>1. k \notin {"none", "probe"}
      BY DEF Kinds
    <3>2. call[u].kind = k
      BY <2>1
    <3> QED BY <3>1, <3>2 DEF NoCall
  <2> QED BY <2>1
<1>2. ASSUME NEW op \in agent, op.awaited, op.user = u PROVE FALSE
  <2>1. call[u] = [kind |-> op.kind, lab |-> op.lab]
    BY <1>2 DEF SessionInv, Waiting, OperationsAwaited
  <2>2. op.kind \in Kinds /\ op.lab \in Labs
    BY UsersNamed
  <2> QED BY <1>1, <2>1, <2>2
<1>3. ASSUME NEW l \in Labs, NEW i \in 1 .. Len(answers[l]), answers[l][i].user = u
      PROVE  FALSE
  <2>1. call[u] = [kind |-> answers[l][i].kind, lab |-> l]
    BY <1>3 DEF SessionInv, Waiting, AnswersAwaited
  <2>2. answers[l][i].kind \in Kinds
    BY UsersNamed
  <2> QED BY <1>1, <2>1, <2>2
<1> QED BY <1>2, <1>3

\* Nobody waits about a lab whose answers are all handled.
LEMMA QuietLab ==
    ASSUME SessionInv, NEW l \in Labs, InFlight(l) = {}
    PROVE  answers[l] = <<>>
<1>1. answers[l] \in Seq(Answer)
  BY SandboxTyped
<1>2. ASSUME answers[l] # <<>> PROVE FALSE
  <2>1. 1 \in 1 .. Len(answers[l]) /\ answers[l][1] \in Answer
    BY <1>1, <1>2
  <2> DEFINE u == answers[l][1].user
  <2>2. u \in Users /\ answers[l][1].kind \in Kinds
    BY <2>1 DEF Answer
  <2>3. call[u] = [kind |-> answers[l][1].kind, lab |-> l]
    BY <2>1 DEF SessionInv, Waiting, AnswersAwaited
  <2>4. call[u] # NoCall /\ call[u].lab = l
    BY <2>2, <2>3 DEF NoCall, Kinds
  <2> QED BY <2>2, <2>4 DEF InFlight
<1> QED BY <1>2

\* An edited lab nobody works on carries the flag and has sandbox mode on.
LEMMA QuietEdit ==
    ASSUME SessionInv, NEW l \in Labs, l \notin lost,
           InFlight(l) = {}, deployed[l] # Original
    PROVE  modified[l] /\ enabled[l]
<1>1. Due(<<>>, modified[l])
  BY QuietLab DEF SessionInv, EditsRemembered
<1> QED
  BY <1>1, DueNothing, SandboxTyped DEF SessionInv, EditsEnabled

\* What the invariant asks besides the store's and the types.
FlagsFollow == Waiting /\ EditsRemembered /\ EditsEnabled

LEMMA NothingMoves ==
    ASSUME SessionInv, UNCHANGED sandboxVars
    PROVE  FlagsFollow'
  BY DEF SessionInv, sandboxVars, FlagsFollow, Waiting, OperationsAwaited, AnswersAwaited,
         AbandonedAreLost, EditsRemembered, EditsEnabled, EditUnderWay, InFlight

LEMMA SetEnabledFollows ==
    ASSUME SessionInv, NEW l \in Labs, NEW b \in BOOLEAN, SetEnabled(l, b)
    PROVE  FlagsFollow'
<1>1. /\ UNCHANGED <<call, agent, answers, deployed>> /\ lost \subseteq lost'
      /\ enabled' = [enabled EXCEPT ![l] = b]
      /\ modified' = [modified EXCEPT ![l] = @ /\ b]
  BY DEF SetEnabled
<1>2. Waiting'
  BY <1>1 DEF SessionInv, Waiting, OperationsAwaited, AnswersAwaited, AbandonedAreLost
<1>3. CASE b
  <2>1. modified' = modified /\ enabled' = [enabled EXCEPT ![l] = TRUE]
    BY <1>1, <1>3, SandboxTyped
  <2> QED
    BY <1>1, <1>2, <2>1, SandboxTyped
       DEF SessionInv, FlagsFollow, EditsRemembered, EditsEnabled, EditUnderWay, InFlight
<1>4. CASE ~b /\ (modified[l] \/ InFlight(l) # {})
  <2>1. l \in lost'
    BY <1>4 DEF SetEnabled
  <2>2. \A m \in Labs : m # l => modified'[m] = modified[m] /\ enabled'[m] = enabled[m]
    BY <1>1, SandboxTyped
  <2> QED
    BY <1>1, <1>2, <2>1, <2>2
       DEF SessionInv, FlagsFollow, EditsRemembered, EditsEnabled, EditUnderWay, InFlight
<1>5. CASE ~b /\ ~modified[l] /\ InFlight(l) = {}
  <2>1. \A m \in Labs : m # l => modified'[m] = modified[m] /\ enabled'[m] = enabled[m]
    BY <1>1, SandboxTyped
  <2>2. l \notin lost => deployed[l] = Original
    BY <1>5, QuietEdit
  <2>3. l \notin lost => ~EditUnderWay(l)
    <3> SUFFICES ASSUME l \notin lost, EditUnderWay(l) PROVE FALSE
      OBVIOUS
    <3>1. PICK op \in agent : op.kind = "apply" /\ op.lab = l
      BY <1>5 DEF EditUnderWay
    <3>2. op.awaited /\ op.user \in Users
      BY <3>1, SandboxTyped DEF SessionInv, Waiting, AbandonedAreLost, Operation
    <3>3. call[op.user] = [kind |-> op.kind, lab |-> l]
      BY <3>1, <3>2 DEF SessionInv, Waiting, OperationsAwaited
    <3>4. call[op.user] # NoCall /\ call[op.user].lab = l
      BY <3>1, <3>3 DEF NoCall
    <3> QED BY <1>5, <3>2, <3>4 DEF InFlight
  <2> QED
    BY <1>1, <1>2, <2>1, <2>2, <2>3
       DEF SessionInv, FlagsFollow, EditsRemembered, EditsEnabled, EditUnderWay, InFlight
<1> QED BY <1>3, <1>4, <1>5

\* A handler that suspends: a new operation of a user who had none.
LEMMA SubmissionWaits ==
    ASSUME SessionInv, NEW u \in Users, NEW k \in Kinds, NEW l \in Labs,
           call[u] = NoCall \/ call[u].kind = "probe",
           call' = [call EXCEPT ![u] = [kind |-> k, lab |-> l]],
           agent' = agent \cup {[kind |-> k, lab |-> l, user |-> u, awaited |-> TRUE]},
           UNCHANGED <<answers, lost>>
    PROVE  Waiting'
<1>1. /\ \A op \in agent : op.awaited => op.user # u
      /\ \A m \in Labs : \A i \in 1 .. Len(answers[m]) : answers[m][i].user # u
  BY FreeUser
<1>2. call'[u] = [kind |-> k, lab |-> l] /\ \A v \in Users : v # u => call'[v] = call[v]
  BY SandboxTyped
<1>3. \A op \in agent : op.user \in Users
  BY UsersNamed
<1>4. \A m \in Labs : \A i \in 1 .. Len(answers[m]) : answers[m][i].user \in Users
  BY UsersNamed
<1>5. OperationsAwaited'
  <2> DEFINE new == [kind |-> k, lab |-> l, user |-> u, awaited |-> TRUE]
  <2> SUFFICES ASSUME NEW op \in agent', op.awaited
               PROVE  /\ call'[op.user] = [kind |-> op.kind, lab |-> op.lab]
                      /\ \A m \in Labs : \A i \in 1 .. Len(answers[m]) :
                            answers[m][i].user # op.user
    BY DEF OperationsAwaited
  <2>1. CASE op \in agent
    BY <2>1, <1>1, <1>2, <1>3 DEF SessionInv, Waiting, OperationsAwaited
  <2>2. CASE op = new
    BY <2>2, <1>1, <1>2
  <2> QED BY <2>1, <2>2
<1>6. AnswersAwaited'
  BY <1>1, <1>2, <1>4 DEF SessionInv, Waiting, AnswersAwaited
<1>7. AbandonedAreLost'
  BY DEF SessionInv, Waiting, AbandonedAreLost
<1> QED BY <1>5, <1>6, <1>7 DEF Waiting

LEMMA ReleaseWithResetFollows ==
    ASSUME SessionInv, NEW u \in Users, NEW l \in Labs, ReleaseWithReset(u, l)
    PROVE  FlagsFollow'
<1>1. /\ call[u] = NoCall
      /\ call' = [call EXCEPT ![u] = [kind |-> "reset", lab |-> l]]
      /\ agent' = agent \cup {[kind |-> "reset", lab |-> l, user |-> u, awaited |-> TRUE]}
      /\ UNCHANGED <<enabled, modified, answers, deployed, lost>>
  BY DEF ReleaseWithReset, Suspend
<1>2. Waiting'
  BY <1>1, SubmissionWaits DEF Kinds
<1>3. EditsRemembered'
  BY <1>1 DEF SessionInv, EditsRemembered
<1>4. ASSUME NEW m \in Labs, EditUnderWay(m)' PROVE EditUnderWay(m)
  <2>1. \A v \in Users : v # u => call'[v] = call[v]
    BY <1>1, SandboxTyped
  <2>2. call'[u].kind = "reset"
    BY <1>1, SandboxTyped
  <2> QED BY <1>1, <1>4, <2>1, <2>2 DEF EditUnderWay, InFlight
<1>5. EditsEnabled'
  BY <1>1, <1>4 DEF SessionInv, EditsEnabled
<1> QED BY <1>2, <1>3, <1>5 DEF FlagsFollow

LEMMA ApplySandboxFollows ==
    ASSUME SessionInv, NEW u \in Users, NEW l \in Labs, ApplySandbox(u, l)
    PROVE  FlagsFollow'
<1>1. /\ call[u] = NoCall
      /\ call' = [call EXCEPT ![u] = [kind |-> "apply", lab |-> l]]
      /\ agent' = agent \cup {[kind |-> "apply", lab |-> l, user |-> u, awaited |-> TRUE]}
      /\ UNCHANGED <<enabled, modified, answers, deployed, lost>> /\ enabled[l]
  BY DEF ApplySandbox, Suspend
<1>2. Waiting'
  BY <1>1, SubmissionWaits DEF Kinds
<1>3. EditsRemembered'
  BY <1>1 DEF SessionInv, EditsRemembered
<1>4. ASSUME NEW m \in Labs, EditUnderWay(m)', m # l PROVE EditUnderWay(m)
  <2>1. \A v \in Users : v # u => call'[v] = call[v]
    BY <1>1, SandboxTyped
  <2>2. call'[u].lab = l
    BY <1>1, SandboxTyped
  <2> QED BY <1>1, <1>4, <2>1, <2>2 DEF EditUnderWay, InFlight
<1>5. EditsEnabled'
  BY <1>1, <1>4 DEF SessionInv, EditsEnabled
<1> QED BY <1>2, <1>3, <1>5 DEF FlagsFollow

LEMMA ProbeFollows ==
    ASSUME SessionInv, NEW u \in Users, NEW l \in Labs, ProbeCapacity(u, l)
    PROVE  FlagsFollow'
<1>1. /\ call[u] = NoCall
      /\ call' = [call EXCEPT ![u] = [kind |-> "probe", lab |-> l]]
      /\ UNCHANGED <<enabled, modified, agent, answers, deployed, lost>> /\ enabled[l]
  BY DEF ProbeCapacity
<1>2. /\ \A v \in Users : v # u => call'[v] = call[v]
      /\ call'[u].lab = l
  BY <1>1, SandboxTyped
<1>3. /\ \A op \in agent : op.awaited => op.user # u
      /\ \A m \in Labs : \A i \in 1 .. Len(answers[m]) : answers[m][i].user # u
  BY <1>1, FreeUser
<1>4. /\ \A op \in agent : op.user \in Users
      /\ \A m \in Labs : \A i \in 1 .. Len(answers[m]) : answers[m][i].user \in Users
  BY UsersNamed
<1>5. Waiting'
  BY <1>1, <1>2, <1>3, <1>4
     DEF SessionInv, Waiting, OperationsAwaited, AnswersAwaited, AbandonedAreLost
<1>6. EditsRemembered'
  BY <1>1 DEF SessionInv, EditsRemembered
<1>7. ASSUME NEW m \in Labs, EditUnderWay(m)', m # l PROVE EditUnderWay(m)
  BY <1>1, <1>2, <1>7 DEF EditUnderWay, InFlight
<1>8. EditsEnabled'
  BY <1>1, <1>7 DEF SessionInv, EditsEnabled
<1> QED BY <1>5, <1>6, <1>8 DEF FlagsFollow

LEMMA SubmitFollows ==
    ASSUME SessionInv, NEW u \in Users, Submit(u)
    PROVE  FlagsFollow'
<1> DEFINE l == call[u].lab
<1>1. /\ call[u] # NoCall /\ call[u].kind = "probe" /\ call[u] \in Call /\ l \in Labs
      /\ UNCHANGED <<enabled, modified, answers, deployed, lost>>
  BY SandboxTyped DEF Submit, Call
<1>2. EditsRemembered'
  BY <1>1 DEF SessionInv, EditsRemembered
<1>3. EditUnderWay(l)
  BY <1>1 DEF EditUnderWay, InFlight
<1>4. ASSUME \A m \in Labs : m # l /\ EditUnderWay(m)' => EditUnderWay(m)
      PROVE  EditsEnabled'
  BY <1>1, <1>3, <1>4 DEF SessionInv, EditsEnabled
<1>5. CASE call' = [call EXCEPT ![u] = NoCall] /\ UNCHANGED agent
  <2>1. call'[u] = NoCall /\ \A v \in Users : v # u => call'[v] = call[v]
    BY <1>5, SandboxTyped
  <2>2. /\ \A op \in agent : op.awaited => op.user # u
        /\ \A m \in Labs : \A i \in 1 .. Len(answers[m]) : answers[m][i].user # u
    BY <1>1, FreeUser
  <2>3. /\ \A op \in agent : op.user \in Users
        /\ \A m \in Labs : \A i \in 1 .. Len(answers[m]) : answers[m][i].user \in Users
    BY UsersNamed
  <2>4. Waiting'
    BY <1>1, <1>5, <2>1, <2>2, <2>3
       DEF SessionInv, Waiting, OperationsAwaited, AnswersAwaited, AbandonedAreLost
  <2>5. \A m \in Labs : m # l /\ EditUnderWay(m)' => EditUnderWay(m)
    BY <1>5, <2>1 DEF EditUnderWay, InFlight
  <2> QED BY <1>2, <1>4, <2>4, <2>5 DEF FlagsFollow
<1>6. CASE /\ call' = [call EXCEPT ![u].kind = "apply"]
           /\ agent' = agent \cup {[kind |-> "apply", lab |-> l, user |-> u, awaited |-> TRUE]}
  <2>1. [call[u] EXCEPT !.kind = "apply"] = [kind |-> "apply", lab |-> l]
    BY <1>1 DEF Call
  <2>2. call' = [call EXCEPT ![u] = [kind |-> "apply", lab |-> l]]
    BY <1>6, <2>1
  <2>3. Waiting'
    BY <1>1, <1>6, <2>2, SubmissionWaits DEF Kinds
  <2>4. call'[u].lab = l /\ \A v \in Users : v # u => call'[v] = call[v]
    BY <2>2, SandboxTyped
  <2>5. \A m \in Labs : m # l /\ EditUnderWay(m)' => EditUnderWay(m)
    BY <1>6, <2>4 DEF EditUnderWay, InFlight
  <2> QED BY <1>2, <1>4, <2>3, <2>5 DEF FlagsFollow
<1> QED BY <1>5, <1>6 DEF Submit

\* The handler of the oldest answer resumes: its user is free again, and the
\* flag moves as the answer says.
LEMMA ResumeEffect ==
    ASSUME SessionInv, NEW l \in Labs, Resume(l)
    PROVE  LET a == Head(answers[l]) IN
           /\ answers[l] # <<>> /\ a = answers[l][1] /\ a \in Answer
           /\ call' = [call EXCEPT ![a.user] = NoCall]
           /\ answers' = [answers EXCEPT ![l] = Tail(@)]
           /\ modified' = [modified EXCEPT ![l] = Edits(a) \/ (modified[l] /\ ~Resets(a))]
           /\ UNCHANGED <<enabled, locked, agent, deployed, lost>>
<1> DEFINE a == Head(answers[l])
<1>1. answers[l] # <<>> /\ answers[l] \in Seq(Answer)
  BY SandboxTyped DEF Resume
<1>2. a = answers[l][1] /\ a \in Answer
  BY <1>1, TailOf
<1>3. /\ call' = [call EXCEPT ![a.user] = NoCall]
      /\ answers' = [answers EXCEPT ![l] = Tail(@)]
      /\ UNCHANGED <<enabled, locked, agent, deployed, lost>>
      /\ \/ a.kind = "reset" /\ ResumeRelease(a.user, l, a)
         \/ a.kind = "apply" /\ ResumeApply(a.user, l, a)
  BY DEF Resume
<1>4. modified \in [Labs -> BOOLEAN] /\ a.ok \in BOOLEAN /\ a.changed \in BOOLEAN
  BY <1>2, SandboxTyped DEF Answer
<1> HIDE DEF a
<1>5. modified' = [modified EXCEPT ![l] = Edits(a) \/ (modified[l] /\ ~Resets(a))]
  <2>1. CASE a.kind = "reset" /\ ResumeRelease(a.user, l, a) /\ a.ok
    <3>1. ~Edits(a) /\ Resets(a) /\ modified' = [modified EXCEPT ![l] = FALSE]
      BY <2>1 DEF Edits, Resets, ResumeRelease
    <3> QED BY <3>1
  <2>2. CASE a.kind = "reset" /\ ResumeRelease(a.user, l, a) /\ ~a.ok
    <3>1. ~Edits(a) /\ ~Resets(a) /\ modified' = modified
      BY <2>2 DEF Edits, Resets, ResumeRelease
    <3> QED BY <3>1, <1>4
  <2>3. CASE a.kind = "apply" /\ ResumeApply(a.user, l, a)
    <3>1. ~Resets(a) /\ modified' = [modified EXCEPT ![l] = @ \/ Edits(a)]
      BY <2>3 DEF Edits, Resets, ResumeApply
    <3> QED BY <3>1, <1>4
  <2> QED BY <1>3, <2>1, <2>2, <2>3
<1> QED BY <1>1, <1>2, <1>3, <1>5 DEF a

LEMMA ResumeFollows ==
    ASSUME SessionInv, NEW l \in Labs, Resume(l)
    PROVE  FlagsFollow'
<1> DEFINE s == answers[l]
           a == Head(s)
<1>1. /\ s # <<>> /\ a = s[1] /\ a \in Answer
      /\ call' = [call EXCEPT ![a.user] = NoCall]
      /\ answers' = [answers EXCEPT ![l] = Tail(s)]
      /\ modified' = [modified EXCEPT ![l] = Edits(a) \/ (modified[l] /\ ~Resets(a))]
      /\ UNCHANGED <<enabled, locked, agent, deployed, lost>>
  BY ResumeEffect
<1>2. s \in Seq(Answer)
  BY SandboxTyped
<1>3. /\ Len(s) \in Nat \ {0} /\ Len(Tail(s)) = Len(s) - 1
      /\ \A i \in 1 .. Len(Tail(s)) : Tail(s)[i] = s[i + 1]
  BY <1>1, <1>2, TailOf
<1>4. /\ answers'[l] = Tail(s)
      /\ \A m \in Labs : m # l => answers'[m] = answers[m] /\ modified'[m] = modified[m]
      /\ modified'[l] = (Edits(a) \/ (modified[l] /\ ~Resets(a)))
  BY <1>1, SandboxTyped
<1>5. a.user \in Users /\ call'[a.user] = NoCall
      /\ \A v \in Users : v # a.user => call'[v] = call[v]
  BY <1>1, SandboxTyped DEF Answer
<1> HIDE DEF a, s
\* The user of the answer waits for no other operation or answer.
<1>6. ASSUME NEW op \in agent, op.awaited PROVE op.user # a.user
  <2>1. 1 \in 1 .. Len(s)
    BY <1>3
  <2> QED BY <1>1, <1>6, <2>1, OperationAwaited DEF s
<1>7. ASSUME NEW m \in Labs, NEW i \in 1 .. Len(answers'[m])
      PROVE  \E j \in 1 .. Len(answers[m]) :
                /\ answers'[m][i] = answers[m][j] /\ answers[m][j].user # a.user
                /\ j = IF m = l THEN i + 1 ELSE i
  <2>1. CASE m = l
    <3>1. i + 1 \in 1 .. Len(s) /\ 1 \in 1 .. Len(s) /\ i + 1 # 1
      BY <1>3, <1>4, <2>1
    <3>2. s[i + 1].user # s[1].user
      BY <3>1, AnswersApart DEF s
    <3>3. answers'[m][i] = s[i + 1]
      BY <1>3, <1>4, <2>1
    <3> QED BY <1>1, <2>1, <3>1, <3>2, <3>3 DEF s
  <2>2. CASE m # l
    <3>1. answers'[m] = answers[m]
      BY <1>4, <2>2
    <3>2. call[a.user].lab = l
      <4>1. 1 \in 1 .. Len(s)
        BY <1>3
      <4>2. call[answers[l][1].user].lab = l
        BY <4>1, AnswerAwaited DEF s
      <4> QED BY <1>1, <4>2 DEF s
    <3>3. i \in 1 .. Len(answers[m]) /\ call[answers[m][i].user].lab = m
      BY <3>1, AnswerAwaited
    <3> QED BY <2>2, <3>1, <3>2, <3>3
  <2> QED BY <2>1, <2>2
<1>8. OperationsAwaited'
  <2> SUFFICES ASSUME NEW op \in agent, op.awaited
               PROVE  /\ call'[op.user] = [kind |-> op.kind, lab |-> op.lab]
                      /\ \A m \in Labs : \A i \in 1 .. Len(answers'[m]) :
                            answers'[m][i].user # op.user
    BY <1>1 DEF OperationsAwaited
  <2>1. call'[op.user] = call[op.user]
    BY <1>5, <1>6, UsersNamed
  <2> QED BY <1>7, <2>1 DEF SessionInv, Waiting, OperationsAwaited
<1>9. AnswersAwaited'
  <2> SUFFICES ASSUME NEW m \in Labs, NEW i \in 1 .. Len(answers'[m])
               PROVE  /\ call'[answers'[m][i].user]
                           = [kind |-> answers'[m][i].kind, lab |-> m]
                      /\ \A j \in 1 .. Len(answers'[m]) :
                            j # i => answers'[m][j].user # answers'[m][i].user
    BY DEF AnswersAwaited
  <2>1. PICK k \in 1 .. Len(answers[m]) :
           /\ answers'[m][i] = answers[m][k] /\ answers[m][k].user # a.user
           /\ k = IF m = l THEN i + 1 ELSE i
    BY <1>7
  <2>2. call'[answers'[m][i].user] = [kind |-> answers'[m][i].kind, lab |-> m]
    BY <1>5, <2>1, UsersNamed DEF SessionInv, Waiting, AnswersAwaited
  <2>3. ASSUME NEW j \in 1 .. Len(answers'[m]), j # i
        PROVE  answers'[m][j].user # answers'[m][i].user
    <3>1. PICK n \in 1 .. Len(answers[m]) :
             answers'[m][j] = answers[m][n] /\ n = IF m = l THEN j + 1 ELSE j
      BY <1>7
    <3>2. n # k
      BY <2>1, <2>3, <3>1
    <3>3. answers[m][n].user # answers[m][k].user
      BY <3>2, AnswersApart
    <3> QED BY <2>1, <3>1, <3>3
  <2> QED BY <2>2, <2>3
<1>10. AbandonedAreLost'
  BY <1>1 DEF SessionInv, Waiting, AbandonedAreLost
<1>11. EditsRemembered'
  <2>1. Due(s, modified[l]) => Due(Tail(s), modified'[l])
    <3>1. modified[l] \in BOOLEAN /\ modified'[l] \in BOOLEAN
      BY <1>4, SandboxTyped DEF Edits, Resets
    <3> QED BY <1>1, <1>2, <1>4, <3>1, DueTail DEF a
  <2> QED BY <1>1, <1>4, <2>1 DEF SessionInv, EditsRemembered, s
<1>12. \A m \in Labs : EditUnderWay(m)' => EditUnderWay(m)
  BY <1>1, <1>5 DEF EditUnderWay, InFlight
<1>13. EditsEnabled'
  BY <1>1, <1>12 DEF SessionInv, EditsEnabled
<1> QED BY <1>8, <1>9, <1>10, <1>11, <1>13 DEF FlagsFollow, Waiting

\* An operation that has no caller any more.
LEMMA TimeoutFollows ==
    ASSUME SessionInv, NEW op \in agent, Timeout(op)
    PROVE  FlagsFollow'
<1> DEFINE left == [op EXCEPT !.awaited = FALSE]
<1>1. /\ op.awaited /\ agent' = (agent \ {op}) \cup {left}
      /\ call' = [call EXCEPT ![op.user] = NoCall]
      /\ lost \subseteq lost' /\ (op.kind = "apply" => op.lab \in lost')
      /\ UNCHANGED <<enabled, modified, answers, deployed>>
  BY DEF Timeout
<1>2. /\ op \in Operation /\ op.user \in Users
      /\ left.kind = op.kind /\ left.lab = op.lab /\ ~left.awaited
  BY SandboxTyped DEF Operation
<1> HIDE DEF left
<1>3. /\ call[op.user] = [kind |-> op.kind, lab |-> op.lab]
      /\ \A m \in Labs : \A i \in 1 .. Len(answers[m]) : answers[m][i].user # op.user
  BY <1>1 DEF SessionInv, Waiting, OperationsAwaited
<1>4. call'[op.user] = NoCall /\ \A v \in Users : v # op.user => call'[v] = call[v]
  BY <1>1, <1>2, SandboxTyped
\* The caller had this operation only.
<1>5. ASSUME NEW o \in agent, o.awaited, o.user = op.user PROVE o = op
  <2>1. [kind |-> o.kind, lab |-> o.lab] = [kind |-> op.kind, lab |-> op.lab]
    BY <1>3, <1>5 DEF SessionInv, Waiting, OperationsAwaited
  <2>2. o \in Operation /\ o.kind = op.kind /\ o.lab = op.lab
    BY <2>1, SandboxTyped
  <2> QED BY <1>1, <1>2, <1>5, <2>2 DEF Operation
<1>6. OperationsAwaited'
  BY <1>1, <1>2, <1>4, <1>5, UsersNamed DEF SessionInv, Waiting, OperationsAwaited
<1>7. AnswersAwaited'
  BY <1>1, <1>3, <1>4, UsersNamed DEF SessionInv, Waiting, AnswersAwaited
<1>8. AbandonedAreLost'
  BY <1>1, <1>2 DEF SessionInv, Waiting, AbandonedAreLost
<1>9. EditsRemembered'
  BY <1>1 DEF SessionInv, EditsRemembered
<1>10. ASSUME NEW m \in Labs, m \notin lost', EditUnderWay(m)' PROVE EditUnderWay(m)
  BY <1>1, <1>2, <1>4, <1>10 DEF EditUnderWay, InFlight
<1>11. EditsEnabled'
  BY <1>1, <1>10 DEF SessionInv, EditsEnabled
<1> QED BY <1>6, <1>7, <1>8, <1>9, <1>11 DEF FlagsFollow, Waiting

\* The agent answers: the waiting handler finds its answer at the end of the
\* lab's queue.
LEMMA AnswerEffect ==
    ASSUME SessionInv, NEW op \in agent, NEW ok \in BOOLEAN, NEW changed \in BOOLEAN,
           Answered(op, ok, changed)
    PROVE  LET a == [kind |-> op.kind, user |-> op.user, ok |-> ok, changed |-> changed] IN
           /\ a \in Answer /\ op.lab \in Labs
           /\ agent' = agent \ {op} /\ UNCHANGED <<enabled, modified, call>>
           /\ \A m \in Labs : m # op.lab \/ ~op.awaited => answers'[m] = answers[m]
           /\ op.awaited => answers'[op.lab] = Append(answers[op.lab], a)
<1>1. op \in Operation
  BY SandboxTyped
<1> QED BY <1>1, SandboxTyped DEF Answered, Operation, Answer

LEMMA AnswerWaits ==
    ASSUME SessionInv, NEW op \in agent, NEW ok \in BOOLEAN, NEW changed \in BOOLEAN,
           Answered(op, ok, changed)
    PROVE  OperationsAwaited' /\ AnswersAwaited'
<1> DEFINE a == [kind |-> op.kind, user |-> op.user, ok |-> ok, changed |-> changed]
           l == op.lab
           s == answers[l]
<1>1. /\ a \in Answer /\ l \in Labs /\ agent' = agent \ {op} /\ UNCHANGED call
      /\ \A m \in Labs : m # l \/ ~op.awaited => answers'[m] = answers[m]
      /\ op.awaited => answers'[l] = Append(s, a)
      /\ a.user = op.user /\ a.kind = op.kind
  BY AnswerEffect
<1>2. s \in Seq(Answer)
  BY <1>1, SandboxTyped
<1>3. /\ Len(s) \in Nat /\ Len(Append(s, a)) = Len(s) + 1
      /\ Append(s, a)[Len(s) + 1] = a
      /\ \A i \in 1 .. Len(s) : Append(s, a)[i] = s[i]
  BY <1>1, <1>2, AppendTo
<1>4. op.awaited =>
        /\ call[op.user] = [kind |-> op.kind, lab |-> l]
        /\ \A m \in Labs : \A i \in 1 .. Len(answers[m]) : answers[m][i].user # op.user
  BY DEF SessionInv, Waiting, OperationsAwaited
<1>5. ASSUME NEW o \in agent, o.awaited, o.user = op.user, op.awaited PROVE o = op
  <2>1. [kind |-> o.kind, lab |-> o.lab] = [kind |-> op.kind, lab |-> op.lab]
    BY <1>4, <1>5 DEF SessionInv, Waiting, OperationsAwaited
  <2>2. o \in Operation /\ op \in Operation /\ o.kind = op.kind /\ o.lab = op.lab
    BY <2>1, SandboxTyped
  <2> QED BY <1>5, <2>2 DEF Operation
<1> HIDE DEF a
\* An answer that is there now was there before or is the new one.
<1>6. ASSUME NEW m \in Labs, NEW i \in 1 .. Len(answers'[m])
      PROVE  \/ i \in 1 .. Len(answers[m]) /\ answers'[m][i] = answers[m][i]
             \/ op.awaited /\ m = l /\ i = Len(s) + 1 /\ answers'[m][i] = a
  <2>1. CASE m # l \/ ~op.awaited
    BY <1>1, <2>1
  <2>2. CASE m = l /\ op.awaited
    BY <1>1, <1>3, <2>2
  <2> QED BY <2>1, <2>2
<1> HIDE DEF s, l
<1>7. OperationsAwaited'
  <2> SUFFICES ASSUME NEW o \in agent, o # op, o.awaited
               PROVE  /\ call[o.user] = [kind |-> o.kind, lab |-> o.lab]
                      /\ \A m \in Labs : \A i \in 1 .. Len(answers'[m]) :
                            answers'[m][i].user # o.user
    BY <1>1 DEF OperationsAwaited
  <2>1. /\ call[o.user] = [kind |-> o.kind, lab |-> o.lab]
        /\ \A m \in Labs : \A i \in 1 .. Len(answers[m]) : answers[m][i].user # o.user
    BY DEF SessionInv, Waiting, OperationsAwaited
  <2> QED BY <1>1, <1>5, <1>6, <2>1
<1>8. AnswersAwaited'
  <2> SUFFICES ASSUME NEW m \in Labs, NEW i \in 1 .. Len(answers'[m])
               PROVE  /\ call[answers'[m][i].user]
                           = [kind |-> answers'[m][i].kind, lab |-> m]
                      /\ \A j \in 1 .. Len(answers'[m]) :
                            j # i => answers'[m][j].user # answers'[m][i].user
    BY <1>1 DEF AnswersAwaited
  <2>1. CASE i \in 1 .. Len(answers[m]) /\ answers'[m][i] = answers[m][i]
    <3>1. call[answers[m][i].user] = [kind |-> answers[m][i].kind, lab |-> m]
      BY <2>1 DEF SessionInv, Waiting, AnswersAwaited
    <3>2. ASSUME NEW j \in 1 .. Len(answers'[m]), j # i
          PROVE  answers'[m][j].user # answers[m][i].user
      <4>1. CASE j \in 1 .. Len(answers[m]) /\ answers'[m][j] = answers[m][j]
        <5>1. answers[m][j].user # answers[m][i].user
          BY <2>1, <3>2, <4>1, AnswersApart
        <5> QED BY <4>1, <5>1
      <4>2. CASE op.awaited /\ answers'[m][j] = a
        BY <1>1, <1>4, <2>1, <4>2
      <4> QED BY <1>6, <4>1, <4>2
    <3> QED BY <2>1, <3>1, <3>2
  <2>2. CASE op.awaited /\ m = l /\ i = Len(s) + 1 /\ answers'[m][i] = a
    <3>1. call[a.user] = [kind |-> a.kind, lab |-> m]
      BY <1>1, <1>4, <2>2
    <3>2. ASSUME NEW j \in 1 .. Len(answers'[m]), j # i
          PROVE  answers'[m][j].user # a.user
      <4>1. j \in 1 .. Len(answers[m]) /\ answers'[m][j] = answers[m][j]
        BY <1>6, <2>2, <3>2
      <4> QED BY <1>1, <1>4, <2>2, <4>1
    <3> QED BY <2>2, <3>1, <3>2
  <2> QED BY <1>6, <2>1, <2>2
<1> QED BY <1>7, <1>8

LEMMA AgentRunsFollows ==
    ASSUME SessionInv, NEW op \in agent, AgentRuns(op)
    PROVE  FlagsFollow'
<1>1. op \in Operation /\ op.lab \in Labs /\ op.kind \in Kinds
  BY SandboxTyped DEF Operation
<1>2. ASSUME NEW m \in Labs, agent' \subseteq agent, UNCHANGED call, EditUnderWay(m)'
      PROVE  EditUnderWay(m)
  BY <1>2 DEF EditUnderWay, InFlight
<1>3. ASSUME NEW left \in Users \cup {Original}, AgentFails(op, left)
      PROVE  FlagsFollow'
  <2> DEFINE a == [kind |-> op.kind, user |-> op.user, ok |-> FALSE, changed |-> FALSE]
  <2>1. /\ Answered(op, FALSE, FALSE)
        /\ deployed' = [deployed EXCEPT ![op.lab] = left]
        /\ lost \subseteq lost'
        /\ deployed[op.lab] = Original /\ left # Original => op.lab \in lost'
    BY <1>3 DEF AgentFails
  <2>2. /\ a \in Answer /\ agent' = agent \ {op} /\ UNCHANGED <<enabled, modified, call>>
        /\ \A m \in Labs : m # op.lab \/ ~op.awaited => answers'[m] = answers[m]
        /\ op.awaited => answers'[op.lab] = Append(answers[op.lab], a)
        /\ ~a.ok
    BY <2>1, AnswerEffect
  <2>3. Waiting'
    BY <2>1, <2>2, AnswerWaits DEF SessionInv, Waiting, AbandonedAreLost
  <2> HIDE DEF a
  <2>4. op.awaited /\ Due(answers[op.lab], modified[op.lab])
           => Due(answers'[op.lab], modified[op.lab])
    <3>1. answers[op.lab] \in Seq(Answer) /\ modified[op.lab] \in BOOLEAN /\ ~Resets(a)
      BY <1>1, <2>2, SandboxTyped DEF Resets
    <3> QED BY <2>2, <3>1, DueAppend
  <2>5. ASSUME NEW m \in Labs \ lost', deployed'[m] # Original
        PROVE  m \notin lost /\ deployed[m] # Original
    BY <1>1, <2>1, <2>5, SandboxTyped
  <2>6. EditsRemembered'
    BY <2>2, <2>4, <2>5 DEF SessionInv, EditsRemembered
  <2>7. EditsEnabled'
    BY <1>2, <2>1, <2>2, <2>5 DEF SessionInv, EditsEnabled
  <2> QED BY <2>3, <2>6, <2>7 DEF FlagsFollow
<1>4. CASE AgentResets(op)
  <2>1. /\ Answered(op, TRUE, FALSE) /\ op.kind = "reset"
        /\ deployed' = [deployed EXCEPT ![op.lab] = Original]
        /\ lost' = IF EditUnderWay(op.lab) THEN lost ELSE lost \ {op.lab}
    BY <1>4 DEF AgentResets
  <2>2. /\ agent' = agent \ {op} /\ UNCHANGED <<enabled, modified, call>>
        /\ \A m \in Labs : m # op.lab => answers'[m] = answers[m]
    BY <2>1, AnswerEffect
  <2>3. deployed'[op.lab] = Original /\ \A m \in Labs : m # op.lab => deployed'[m] = deployed[m]
    BY <1>1, <2>1, SandboxTyped
  <2>4. AbandonedAreLost'
    <3> SUFFICES ASSUME NEW o \in agent, o.kind = "apply", ~o.awaited PROVE o.lab \in lost'
      BY <2>2 DEF AbandonedAreLost
    <3>1. o.lab \in lost
      BY DEF SessionInv, Waiting, AbandonedAreLost
    <3>2. o.lab = op.lab => EditUnderWay(op.lab)
      BY DEF EditUnderWay
    <3> QED BY <2>1, <3>1, <3>2
  <2>5. Waiting'
    BY <2>1, <2>4, AnswerWaits DEF Waiting
  <2>6. ASSUME NEW m \in Labs, m \notin lost' PROVE m \notin lost \/ (m = op.lab /\ ~EditUnderWay(m))
    BY <2>1, <2>6
  <2>7. EditsRemembered'
    BY <2>2, <2>3, <2>6 DEF SessionInv, EditsRemembered
  <2>8. EditsEnabled'
    BY <1>2, <2>2, <2>3, <2>6 DEF SessionInv, EditsEnabled
  <2> QED BY <2>5, <2>7, <2>8 DEF FlagsFollow
<1>5. ASSUME NEW changed \in BOOLEAN, NEW left \in Users \cup {Original},
             Answered(op, TRUE, changed), op.kind = "apply",
             deployed' = [deployed EXCEPT ![op.lab] = left],
             ~changed => left = deployed[op.lab],
             UNCHANGED lost
      PROVE  FlagsFollow'
  <2> DEFINE a == [kind |-> op.kind, user |-> op.user, ok |-> TRUE, changed |-> changed]
  <2>1. /\ Answered(op, TRUE, changed) /\ op.kind = "apply"
        /\ deployed' = [deployed EXCEPT ![op.lab] = left]
        /\ ~changed => left = deployed[op.lab]
        /\ UNCHANGED lost
    BY <1>5
  <2>2. /\ a \in Answer /\ agent' = agent \ {op} /\ UNCHANGED <<enabled, modified, call>>
        /\ \A m \in Labs : m # op.lab \/ ~op.awaited => answers'[m] = answers[m]
        /\ op.awaited => answers'[op.lab] = Append(answers[op.lab], a)
        /\ a.kind = "apply" /\ a.ok = TRUE /\ a.changed = changed
    BY <2>1, AnswerEffect
  <2>3. Waiting'
    BY <2>1, <2>2, AnswerWaits DEF SessionInv, Waiting, AbandonedAreLost
  <2> HIDE DEF a
  <2>4. deployed'[op.lab] = left /\ \A m \in Labs : m # op.lab => deployed'[m] = deployed[m]
    BY <1>1, <2>1, SandboxTyped
  <2>5. ~op.awaited => op.lab \in lost
    BY <2>1 DEF SessionInv, Waiting, AbandonedAreLost
  <2>6. op.awaited /\ (changed \/ Due(answers[op.lab], modified[op.lab]))
           => Due(answers'[op.lab], modified[op.lab])
    <3>1. answers[op.lab] \in Seq(Answer) /\ modified[op.lab] \in BOOLEAN
      BY <1>1, SandboxTyped
    <3>2. ~Resets(a) /\ (changed => Edits(a))
      BY <2>2 DEF Resets, Edits
    <3> QED BY <2>2, <3>1, <3>2, DueAppend
  <2>7. EditsRemembered'
    BY <2>1, <2>2, <2>4, <2>5, <2>6 DEF SessionInv, EditsRemembered
  <2>8. EditUnderWay(op.lab)
    BY <2>1 DEF EditUnderWay
  <2>9. EditsEnabled'
    BY <1>2, <2>1, <2>2, <2>4, <2>8 DEF SessionInv, EditsEnabled
  <2> QED BY <2>3, <2>7, <2>9 DEF FlagsFollow
<1>6. ASSUME NEW submitted \in {op.user, Original}, AgentApplies(op, submitted)
      PROVE  FlagsFollow'
  <2>1. submitted \in Users \cup {Original}
    BY UsersNamed
  <2> QED BY <1>5, <1>6, <2>1 DEF AgentApplies
<1>7. CASE AgentKeeps(op)
  <2>1. /\ deployed[op.lab] \in Users \cup {Original}
        /\ deployed' = [deployed EXCEPT ![op.lab] = deployed[op.lab]]
    BY <1>1, <1>7, SandboxTyped DEF AgentKeeps
  <2> QED BY <1>5, <1>7, <2>1 DEF AgentKeeps
<1> QED BY <1>3, <1>4, <1>6, <1>7 DEF AgentRuns

\* What a handler that suspends or submits adds has its type.
LEMMA SubmissionTyped ==
    ASSUME SessionInv, NEW u \in Users, NEW k \in Kinds, NEW l \in Labs,
           call' = [call EXCEPT ![u] = [kind |-> k, lab |-> l]],
           agent' = agent \cup {[kind |-> k, lab |-> l, user |-> u, awaited |-> TRUE]}
    PROVE  call' \in [Users -> Call \cup {NoCall}] /\ agent' \subseteq Operation
<1>1. /\ [kind |-> k, lab |-> l] \in Call
      /\ [kind |-> k, lab |-> l, user |-> u, awaited |-> TRUE] \in Operation
  BY DEF Call, Operation
<1> QED BY <1>1, SandboxTyped

\* Every step keeps the types and what the flags follow.
SandboxTypes ==
    /\ enabled \in [Labs -> BOOLEAN] /\ modified \in [Labs -> BOOLEAN]
    /\ locked \in [Labs -> BOOLEAN]
    /\ call \in [Users -> Call \cup {NoCall}]
    /\ agent \subseteq Operation
    /\ answers \in [Labs -> Seq(Answer)]
    /\ deployed \in [Labs -> Users \cup {Original}]
    /\ lost \subseteq Labs

LEMMA SessionStepFollows ==
    ASSUME SessionInv, [SessionNext]_vars
    PROVE  SandboxTypes' /\ FlagsFollow'
<1>1. SandboxTypes
  BY SandboxTyped DEF SandboxTypes
<1>2. CASE UNCHANGED sandboxVars
  BY <1>1, <1>2, NothingMoves DEF SandboxTypes, sandboxVars
<1>3. ASSUME NEW u \in Users, NEW l \in Labs, ReleaseWithReset(u, l)
      PROVE  SandboxTypes' /\ FlagsFollow'
  <2>1. /\ call' = [call EXCEPT ![u] = [kind |-> "reset", lab |-> l]]
        /\ agent' = agent \cup {[kind |-> "reset", lab |-> l, user |-> u, awaited |-> TRUE]}
        /\ UNCHANGED <<enabled, modified, locked, answers, deployed, lost>>
    BY <1>3 DEF ReleaseWithReset, Suspend
  <2>2. call' \in [Users -> Call \cup {NoCall}] /\ agent' \subseteq Operation
    BY <2>1, SubmissionTyped DEF Kinds
  <2> QED BY <1>1, <1>3, <2>1, <2>2, ReleaseWithResetFollows DEF SandboxTypes
<1>4. ASSUME NEW u \in Users, NEW l \in Labs, ApplySandbox(u, l)
      PROVE  SandboxTypes' /\ FlagsFollow'
  <2>1. /\ call' = [call EXCEPT ![u] = [kind |-> "apply", lab |-> l]]
        /\ agent' = agent \cup {[kind |-> "apply", lab |-> l, user |-> u, awaited |-> TRUE]}
        /\ UNCHANGED <<enabled, modified, locked, answers, deployed, lost>>
    BY <1>4 DEF ApplySandbox, Suspend
  <2>2. call' \in [Users -> Call \cup {NoCall}] /\ agent' \subseteq Operation
    BY <2>1, SubmissionTyped DEF Kinds
  <2> QED BY <1>1, <1>4, <2>1, <2>2, ApplySandboxFollows DEF SandboxTypes
<1>5. ASSUME NEW u \in Users, NEW l \in Labs, ProbeCapacity(u, l)
      PROVE  SandboxTypes' /\ FlagsFollow'
  <2>1. [kind |-> "probe", lab |-> l] \in Call
    BY DEF Call
  <2> QED BY <1>1, <1>5, <2>1, ProbeFollows DEF ProbeCapacity, SandboxTypes
<1>6. ASSUME NEW l \in Labs, NEW b \in BOOLEAN, SetEnabled(l, b)
      PROVE  SandboxTypes' /\ FlagsFollow'
  <2>1. lost' \subseteq Labs
    BY <1>1, <1>6 DEF SetEnabled, SandboxTypes
  <2>2. modified' \in [Labs -> BOOLEAN] /\ enabled' \in [Labs -> BOOLEAN]
    BY <1>1, <1>6 DEF SetEnabled, SandboxTypes
  <2> QED BY <1>1, <1>6, <2>1, <2>2, SetEnabledFollows DEF SetEnabled, SandboxTypes
<1>7. ASSUME NEW l \in Labs, NEW b \in BOOLEAN, SetLocked(l, b)
      PROVE  SandboxTypes' /\ FlagsFollow'
  <2>1. UNCHANGED <<enabled, modified, call, agent, answers, deployed, lost>>
    BY <1>7 DEF SetLocked
  <2>2. locked' \in [Labs -> BOOLEAN]
    BY <1>1, <1>7 DEF SetLocked, SandboxTypes
  <2>3. FlagsFollow'
    BY <2>1 DEF SessionInv, FlagsFollow, Waiting, OperationsAwaited, AnswersAwaited,
         AbandonedAreLost, EditsRemembered, EditsEnabled, EditUnderWay, InFlight
  <2> QED BY <1>1, <2>1, <2>2, <2>3 DEF SandboxTypes
<1>8. ASSUME NEW u \in Users, Submit(u) PROVE SandboxTypes' /\ FlagsFollow'
  <2>1. call[u] \in Call
    BY <1>1, <1>8 DEF Submit, SandboxTypes
  <2>2. /\ [call[u] EXCEPT !.kind = "apply"] \in Call
        /\ [kind |-> "apply", lab |-> call[u].lab, user |-> u, awaited |-> TRUE] \in Operation
    BY <2>1 DEF Call, Operation, Kinds
  <2>3. call' \in [Users -> Call \cup {NoCall}] /\ agent' \subseteq Operation
    BY <1>1, <1>8, <2>2 DEF Submit, SandboxTypes
  <2> QED BY <1>1, <1>8, <2>3, SubmitFollows DEF Submit, SandboxTypes
<1>9. ASSUME NEW l \in Labs, Resume(l) PROVE SandboxTypes' /\ FlagsFollow'
  <2> DEFINE a == Head(answers[l])
  <2>1. /\ call' = [call EXCEPT ![a.user] = NoCall]
        /\ answers' = [answers EXCEPT ![l] = Tail(@)] /\ answers[l] # <<>>
        /\ modified' = [modified EXCEPT ![l] = Edits(a) \/ (modified[l] /\ ~Resets(a))]
        /\ UNCHANGED <<enabled, locked, agent, deployed, lost>>
    BY <1>9, ResumeEffect
  <2> HIDE DEF a
  <2>2. answers[l] \in Seq(Answer)
    BY <1>1 DEF SandboxTypes
  <2>3. Tail(answers[l]) \in Seq(Answer)
    BY <2>1, <2>2, TailOf
  <2>4. answers' \in [Labs -> Seq(Answer)]
    BY <1>1, <2>1, <2>3 DEF SandboxTypes
  <2>5. modified' \in [Labs -> BOOLEAN] /\ call' \in [Users -> Call \cup {NoCall}]
    <3>1. (Edits(a) \/ (modified[l] /\ ~Resets(a))) \in BOOLEAN
      OBVIOUS
    <3> QED BY <1>1, <2>1, <3>1 DEF SandboxTypes
  <2> QED BY <1>1, <1>9, <2>1, <2>4, <2>5, ResumeFollows DEF SandboxTypes
<1>10. ASSUME NEW op \in agent, Timeout(op) PROVE SandboxTypes' /\ FlagsFollow'
  <2>1. op \in Operation /\ [op EXCEPT !.awaited = FALSE] \in Operation
    BY <1>1 DEF SandboxTypes, Operation
  <2>2. agent' \subseteq Operation /\ lost' \subseteq Labs
    BY <1>1, <1>10, <2>1 DEF Timeout, SandboxTypes, Operation
  <2>3. call' \in [Users -> Call \cup {NoCall}]
    BY <1>1, <1>10 DEF Timeout, SandboxTypes
  <2> QED BY <1>1, <1>10, <2>2, <2>3, TimeoutFollows DEF Timeout, SandboxTypes
<1>11. ASSUME NEW op \in agent, AgentRuns(op) PROVE SandboxTypes' /\ FlagsFollow'
  <2>1. ASSUME NEW ok \in BOOLEAN, NEW changed \in BOOLEAN, Answered(op, ok, changed)
        PROVE  /\ answers' \in [Labs -> Seq(Answer)] /\ agent' \subseteq Operation
               /\ UNCHANGED <<enabled, modified, locked, call>>
    <3>1. op.lab \in Labs /\ answers[op.lab] \in Seq(Answer)
      BY <1>1, UsersNamed DEF SandboxTypes
    <3>2. [kind |-> op.kind, user |-> op.user, ok |-> ok, changed |-> changed] \in Answer
      BY UsersNamed DEF Answer
    <3>3. Append(answers[op.lab], [kind |-> op.kind, user |-> op.user,
                                   ok |-> ok, changed |-> changed]) \in Seq(Answer)
      BY <3>1, <3>2, AppendTo
    <3> QED BY <1>1, <2>1, <3>3 DEF Answered, SandboxTypes
  <2>2. op.user \in Users
    BY UsersNamed
  <2>3. ASSUME NEW left \in Users \cup {Original}, AgentFails(op, left)
        PROVE  SandboxTypes'
    <3>1. op.lab \in Labs
      BY UsersNamed
    <3>2. deployed' \in [Labs -> Users \cup {Original}] /\ lost' \subseteq Labs
      BY <1>1, <2>3, <3>1 DEF AgentFails, SandboxTypes
    <3> QED BY <1>1, <2>1, <2>3, <3>2 DEF AgentFails, SandboxTypes
  <2>4. CASE AgentResets(op)
    <3>1. deployed' \in [Labs -> Users \cup {Original}] /\ lost' \subseteq Labs
      BY <1>1, <2>4 DEF AgentResets, SandboxTypes
    <3> QED BY <1>1, <1>11, <2>1, <2>4, <3>1, AgentRunsFollows DEF AgentResets, SandboxTypes
  <2>5. ASSUME NEW submitted \in {op.user, Original}, AgentApplies(op, submitted)
        PROVE  SandboxTypes'
    BY <1>1, <2>1, <2>2, <2>5 DEF AgentApplies, SandboxTypes
  <2>6. ASSUME AgentKeeps(op) PROVE SandboxTypes'
    BY <1>1, <2>1, <2>6 DEF AgentKeeps, SandboxTypes
  <2>7. SandboxTypes'
    BY <1>11, <2>3, <2>4, <2>5, <2>6 DEF AgentRuns
  <2> QED BY <1>11, <2>7, AgentRunsFollows
<1>12. CASE UNCHANGED vars
  BY <1>2, <1>12 DEF vars
<1> QED
  BY <1>2, <1>3, <1>4, <1>5, <1>6, <1>7, <1>8, <1>9, <1>10, <1>11, <1>12
     DEF SessionNext, Reserve, Cancel, Move, Extend, Release

LEMMA SessionStepKeepsInv == SessionInv /\ [SessionNext]_vars => SessionInv'
<1> SUFFICES ASSUME SessionInv, [SessionNext]_vars PROVE SessionInv'
  OBVIOUS
<1>1. Inv'
  BY SessionStepIsStoreStep, NextKeepsInv DEF SessionInv
<1>2. SandboxTypes' /\ FlagsFollow'
  BY SessionStepFollows
<1> QED BY <1>1, <1>2 DEF SessionInv, SessionTypeOK, SandboxTypes, FlagsFollow, Inv

LEMMA FlagsCover == SessionInv => FlagCoversEdits
  BY QuietEdit DEF FlagCoversEdits

LEMMA SessionInvHolds == SessionSpec => []SessionInv
<1>1. SessionInit => SessionInv
  <2> SUFFICES ASSUME SessionInit PROVE SessionInv
    OBVIOUS
  <2>1. Inv
    BY DEF SessionInit, Inv, TypeOK, UniqueIds, DurationsBounded, ExtendedHaveBegun,
           OverlapOnlyByExtension
  <2>2. SessionTypeOK
    BY <2>1 DEF SessionInit, SessionTypeOK, Inv
  <2>3. Waiting
    BY DEF SessionInit, Waiting, OperationsAwaited, AnswersAwaited, AbandonedAreLost
  <2>4. \A l \in Labs : deployed[l] = Original /\ ~EditUnderWay(l)
    BY DEF SessionInit, EditUnderWay, InFlight
  <2> QED BY <2>1, <2>2, <2>3, <2>4 DEF SessionInv, EditsRemembered, EditsEnabled
<1> QED BY <1>1, SessionStepKeepsInv, PTL DEF SessionSpec

\* An edited lab that no handler works on carries the flag, unless the central
\* lost track of it: whatever answers come late, and in whichever order the
\* handlers of one lab suspend, time out and resume.
THEOREM FlagsCoverEdits == SessionSpec => []FlagCoversEdits
  BY FlagsCover, SessionInvHolds, PTL

-----------------------------------------------------------------------------
(* A release leaves the original.                                          *)

\* An active entry of the lab leaves the store and no entry joins it.
EntryLeaves(l) ==
    /\ \E e \in ActiveOn(l) : e.id \notin {f.id : f \in res'}
    /\ {f.id : f \in res'} \subseteq {e.id : e \in res}

\* A read of the store, a new booking, a move, a cancellation and an extension
\* take no active entry away without adding one.
LEMMA ReadKeepsActive ==
    ASSUME NEW l \in Labs, Unexpired \subseteq res'
    PROVE  ~EntryLeaves(l)
  BY DEF EntryLeaves, ActiveOn

LEMMA BookingAdds ==
    ASSUME NEW l \in Labs, NEW u, NEW m, NEW s, NEW h, ReserveLab(u, m, s, h)
    PROVE  ~EntryLeaves(l)
<1>1. PICK i \in FreshIds, n \in res' : n.id = i
  BY DEF ReserveLab
<1> QED BY <1>1 DEF EntryLeaves, FreshIds

LEMMA PlanningKeepsActive ==
    ASSUME Inv, NEW l \in Labs, NEW m, NEW y \in ScheduledOn(m), Unexpired \ {y} \subseteq res'
    PROVE  ~EntryLeaves(l)
<1> SUFFICES ASSUME NEW e \in ActiveOn(l), e.id \notin {f.id : f \in res'} PROVE FALSE
  BY DEF EntryLeaves
<1>1. /\ e \in Unexpired /\ e \in Entry /\ e.start <= now
      /\ y \in Entry /\ y.start > now /\ now \in Nat
  BY DEF ScheduledOn, ActiveOn, IsActive, Unexpired, Inv, TypeOK
<1>2. e # y
  BY <1>1 DEF Entry
<1> QED BY <1>1, <1>2

LEMMA ExtensionKeepsActive ==
    ASSUME Inv, NEW l \in Labs, NEW m, NEW a, ExtendReservation(m, a)
    PROVE  ~EntryLeaves(l)
<1>1. PICK x \in FirstActive(m) :
         \E t \in 0 .. MaxTotalHours :
             res' = (Unexpired \ {x}) \cup
                      {[x EXCEPT !.end = @ + a, !.hours = t, !.extended = TRUE]}
  BY DEF ExtendReservation, Rounded
<1>2. x \in Entry
  BY DEF FirstActive, ActiveOn, Unexpired, Inv, TypeOK
<1>3. \A t : [x EXCEPT !.end = @ + a, !.hours = t, !.extended = TRUE].id = x.id
  BY <1>2 DEF Entry
<1>4. \A e \in Unexpired : \E f \in res' : f.id = e.id
  BY <1>1, <1>3
<1> QED BY <1>4 DEF EntryLeaves, ActiveOn

\* A release takes an entry of its own lab.
LEMMA ReleaseTakesOwn ==
    ASSUME NEW l \in Labs, NEW m \in Labs, ReleaseLab(m), EntryLeaves(l)
    PROVE  m = l
<1>1. PICK y \in FirstActive(m) : res' = Unexpired \ {y}
  BY DEF ReleaseLab
<1>2. y \in ActiveOn(l)
  BY <1>1 DEF EntryLeaves, ActiveOn
<1> QED BY <1>2 DEF FirstActive, ActiveOn

\* So an entry leaves by a release without a reset, or when a handler resumes
\* after a successful one.
LEMMA HowEntriesLeave ==
    ASSUME SessionInv, [SessionNext]_vars, NEW l \in Labs, EntryLeaves(l)
    PROVE  \/ \E u \in Users : Release(u, l)
           \/ Resume(l) /\ Resets(Head(answers[l]))
<1>1. Inv /\ Unexpired \subseteq res
  BY DEF SessionInv, Unexpired
<1>2. res' # res /\ res' # Unexpired
  BY <1>1, ReadKeepsActive
<1>3. ASSUME NEW u \in Users, NEW m \in Labs
      PROVE  /\ \A s \in 0 .. Horizon, h \in 1 .. MaxHours : ~Reserve(u, m, s, h)
             /\ \A i \in Ids : ~Cancel(u, m, i)
             /\ \A i \in Ids, s \in 0 .. Horizon, h \in 1 .. MaxHours : ~Move(u, m, i, s, h)
             /\ \A a \in 1 .. MaxTotalHours : ~Extend(u, m, a)
  <2>1. ASSUME NEW s, NEW h, Reserve(u, m, s, h) PROVE FALSE
    BY <2>1, BookingAdds DEF Reserve
  <2>2. ASSUME NEW i, Cancel(u, m, i) PROVE FALSE
    <3>1. PICK y \in ScheduledOn(m) : res' = Unexpired \ {y}
      BY <2>2 DEF Cancel, CancelScheduled
    <3> QED BY <1>1, <3>1, PlanningKeepsActive
  <2>3. ASSUME NEW i, NEW s, NEW h, Move(u, m, i, s, h) PROVE FALSE
    <3>1. PICK y \in ScheduledOn(m) : Unexpired \ {y} \subseteq res'
      BY <2>3 DEF Move, UpdateScheduled
    <3> QED BY <1>1, <3>1, PlanningKeepsActive
  <2>4. ASSUME NEW a, Extend(u, m, a) PROVE FALSE
    BY <1>1, <2>4, ExtensionKeepsActive DEF Extend
  <2> QED BY <2>1, <2>2, <2>3, <2>4
<1>4. ASSUME NEW u \in Users, NEW m \in Labs, Release(u, m) PROVE m = l
  BY <1>4, ReleaseTakesOwn DEF Release
<1>5. ASSUME NEW u \in Users, NEW m \in Labs
      PROVE  ~(ReleaseWithReset(u, m) \/ ApplySandbox(u, m) \/ ProbeCapacity(u, m))
  BY <1>2 DEF ReleaseWithReset, ApplySandbox, ProbeCapacity, Suspend
<1>6. /\ \A m \in Labs, b \in BOOLEAN : ~(SetEnabled(m, b) \/ SetLocked(m, b))
      /\ \A u \in Users : ~Submit(u)
      /\ ~(Tick \/ Prune \/ UNCHANGED vars)
  BY <1>2 DEF SetEnabled, SetLocked, Submit, Tick, Prune, vars, resVars
<1>7. ASSUME NEW op \in agent PROVE ~(Timeout(op) \/ AgentRuns(op))
  BY <1>2, AgentLeavesStore DEF resVars
<1>8. ASSUME NEW m \in Labs, Resume(m) PROVE m = l /\ Resets(Head(answers[m]))
  <2> DEFINE a == Head(answers[m])
  <2>1. \/ a.kind = "reset" /\ ResumeRelease(a.user, m, a)
        \/ a.kind = "apply" /\ ResumeApply(a.user, m, a)
    BY <1>8 DEF Resume
  <2>2. a.kind = "reset" /\ a.ok /\ ReleaseLab(m)
    BY <1>2, <2>1 DEF ResumeRelease, ResumeApply, resVars
  <2> QED BY <2>2, ReleaseTakesOwn DEF Resets
<1> QED
  BY <1>3, <1>4, <1>5, <1>6, <1>7, <1>8 DEF SessionNext

ReleaseStep ==
    \A l \in Labs \ lost :
        /\ \E e \in ActiveOn(l) : e.id \notin {f.id : f \in res'}
        /\ {f.id : f \in res'} \subseteq {e.id : e \in res}
        /\ InFlight(l)' = {}
        => deployed'[l] = Original

LEMMA ReleaseStepHolds == SessionInv /\ [SessionNext]_vars => ReleaseStep
<1> SUFFICES ASSUME SessionInv, [SessionNext]_vars,
                    NEW l \in Labs \ lost, EntryLeaves(l), InFlight(l)' = {}
             PROVE  deployed'[l] = Original
  BY DEF ReleaseStep, EntryLeaves
<1>1. CASE \E u \in Users : Release(u, l)
  <2>1. ~(enabled[l] /\ modified[l]) /\ InFlight(l) = {} /\ deployed' = deployed
    BY <1>1 DEF Release, sandboxVars, InFlight
  <2> QED BY <2>1, QuietEdit
<1>2. CASE Resume(l) /\ Resets(Head(answers[l]))
  <2>1. UNCHANGED <<deployed, lost>> /\ modified'[l] = FALSE
    <3> DEFINE a == Head(answers[l])
    <3>1. /\ modified' = [modified EXCEPT ![l] = Edits(a) \/ (modified[l] /\ ~Resets(a))]
          /\ UNCHANGED <<deployed, lost>>
      BY <1>2, ResumeEffect
    <3>2. ~(Edits(a) \/ (modified[l] /\ ~Resets(a)))
      BY <1>2 DEF Edits, Resets
    <3> HIDE DEF a
    <3> QED BY <3>1, <3>2, SandboxTyped
  <2>2. (SessionInv => FlagCoversEdits)'
    BY FlagsCover, PTL
  <2> QED BY <2>1, <2>2, SessionStepKeepsInv DEF FlagCoversEdits
<1> QED BY <1>1, <1>2, HowEntriesLeave

\* A release that finds nobody else at work on a lab leaves it original, unless the
\* central lost track of the lab, whether or not it awaited a reset.
THEOREM ReleasesLeaveOriginal == SessionSpec => ReleaseLeavesOriginal
<1>1. SessionInv /\ [SessionNext]_vars => [ReleaseStep]_vars
  BY ReleaseStepHolds
<1> QED
  BY <1>1, SessionInvHolds, PTL DEF SessionSpec, ReleaseLeavesOriginal, ReleaseStep
=============================================================================

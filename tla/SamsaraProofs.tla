---------------------------- MODULE SamsaraProofs ----------------------------
(***************************************************************************)
(* The samsara loses no complete list, for any number of crawl threads and *)
(* rounds, wherever the process is killed and whichever commands fail.     *)
(* What survives is not inductive by itself: removing backup is safe only  *)
(* because a round runs with an input (Staged), moving next to input only  *)
(* because its lists were closed in the same run of the process, and a     *)
(* restart truncates a list that is neither input nor backup (Apart).      *)
(***************************************************************************)
EXTENDS Samsara, TLAPS

\* What is called input or backup is complete, and at least one is there.
Complete == /\ input # None => input \in whole
            /\ backup # None => backup \in whole
            /\ input # None \/ backup # None

\* The three names are names of different directories, none newer than newest.
Apart == /\ next # None => next # input /\ next # backup
         /\ backup # None => backup <= newest
         /\ input # None => input <= newest
         /\ next # None => next <= newest

\* What the select thread has done on its way to where it is.
Staged == /\ sel \in {"run", "wait", "clear", "destroy", "rm", "mvInput"} => input # None
          /\ sel \in {"rm", "mvInput", "mvNext"} => next = None \/ next \in whole
          /\ sel \in {"wait", "clear", "destroy", "rm", "mvInput", "mvNext", "mkdir"}
                => newest < MaxEra

\* The outputs are open on next, or closed.
OpenOnNext ==
    \A k \in Kinds : out[k] # None =>
        out[k][1] = next /\ sel \in {"load", "run", "wait", "clear", "destroy"}

IInv == TypeOK /\ Complete /\ Apart /\ Staged /\ OpenOnNext

LEMMA NoneIsNoEra == None \notin Eras /\ MaxEra \in Nat \ {0} /\ QueueSize \in Nat
BY SamsaraAssumption DEF Eras

LEMMA InitIInv == Init => IInv
<1> SUFFICES ASSUME Init PROVE IInv
  OBVIOUS
<1> USE NoneIsNoEra DEF Init
<1>1. TypeOK
  BY DEF TypeOK, Eras, Fresh, Closed, NoUrls
<1>2. Complete /\ Apart /\ Staged
  BY DEF Complete, Apart, Staged, Eras
<1>3. OpenOnNext
  BY DEF OpenOnNext, Closed
<1> QED
  BY <1>1, <1>2, <1>3 DEF IInv

\* A step of a crawl thread: it appends to an open list at most.
LEMMA ThreadIInv ==
    ASSUME IInv, NEW t \in Threads, Take(t) \/ PutBack(t) \/ Finish(t)
    PROVE  IInv'
<1> USE NoneIsNoEra, SamsaraAssumption
<1>0. TypeOK /\ Complete /\ Apart /\ Staged /\ OpenOnNext
  BY DEF IInv
<1>1. UNCHANGED <<backup, input, next, whole, newest, out, sel>>
  BY DEF Take, PutBack, Finish, dirs, files
<1>2. content' \in [Eras -> [Lists -> SUBSET Kinds]]
  <2>1. CASE UNCHANGED content
    BY <1>0, <2>1 DEF TypeOK
  <2>2. CASE hand[t] # None /\ append(hand[t]) /\ out[hand[t]] # None
    <3>1. PICK k \in Kinds : k = hand[t]
      BY <1>0, <2>2 DEF TypeOK
    <3>2. PICK e \in Eras, l \in Lists : out[k] = <<e, l>>
      BY <1>0, <2>2, <3>1 DEF TypeOK
    <3>3. content' = [content EXCEPT ![e] = [content[e] EXCEPT ![l] = @ \cup {k}]]
      BY <1>0, <2>2, <3>1, <3>2 DEF append, TypeOK
    <3>4. [content[e] EXCEPT ![l] = @ \cup {k}] \in [Lists -> SUBSET Kinds]
      BY <1>0 DEF TypeOK
    <3> QED
      BY <1>0, <3>3, <3>4 DEF TypeOK
  <2> QED
    BY <2>1, <2>2 DEF Take, PutBack, Finish, append, files
<1>3. sq' \in [Kinds -> 0 .. QueueSize]
  BY <1>0 DEF Take, PutBack, Finish, TypeOK, Size, Kinds
<1>4. hand' \in [Threads -> Kinds \cup {None}]
  BY <1>0 DEF Take, PutBack, Finish, TypeOK
<1>5. TypeOK'
  BY <1>0, <1>1, <1>2, <1>3, <1>4 DEF TypeOK
<1>6. Complete' /\ Apart' /\ Staged' /\ OpenOnNext'
  BY <1>0, <1>1 DEF Complete, Apart, Staged, OpenOnNext
<1> QED
  BY <1>5, <1>6 DEF IInv

\* The process goes down and leaves the directories as they are.
LEMMA DownIInv == ASSUME IInv, Down, UNCHANGED <<dirs, files>> PROVE IInv'
<1> USE NoneIsNoEra DEF Down, Goto, dirs, files
<1>1. TypeOK'
  BY DEF IInv, TypeOK, Closed, NoUrls
<1>2. Complete' /\ Apart' /\ Staged'
  BY DEF IInv, Complete, Apart, Staged
<1>3. OpenOnNext'
  BY DEF OpenOnNext, Closed
<1> QED
  BY <1>1, <1>2, <1>3 DEF IInv

\* The lists of next are opened, and lose what they held.
LEMMA OpenIInv ==
    ASSUME IInv, NEW list \in [Kinds -> Lists], OpenOutputs(list), sel' = "load",
           UNCHANGED <<dirs, newest, sq, hand>>
    PROVE  IInv'
<1> USE NoneIsNoEra DEF OpenOutputs, dirs
<1>0. TypeOK /\ Complete /\ Apart /\ Staged /\ OpenOnNext
  BY DEF IInv
<1>1. TypeOK'
  <2>1. CASE next = None
    BY <1>0, <2>1 DEF TypeOK, Closed
  <2>2. CASE next # None
    <3>1. next \in Eras
      BY <1>0, <2>2 DEF TypeOK
    <3>2. out' \in [Kinds -> (Eras \X Lists) \cup {None}]
      BY <2>2, <3>1
    <3>3. content' \in [Eras -> [Lists -> SUBSET Kinds]]
      BY <1>0, <2>2, <3>1 DEF TypeOK, Fresh
    <3> QED
      BY <1>0, <2>2, <3>2, <3>3 DEF TypeOK
  <2> QED
    BY <2>1, <2>2
<1>2. Complete'
  BY <1>0 DEF Complete, Apart
<1>3. Apart' /\ Staged'
  BY <1>0 DEF Apart, Staged
<1>4. OpenOnNext'
  BY DEF OpenOnNext, Closed
<1> QED
  BY <1>1, <1>2, <1>3, <1>4 DEF IInv

\* Up to the transfer the select thread leaves the directories alone.
LEMMA BeforeTransferIInv ==
    ASSUME IInv, Insert \/ Judge \/ Waited \/ Clear \/ Destroy
    PROVE  IInv'
<1> USE NoneIsNoEra
<1>0. TypeOK /\ Complete /\ Apart /\ Staged /\ OpenOnNext
  BY DEF IInv
<1>1. UNCHANGED <<backup, input, next, content, newest, hand>>
  BY DEF Insert, Judge, Waited, Clear, Destroy, dirs, files
<1>2. sq' \in [Kinds -> 0 .. QueueSize]
  BY <1>0 DEF Insert, Judge, Waited, Clear, Destroy, TypeOK, Size, Kinds, NoUrls
<1>3. out' \in [Kinds -> (Eras \X Lists) \cup {None}]
  BY <1>0 DEF Insert, Judge, Waited, Clear, Destroy, TypeOK, Closed
<1>4. whole \subseteq whole' /\ whole' \subseteq Eras
  BY <1>0 DEF Insert, Judge, Waited, Clear, Destroy, TypeOK, files
<1>5. TypeOK'
  BY <1>0, <1>1, <1>2, <1>3, <1>4 DEF TypeOK
<1>6. Complete' /\ Apart'
  BY <1>0, <1>1, <1>4 DEF Complete, Apart
<1>7. Staged'
  BY <1>0, <1>1, <1>4 DEF Staged, Insert, Judge, Waited, Clear, Destroy, Goto, TypeOK, Eras
<1>8. OpenOnNext'
  BY <1>0, <1>1 DEF OpenOnNext, Insert, Judge, Waited, Clear, Destroy, Goto, Closed
<1> QED
  BY <1>5, <1>6, <1>7, <1>8 DEF IInv

\* A command of transfer, that works or fails unnoticed.
LEMMA TransferIInv ==
    ASSUME IInv, RemoveBackup \/ MoveInput \/ MoveNext \/ MakeNext
    PROVE  IInv'
<1> USE NoneIsNoEra DEF RemoveBackup, MoveInput, MoveNext, MakeNext, Command, dirs, Goto
<1>0. TypeOK /\ Complete /\ Apart /\ Staged /\ OpenOnNext
  BY DEF IInv
<1>1. TypeOK'
  <2>1. newest' \in Eras
    BY <1>0 DEF TypeOK, Staged, Eras
  <2>2. ({backup, input, next} \subseteq Eras \cup {None})'
    BY <1>0, <2>1 DEF TypeOK
  <2> QED
    BY <1>0, <2>1, <2>2 DEF TypeOK
<1>2. Complete'
  BY <1>0 DEF Complete, Staged
<1>3. Apart'
  <2>0. newest \in Nat /\ {backup, input, next} \subseteq Nat \cup {None}
    BY <1>0 DEF TypeOK, Eras
  <2>1. CASE RemoveBackup
    BY <1>0, <2>0, <2>1 DEF Apart
  <2>2. CASE MoveInput
    BY <1>0, <2>0, <2>2 DEF Apart
  <2>3. CASE MoveNext
    BY <1>0, <2>0, <2>3 DEF Apart
  <2>4. CASE MakeNext
    BY <1>0, <2>0, <2>4 DEF Apart
  <2> QED
    BY <2>1, <2>2, <2>3, <2>4
<1>4. Staged'
  BY <1>0 DEF Staged, Complete
<1>5. OpenOnNext'
  BY <1>0 DEF OpenOnNext
<1> QED
  BY <1>1, <1>2, <1>3, <1>4, <1>5 DEF IInv

\* Every step of the spider, a kill and a restart included.
LEMMA NextIInv == IInv /\ [Next]_vars => IInv'
<1> SUFFICES ASSUME IInv, [Next]_vars PROVE IInv'
  OBVIOUS
<1>1. CASE Reopen
  BY <1>1, OpenIInv DEF Reopen, Goto, Kinds, Lists
<1>2. CASE Start
  BY <1>2, OpenIInv DEF Start, Goto, Kinds, Lists
<1>3. CASE Load
  <2>1. CASE input = None
    BY <1>3, <2>1, DownIInv DEF Load
  <2>2. CASE input # None
    BY <1>3, <2>2 DEF Load, Goto, dirs, files, IInv, TypeOK, Complete, Apart, Staged, OpenOnNext
  <2> QED
    BY <2>1, <2>2
<1>4. CASE Crash \/ CommandLosses
  BY <1>4, DownIInv DEF Crash, CommandLosses, CommandLost
<1>5. CASE UNCHANGED vars
  BY <1>5 DEF vars, IInv, TypeOK, Complete, Apart, Staged, OpenOnNext
<1> QED
  BY <1>1, <1>2, <1>3, <1>4, <1>5, ThreadIInv, BeforeTransferIInv, TransferIInv
     DEF Next, SelectStep

LEMMA SamsaraInvariant == Spec => []IInv
BY InitIInv, NextIInv, PTL DEF Spec

-----------------------------------------------------------------------------
\* Whatever is killed or fails, complete lists are left under input or backup.
THEOREM SamsaraListSurvives == Spec => []ACompleteListSurvives
<1>1. IInv => ACompleteListSurvives
  BY DEF IInv, Complete, ACompleteListSurvives
<1> QED
  BY <1>1, SamsaraInvariant, PTL

\* What the spider appends while it crawls goes to the lists of next.
THEOREM SamsaraAppendsReachNext == Spec => []AppendsReachNext
<1>1. IInv => AppendsReachNext
  BY DEF IInv, OpenOnNext, AppendsReachNext
<1> QED
  BY <1>1, SamsaraInvariant, PTL

\* The lists that were handed over do not change: neither a late crawl thread
\* nor a restart writes to them.
THEOREM SamsaraListsFrozen == Spec => HandedOverListsFrozen
<1>1. ASSUME IInv, [Next]_vars, NEW e \in {input, backup} \ {None}
      PROVE  content'[e] = content[e]
  <2>0. TypeOK /\ Apart /\ OpenOnNext /\ e # next /\ e \in Eras
    BY <1>1, NoneIsNoEra DEF IInv, TypeOK, Apart
  <2>1. ASSUME NEW t \in Threads, Finish(t) PROVE content'[e] = content[e]
    <3>1. hand[t] \in Kinds
      BY <2>0, <2>1 DEF Finish, TypeOK
    <3>2. out[hand[t]] # None => out[hand[t]][1] # e
      BY <2>0, <3>1 DEF OpenOnNext
    <3> QED
      BY <2>0, <2>1, <3>2 DEF Finish, append, TypeOK
  <2>2. ASSUME NEW list, OpenOutputs(list) PROVE content'[e] = content[e]
    BY <2>0, <2>2 DEF OpenOutputs, TypeOK
  <2>3. CASE Reopen \/ Start
    BY <2>2, <2>3 DEF Reopen, Start
  <2>4. ASSUME NEW t \in Threads, Take(t) \/ PutBack(t) PROVE content' = content
    BY <2>4 DEF Take, PutBack, files
  <2>5. CASE \/ Insert \/ Judge \/ Waited \/ Clear \/ Destroy \/ RemoveBackup \/ MoveInput
             \/ MoveNext \/ MakeNext \/ Load \/ CommandLosses \/ Crash \/ UNCHANGED vars
    BY <2>5 DEF Insert, Judge, Waited, Clear, Destroy, RemoveBackup, MoveInput, MoveNext,
                MakeNext, Command, Load, CommandLosses, CommandLost, Crash, files, vars
  <2> QED
    BY <1>1, <2>1, <2>3, <2>4, <2>5 DEF Next, SelectStep
<1>2. IInv /\ [Next]_vars => [\A e \in {input, backup} \ {None} : content'[e] = content[e]]_vars
  BY <1>1
<1> QED
  BY <1>2, SamsaraInvariant, PTL DEF Spec, HandedOverListsFrozen
==============================================================================

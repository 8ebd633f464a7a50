------------------------- MODULE PocExecutionProofs -------------------------
(***************************************************************************)
(* Theorems about PocExecution, for any list of candidates, any limits and *)
(* budgets that cover them, and any number of calls, kills and faults.     *)
(***************************************************************************)
EXTENDS PocExecution, SequenceTheorems, TLAPS
-----------------------------------------------------------------------------
(* The inductive invariant.                                                *)

Visiting == {"next", "run", "remove", "back"}

(* Between visits nothing is in hand and the memory is what was saved; in  *)
(* a visit there is one result for each candidate that is done.            *)
PlaceOK ==
  /\ pc \notin {"idle", "over"} => visits < MaxVisits
  /\ pc = "idle" => mode = "execute" /\ at = 1 /\ gathered = <<>>
  /\ pc \in {"idle", "commit"} => memory = saved
  /\ Len(gathered) = at - 1
  /\ Len(memory.results) <= Len(Asked) /\ Len(saved.results) <= Len(Asked)
  /\ mode = "recover" => at <= Len(memory.results) + 1 /\ memory.retry # NoRetry

(* The containers whose end is known or no longer asked for.               *)
Past == 0..(IF call = 0 THEN calls ELSE calls - 1)

Ended(k, i, stage) ==
  /\ k # 0 /\ containers[k].candidate = Asked[i]
  /\ containers[k].stage = stage /\ containers[k].exit = "zero"

(* A result rests on containers of the past, and a pass on two of them.    *)
Earns(i, r, unread) ==
  r.status = "passed" =>
    /\ Ended(r.test, i, "test")
    /\ unread \/ (Ended(r.install, i, "install") /\ r.install < r.test)
Sound(i, r, unread) ==
  r.install \in Past /\ r.test \in Past /\ Earns(i, r, unread)

AllSound(results, unread) == \A i \in DOMAIN results : Sound(i, results[i], unread)

ResultsOK ==
  /\ AllSound(memory.results, memory.retry.unread)
  /\ AllSound(saved.results, saved.retry.unread)
  /\ AllSound(gathered, memory.retry.unread)

(* Where only the test is to be repeated the install has passed.           *)
Fits(results, retry) ==
  retry # NoRetry /\ ~retry.unread =>
    /\ retry.at \in DOMAIN results
    /\ retry.stage = "test" => Ended(results[retry.at].install, retry.at, "install")

RetryFits ==
  /\ Fits(saved.results, saved.retry)
  /\ mode = "execute" /\ pc \in Visiting => Fits(gathered, memory.retry)
  /\ mode = "recover" => Fits(memory.results, memory.retry)
  /\ mode = "recover" /\ memory.retry.at < at => Fits(gathered, memory.retry)

(* The container in hand is the last one, of the candidate and stage in    *)
(* hand.                                                                   *)
InHand ==
  call # 0 =>
    /\ call = calls /\ at <= Len(Asked) /\ installed \in Past
    /\ containers[call].candidate = Asked[at] /\ containers[call].stage \in Stages
    /\ mode = "recover" =>
         /\ at <= Len(memory.results) /\ at = memory.retry.at
         /\ containers[call].stage = memory.retry.stage
    /\ mode = "execute" /\ containers[call].stage = "test" =>
         Ended(installed, at, "install")
    /\ pc = "remove" => containers[call].client = "killed"
    /\ pc = "back" => containers[call].client \in {"killed", "ended"}

(* An end is final, and what has a client or runs is in hand, with its id  *)
(* known before it runs, or was abandoned.                                 *)
DockerOK ==
  \A k \in Calls :
    LET c == containers[k] IN
    /\ k > calls => c = NoContainer
    /\ c.exit # None => c.client # "on" /\ c.state # "running"
    /\ c.client = "ended" => c.exit # None
    /\ c.client = "on" => (k = call /\ pc = "run") \/ k \in abandoned
    /\ c.state = "running" =>
         (k = call /\ pc \in {"run", "remove"} /\ c.id) \/ k \in abandoned

(* What is left of the run's time covers the waits that may follow.        *)
Wait == Limit + RemoveLimit
InTime ==
  /\ pc = "run" =>
       /\ now - since <= Limit /\ since + Wait <= Deadline
       /\ mode = "execute" /\ containers[call].stage = "install" =>
            since + 2 * Wait <= Deadline
  /\ pc = "remove" => now - since <= RemoveLimit /\ since + RemoveLimit <= Deadline
  /\ pc = "back" /\ mode = "execute" /\ containers[call].stage = "install"
       /\ containers[call].client = "ended" => now + Wait <= Deadline

IInv == /\ TypeOK /\ PlaceOK /\ ResultsOK /\ RetryFits /\ InHand /\ DockerOK
        /\ InTime

(* An end that was seen stays: the past is only added to.                  *)
PastKept ==
  /\ Past \subseteq Past'
  /\ \A k \in Past \ {0} :
       /\ containers'[k].candidate = containers[k].candidate
       /\ containers'[k].stage = containers[k].stage
       /\ containers[k].exit # None => containers'[k].exit = containers[k].exit

LEMMA EndedStays ==
  ASSUME PastKept, NEW k \in Past, NEW i, NEW stage, Ended(k, i, stage)
  PROVE  Ended(k, i, stage)'
BY DEF PastKept, Ended, None

LEMMA SoundStays ==
  ASSUME PastKept, NEW i, NEW r, NEW unread, Sound(i, r, unread)
  PROVE  Sound(i, r, unread)'
<1>1. r.install \in Past /\ r.test \in Past
  BY DEF Sound
<1>2. r.install \in Past' /\ r.test \in Past'
  BY <1>1 DEF PastKept
<1>3. /\ Ended(r.test, i, "test") => Ended(r.test, i, "test")'
      /\ Ended(r.install, i, "install") => Ended(r.install, i, "install")'
  BY <1>1, EndedStays
<1> QED BY <1>2, <1>3 DEF Sound, Earns

LEMMA AllSoundStay ==
  ASSUME PastKept, NEW results, NEW unread, AllSound(results, unread)
  PROVE  AllSound(results, unread)'
BY SoundStays DEF AllSound

LEMMA FitsStays ==
  ASSUME PastKept, NEW results, NEW retry, AllSound(results, retry.unread),
         Fits(results, retry)
  PROVE  Fits(results, retry)'
<1> SUFFICES ASSUME retry # NoRetry, ~retry.unread
             PROVE  /\ retry.at \in DOMAIN results
                    /\ retry.stage = "test" =>
                         Ended(results[retry.at].install, retry.at, "install")'
  BY DEF Fits
<1>1. retry.at \in DOMAIN results
  BY DEF Fits
<1>2. results[retry.at].install \in Past
  BY <1>1 DEF AllSound, Sound
<1> QED BY <1>1, <1>2, EndedStays DEF Fits

(* An unread artifact only weakens what a result must rest on.             *)
LEMMA SoundWeaker ==
  ASSUME NEW results, NEW unread \in BOOLEAN, NEW weaker \in BOOLEAN,
         unread => weaker, AllSound(results, unread)
  PROVE  AllSound(results, weaker)
BY DEF AllSound, Sound, Earns
-----------------------------------------------------------------------------
(* Steps that leave the containers alone.                                  *)

LEMMA SamePast ==
  ASSUME TypeOK, UNCHANGED <<containers, calls>>, call' = call \/ call' = 0
  PROVE  PastKept
BY DEF TypeOK, PastKept, Past

LEMMA KeptResults ==
  ASSUME PastKept, ResultsOK, UNCHANGED <<memory, saved>>,
         gathered' \in {gathered, <<>>}
  PROVE  ResultsOK'
<1>1. /\ AllSound(memory.results, memory.retry.unread)'
      /\ AllSound(saved.results, saved.retry.unread)'
  BY AllSoundStay DEF ResultsOK
<1>2. AllSound(gathered, memory.retry.unread)'
  <2>1. CASE gathered' = gathered
    BY <2>1, AllSoundStay DEF ResultsOK
  <2>2. CASE gathered' = <<>>
    BY <2>2 DEF AllSound
  <2> QED BY <2>1, <2>2
<1> QED BY <1>1, <1>2 DEF ResultsOK

LEMMA RetryKept ==
  ASSUME PastKept, ResultsOK, RetryFits, UNCHANGED <<memory, saved, mode, at, gathered>>,
         pc' \in Visiting => pc \in Visiting
  PROVE  RetryFits'
<1>1. Fits(saved.results, saved.retry)'
  BY FitsStays DEF ResultsOK, RetryFits
<1>2. Fits(memory.results, memory.retry) => Fits(memory.results, memory.retry)'
  BY FitsStays DEF ResultsOK
<1>3. Fits(gathered, memory.retry) => Fits(gathered, memory.retry)'
  BY FitsStays DEF ResultsOK
<1> QED BY <1>1, <1>2, <1>3 DEF RetryFits

LEMMA TickStep == IInv /\ Tick => IInv'
<1> SUFFICES ASSUME IInv, Tick PROVE IInv'
  OBVIOUS
<1> USE DEF IInv
<1>0. /\ UNCHANGED <<stageVars, kept, docker, kills, faults>> /\ now' = now + 1
      /\ now <= Deadline /\ now \in Nat /\ Deadline \in Nat
  BY PocAssumption DEF Tick, TypeOK
<1>1. TypeOK'
  BY <1>0 DEF TypeOK, stageVars, kept, docker
<1>2. PlaceOK'
  BY <1>0 DEF PlaceOK, stageVars, kept
<1>3. PastKept
  BY <1>0, SamePast DEF stageVars, docker
<1>4. ResultsOK'
  BY <1>0, <1>3, KeptResults DEF stageVars, kept
<1>5. RetryFits' /\ InHand' /\ DockerOK'
  BY <1>0 DEF RetryFits, Fits, Ended, InHand, DockerOK, Past, stageVars, kept, docker
<1>6. InTime'
  <2>1. /\ call' = call /\ pc' = pc /\ since' = since /\ mode' = mode
        /\ containers' = containers /\ since \in Nat
        /\ Limit \in Nat /\ RemoveLimit \in Nat
    BY <1>0, PocAssumption DEF stageVars, docker, TypeOK
  <2>2. pc \notin {"back"}
    BY DEF Tick
  <2> QED BY <1>0, <2>1, <2>2 DEF Tick, InTime, Wait
<1> QED BY <1>1, <1>2, <1>4, <1>5, <1>6

LEMMA AskedLen == Len(Asked) \in Nat
BY PocAssumption, LenProperties

LEMMA EnterStep == IInv /\ Enter => IInv'
<1> SUFFICES ASSUME IInv, Enter PROVE IInv'
  OBVIOUS
<1> USE DEF IInv
<1>0. /\ UNCHANGED <<at, gathered, call, since, installed, kept, docker, bounds>>
      /\ pc = "idle" /\ visits < MaxVisits /\ pc' \in {"next", "over"}
      /\ mode' = IF memory.retry = NoRetry THEN "execute" ELSE "recover"
      /\ call = 0 /\ at = 1 /\ gathered = <<>> /\ memory = saved
  BY DEF Enter, PlaceOK, TypeOK
<1>1. TypeOK'
  BY <1>0 DEF TypeOK, kept, docker, bounds
<1>2. PlaceOK'
  <2>1. Len(memory.results) \in Nat
    BY LenProperties DEF TypeOK, Memory
  <2> QED BY <1>0, <2>1 DEF PlaceOK, kept
<1>3. PastKept
  BY <1>0, SamePast DEF docker
<1>4. ResultsOK'
  BY <1>0, <1>3, KeptResults DEF kept
<1>5. RetryFits'
  <2>1. Fits(saved.results, saved.retry)'
    BY <1>0, <1>3, FitsStays DEF RetryFits, ResultsOK, kept
  <2>2. Fits(memory.results, memory.retry)'
    BY <1>0, <2>1 DEF kept
  <2>3. memory.retry # NoRetry => ~(memory.retry.at < 1)
    BY DEF TypeOK, Memory, Retry
  <2>4. memory' = memory /\ at' = 1
    BY <1>0 DEF kept
  <2> HIDE DEF IInv
  <2>5. CASE memory.retry = NoRetry
    <3>1. mode' = "execute" /\ Fits(gathered, memory.retry)'
      BY <1>0, <2>4, <2>5 DEF Fits
    <3> QED BY <2>1, <3>1 DEF RetryFits
  <2>6. CASE memory.retry # NoRetry
    <3>1. mode' = "recover" /\ ~(memory'.retry.at < at')
      BY <1>0, <2>3, <2>4, <2>6
    <3> QED BY <2>1, <2>2, <3>1 DEF RetryFits
  <2> QED BY <2>5, <2>6
<1>6. InHand' /\ DockerOK' /\ InTime'
  BY <1>0 DEF InHand, DockerOK, InTime, docker
<1> QED BY <1>1, <1>2, <1>4, <1>5, <1>6

LEMMA RaiseStep ==
  ASSUME IInv, pc \in {"next", "back"}, Raise
  PROVE  IInv'
<1> USE DEF IInv
<1>0. /\ UNCHANGED <<mode, at, gathered, installed, kept, docker, bounds>>
      /\ pc' = "over" /\ call' = 0 /\ since' = 0
      /\ calls \in Nat /\ now \in Nat
  BY PocAssumption DEF Raise, TypeOK
<1>1. TypeOK'
  BY <1>0 DEF TypeOK, kept, docker, bounds
<1>2. PlaceOK'
  BY <1>0 DEF PlaceOK, kept
<1>3. PastKept
  BY <1>0 DEF PastKept, Past, docker
<1>4. ResultsOK'
  BY <1>0, <1>3, KeptResults DEF kept
<1>5. RetryFits'
  <2>1. UNCHANGED <<memory, saved, mode, at, gathered>> /\ pc' \notin Visiting
    BY <1>0 DEF Visiting, kept
  <2>2. ResultsOK /\ RetryFits
    OBVIOUS
  <2> HIDE DEF IInv
  <2> QED BY <1>3, <2>1, <2>2, RetryKept
<1>6. InHand' /\ InTime'
  BY <1>0 DEF InHand, InTime
<1>7. DockerOK'
  BY <1>0 DEF DockerOK, docker
<1> QED BY <1>1, <1>2, <1>4, <1>5, <1>6, <1>7

LEMMA CommitStep == IInv /\ Commit => IInv'
<1> SUFFICES ASSUME IInv, Commit PROVE IInv'
  OBVIOUS
<1> USE DEF IInv
<1>0. /\ UNCHANGED <<memory, saved, docker, bounds>>
      /\ pc = "commit" /\ visits' = visits + 1 /\ pc' = "idle" /\ mode' = "execute"
      /\ at' = 1 /\ gathered' = <<>> /\ call' = 0 /\ since' = 0 /\ installed' = 0
      /\ call = 0 /\ visits < MaxVisits /\ memory = saved /\ MaxVisits \in Nat
  BY PocAssumption DEF Commit, Outside, PlaceOK, TypeOK
<1>1. TypeOK'
  BY <1>0 DEF TypeOK, docker, bounds
<1>2. PlaceOK'
  BY <1>0 DEF PlaceOK
<1>3. PastKept
  BY <1>0, SamePast DEF docker
<1>4. ResultsOK'
  BY <1>0, <1>3, KeptResults
<1>5. RetryFits'
  BY <1>0, <1>3, FitsStays DEF RetryFits, ResultsOK, Visiting
<1>6. InHand' /\ DockerOK' /\ InTime'
  BY <1>0 DEF InHand, DockerOK, InTime, docker
<1> QED BY <1>1, <1>2, <1>4, <1>5, <1>6

LEMMA LeaveStep == IInv /\ Leave => IInv'
<1> SUFFICES ASSUME IInv, Leave PROVE IInv'
  OBVIOUS
<1> USE DEF IInv
<1>0. /\ UNCHANGED <<mode, at, gathered, call, since, installed, visits, docker,
                     bounds>>
      /\ pc = "next" /\ call = 0 /\ pc' \in {"commit", "over"}
      /\ memory' = [memory EXCEPT !.results = gathered]
      /\ saved' \in {saved, memory'} /\ (pc' = "commit" => saved' = memory')
      /\ memory \in Memory /\ saved \in Memory /\ gathered \in Seq(Result)
  BY DEF Leave, TypeOK
<1>1. /\ memory' \in Memory /\ memory'.results = gathered
      /\ memory'.retry = memory.retry /\ saved' \in Memory
  BY <1>0 DEF Memory
<1>2. TypeOK'
  BY <1>0, <1>1 DEF TypeOK, docker, bounds
<1>3. Len(gathered) <= Len(Asked)
      /\ (mode = "recover" => Len(gathered) = Len(memory.results))
  <2>1. Len(memory.results) \in Nat /\ Len(Asked) \in Nat /\ at \in Nat
    BY <1>0, AskedLen, LenProperties DEF TypeOK, Memory
  <2> QED BY <1>0, <2>1 DEF PlaceOK, Leave, TypeOK
<1>4. PlaceOK'
  <2>1. at \in Nat /\ Len(Asked) \in Nat
    BY AskedLen DEF TypeOK
  <2> QED BY <1>0, <1>1, <1>3, <2>1 DEF PlaceOK
<1>5. PastKept
  BY <1>0, SamePast DEF docker
<1>6. ResultsOK'
  <2>1. AllSound(gathered, memory.retry.unread)'
    BY <1>0, <1>1, <1>5, AllSoundStay DEF ResultsOK
  <2>2. AllSound(memory.results, memory.retry.unread)'
    BY <1>0, <1>1, <2>1
  <2>3. saved' = saved => AllSound(saved.results, saved.retry.unread)'
    BY <1>5, AllSoundStay DEF ResultsOK
  <2> QED BY <1>0, <2>1, <2>2, <2>3 DEF ResultsOK
<1>7. RetryFits'
  <2>1. Fits(gathered, memory.retry)
    <3>1. CASE mode = "execute"
      BY <1>0, <3>1 DEF RetryFits, Visiting
    <3>2. CASE mode = "recover" /\ ~memory.retry.unread
      <4>1. memory.retry.at \in DOMAIN memory.results
        BY <3>2 DEF RetryFits, PlaceOK, Fits
      <4>2. memory.retry.at < at
        BY <1>0, <1>3, <3>2, <4>1, LenProperties DEF PlaceOK, TypeOK, Memory
      <4> QED BY <3>2, <4>2 DEF RetryFits
    <3>3. CASE memory.retry.unread
      BY <3>3 DEF Fits
    <3> QED BY <3>1, <3>2, <3>3 DEF TypeOK
  <2>2. Fits(gathered, memory.retry)'
    BY <1>0, <1>1, <1>5, <2>1, FitsStays DEF ResultsOK
  <2>3. Fits(memory.results, memory.retry)'
    BY <1>0, <1>1, <2>2
  <2>4. saved' = saved => Fits(saved.results, saved.retry)'
    BY <1>5, FitsStays DEF ResultsOK, RetryFits
  <2> QED BY <1>0, <2>2, <2>3, <2>4 DEF RetryFits, Visiting
<1>8. InHand' /\ DockerOK' /\ InTime'
  BY <1>0 DEF InHand, DockerOK, InTime, docker
<1> QED BY <1>2, <1>4, <1>6, <1>7, <1>8

LEMMA KillStep == IInv /\ Kill => IInv'
<1> SUFFICES ASSUME IInv, Kill PROVE IInv'
  OBVIOUS
<1> USE DEF IInv
<1>0. /\ memory' = saved /\ UNCHANGED <<saved, visits, calls, now, faults>>
      /\ pc' = "idle" /\ mode' = "execute" /\ at' = 1 /\ gathered' = <<>>
      /\ call' = 0 /\ since' = 0 /\ installed' = 0
      /\ kills' = kills + 1 /\ kills < MaxKills /\ MaxKills \in Nat
  BY PocAssumption DEF Kill, Outside
<1>1. /\ abandoned' = IF call = 0 THEN abandoned ELSE abandoned \cup {call}
      /\ \/ containers' = containers
         \/ /\ call # 0 /\ containers[call].client = "on"
            /\ containers' = [containers EXCEPT ![call].client = "killed"]
      /\ call \in 0..calls /\ calls \in 0..MaxCalls /\ MaxCalls \in Nat
      /\ containers \in [Calls -> Container] /\ abandoned \subseteq 1..calls
  BY PocAssumption DEF Kill, Client, TypeOK
<1>2. containers' \in [Calls -> Container]
  BY <1>1 DEF Calls, Container
<1>3. TypeOK'
  BY <1>0, <1>1, <1>2 DEF TypeOK
<1>4. PlaceOK'
  BY <1>0 DEF PlaceOK
<1>5. PastKept
  BY <1>0, <1>1 DEF PastKept, Past, Calls, Container
<1>6. ResultsOK'
  <2>1. AllSound(saved.results, saved.retry.unread)'
    BY <1>0, <1>5, AllSoundStay DEF ResultsOK
  <2> QED BY <1>0, <2>1 DEF ResultsOK, AllSound
<1>7. RetryFits'
  BY <1>0, <1>5, FitsStays DEF RetryFits, ResultsOK, Visiting
<1>8. DockerOK'
  <2> SUFFICES ASSUME NEW k \in Calls
               PROVE  LET c == containers'[k] IN
                      /\ k > calls => c = NoContainer
                      /\ c.exit # None => c.client # "on" /\ c.state # "running"
                      /\ c.client = "ended" => c.exit # None
                      /\ c.client = "on" => k \in abandoned'
                      /\ c.state = "running" => k \in abandoned'
    BY <1>0 DEF DockerOK
  <2>1. CASE containers'[k] = containers[k]
    <3>1. k = call => k # 0 /\ k \in abandoned'
      BY <1>1, <2>1 DEF Calls
    <3>2. abandoned \subseteq abandoned'
      BY <1>1
    <3>3. /\ k > calls => containers[k] = NoContainer
          /\ containers[k].exit # None =>
               containers[k].client # "on" /\ containers[k].state # "running"
          /\ containers[k].client = "ended" => containers[k].exit # None
          /\ containers[k].client = "on" => k = call \/ k \in abandoned
          /\ containers[k].state = "running" => k = call \/ k \in abandoned
      BY DEF DockerOK
    <3> QED BY <2>1, <3>1, <3>2, <3>3
  <2>2. CASE containers'[k] # containers[k]
    <3>1. k = call /\ containers'[k] = [containers[k] EXCEPT !.client = "killed"]
      BY <1>1, <2>2
    <3>2. call # 0 /\ k <= calls /\ containers[k] \in Container
      BY <1>1, <2>2, <3>1
    <3> QED BY <1>1, <3>1, <3>2 DEF DockerOK, Container
  <2> QED BY <2>1, <2>2
<1>9. InHand' /\ InTime'
  BY <1>0 DEF InHand, InTime
<1> QED BY <1>3, <1>4, <1>6, <1>7, <1>8, <1>9
-----------------------------------------------------------------------------
(* The next result, and where the stage gets it from.                      *)

LEMMA Appended ==
  ASSUME NEW s \in Seq(Result), NEW r \in Result
  PROVE  /\ Append(s, r) \in Seq(Result) /\ Len(Append(s, r)) = Len(s) + 1
         /\ DOMAIN Append(s, r) = 1..(Len(s) + 1) /\ Len(s) \in Nat
         /\ Append(s, r)[Len(s) + 1] = r
         /\ \A i \in DOMAIN s : i \in DOMAIN Append(s, r) /\ Append(s, r)[i] = s[i]
BY AppendProperties, LenProperties

LEMMA AppendSoundAfter ==
  ASSUME NEW s \in Seq(Result), NEW r \in Result, NEW unread,
         AllSound(s, unread)', Sound(Len(s) + 1, r, unread)'
  PROVE  AllSound(Append(s, r), unread)'
<1> SUFFICES ASSUME NEW i \in DOMAIN Append(s, r)
             PROVE  Sound(i, Append(s, r)[i], unread)'
  BY DEF AllSound
<1>1. i \in DOMAIN s \/ i = Len(s) + 1
  BY Appended, LenProperties
<1> QED BY <1>1, Appended DEF AllSound

LEMMA AppendFits ==
  ASSUME NEW s \in Seq(Result), NEW r \in Result, NEW retry, Fits(s, retry)
  PROVE  Fits(Append(s, r), retry)
BY Appended DEF Fits

LEMMA RetryUnread ==
  ASSUME NEW r, r \in Retry \/ r = NoRetry
  PROVE  r.unread \in BOOLEAN
<1>1. CASE r \in Retry
  BY <1>1 DEF Retry
<1>2. CASE r = NoRetry
  BY <1>2 DEF NoRetry
<1> QED BY <1>1, <1>2

LEMMA NextResultStep ==
  ASSUME IInv, pc \in {"next", "back"}, NEW r \in Result, NEW unread \in BOOLEAN,
         NextResult(r, unread), at <= Len(Asked),
         now' = now, kills' = kills, faults' \in 0..MaxFaults,
         r.install \in 0..calls, r.test \in 0..calls,
         Earns(at, r, memory.retry.unread),
         mode = "recover" => at <= Len(memory.results),
         mode = "recover" /\ at = memory.retry.at /\ ~memory.retry.unread
           /\ memory.retry.stage = "test" => Ended(r.install, at, "install"),
         mode = "execute" /\ Diagnosable(r) /\ ~unread /\ FailedStage(r) = "test" =>
           Ended(r.install, at, "install")
  PROVE  IInv'
<1> USE DEF IInv
<1>0. /\ UNCHANGED <<mode, saved, visits, docker>>
      /\ pc' = "next" /\ at' = at + 1 /\ call' = 0 /\ since' = 0 /\ installed' = 0
      /\ gathered' = Append(gathered, r) /\ gathered \in Seq(Result)
      /\ memory' = [memory EXCEPT !.retry = Marked(r, unread)]
      /\ memory \in Memory /\ at \in Nat /\ at >= 1 /\ Len(Asked) \in Nat
      /\ mode \in {"execute", "recover"} /\ calls \in Nat /\ at = Len(gathered) + 1
  <2>1. gathered \in Seq(Result) /\ Len(gathered) = at - 1 /\ at \in 1..(Len(Asked) + 1)
    BY DEF TypeOK, PlaceOK
  <2>2. Len(gathered) \in Nat /\ Len(Asked) \in Nat
    BY <2>1, AskedLen, LenProperties
  <2>3. memory \in Memory /\ mode \in {"execute", "recover"} /\ calls \in Nat
    BY PocAssumption DEF TypeOK
  <2> HIDE DEF IInv
  <2> QED BY <2>1, <2>2, <2>3 DEF NextResult
<1>1. \/ /\ memory' = memory
      \/ /\ mode = "execute" /\ Diagnosable(r) /\ memory.retry = NoRetry
         /\ memory'.retry.at = at /\ memory'.retry.unread = unread
         /\ memory'.retry.stage = (IF unread THEN "test" ELSE FailedStage(r))
         /\ memory'.retry \in Retry /\ memory' \in Memory
         /\ memory'.results = memory.results
  <2>1. CASE mode = "execute" /\ Diagnosable(r) /\ memory.retry = NoRetry
    <3>1. FailedStage(r) \in Stages
      BY DEF FailedStage, Stages
    <3> QED BY <1>0, <2>1, <3>1 DEF Marked, Memory, Retry, Stages
  <2>2. CASE ~(mode = "execute" /\ Diagnosable(r) /\ memory.retry = NoRetry)
    BY <1>0, <2>2 DEF Marked, Memory
  <2> QED BY <2>1, <2>2
<1>2. TypeOK'
  BY <1>0, <1>1, Appended DEF TypeOK, docker
<1>3. PlaceOK'
  <2>1. Len(gathered') = at
    BY <1>0, Appended
  <2>2. mode = "recover" => memory' = memory
    BY <1>1
  <2>3. memory'.results = memory.results /\ Len(memory.results) \in Nat
    BY <1>0, <1>1, LenProperties DEF Memory
  <2>4. pc \notin {"idle", "over"}
    OBVIOUS
  <2>5. PlaceOK /\ (mode = "recover" => at <= Len(memory.results))
    OBVIOUS
  <2> HIDE DEF IInv
  <2>6. visits' < MaxVisits /\ Len(memory'.results) <= Len(Asked)
        /\ Len(saved'.results) <= Len(Asked) /\ Len(gathered') = at' - 1
    BY <1>0, <2>1, <2>3, <2>4, <2>5 DEF PlaceOK
  <2>7. mode' = "recover" => at' <= Len(memory'.results) + 1 /\ memory'.retry # NoRetry
    <3>1. mode = "recover" => memory.retry # NoRetry /\ memory' = memory
      BY <2>2, <2>5 DEF PlaceOK
    <3>2. mode = "recover" => at + 1 <= Len(memory.results) + 1
      BY <1>0, <2>3, <2>5
    <3> QED BY <1>0, <3>1, <3>2
  <2> QED BY <1>0, <2>6, <2>7 DEF PlaceOK
<1>4. PastKept
  BY <1>0, SamePast DEF docker
<1>5. memory.retry.unread \in BOOLEAN /\ memory'.retry.unread \in BOOLEAN
      /\ (memory.retry.unread => memory'.retry.unread)
  <2>1. memory.retry.unread \in BOOLEAN
    <3>1. memory.retry \in Retry \/ memory.retry = NoRetry
      BY <1>0 DEF Memory
    <3> HIDE DEF IInv
    <3> QED BY <3>1, RetryUnread
  <2> HIDE DEF IInv
  <2>2. CASE memory' = memory
    BY <2>1, <2>2
  <2>3. CASE memory' # memory
    <3>1. memory.retry = NoRetry /\ memory'.retry.unread = unread
      BY <1>1, <2>3
    <3> QED BY <2>1, <3>1 DEF NoRetry
  <2> QED BY <2>2, <2>3
<1>6. Past' = 0..calls /\ (pc = "next" => Past = 0..calls)
  BY <1>0 DEF Past, docker, TypeOK
<1>7. PICK g \in Seq(Result), u \in BOOLEAN : g = gathered /\ u = memory'.retry.unread
  BY <1>0, <1>5
<1>8. AllSound(g, u) /\ AllSound(memory.results, u)
  BY <1>5, <1>7, SoundWeaker DEF ResultsOK
<1>9. AllSound(Append(g, r), u)'
  <2>1. AllSound(g, u)'
    BY <1>4, <1>8, AllSoundStay
  <2>2. Sound(Len(g) + 1, r, u)'
    <3>1. Earns(at, r, u)
      BY <1>5, <1>7 DEF Earns
    <3>2. \A k : Ended(k, Len(g) + 1, "test")' = Ended(k, at, "test")
          /\ Ended(k, Len(g) + 1, "install")' = Ended(k, at, "install")
      BY <1>0, <1>7 DEF Ended, docker
    <3> QED BY <1>6, <3>1, <3>2 DEF Sound, Earns
  <2> QED BY <2>1, <2>2, AppendSoundAfter
<1>10. ResultsOK'
  <2>1. AllSound(gathered, memory.retry.unread)'
    BY <1>0, <1>7, <1>9
  <2>2. AllSound(memory.results, memory.retry.unread)'
    <3>1. PICK m : m = memory.results
      OBVIOUS
    <3>2. AllSound(m, u)'
      BY <1>4, <1>8, <3>1, AllSoundStay
    <3>3. memory'.results = m
      BY <1>0, <1>1, <3>1
    <3> QED BY <1>7, <3>2, <3>3
  <2>3. AllSound(saved.results, saved.retry.unread)'
    BY <1>0, <1>4, AllSoundStay DEF ResultsOK
  <2> QED BY <2>1, <2>2, <2>3 DEF ResultsOK
<1>11. Fits(g, memory.retry) /\ memory' = memory =>
         Fits(gathered, memory.retry)'
  <2> SUFFICES ASSUME Fits(g, memory.retry), memory' = memory
               PROVE  Fits(gathered, memory.retry)'
    OBVIOUS
  <2>1. Fits(g, memory.retry)'
    BY <1>4, <1>7, <1>8, FitsStays, SoundWeaker DEF ResultsOK
  <2>2. Fits(Append(g, r), memory.retry)'
    BY <2>1, Appended DEF Fits
  <2> QED BY <1>0, <1>7, <2>2
<1>12. RetryFits'
  <2>1. Fits(saved.results, saved.retry)'
    BY <1>0, <1>4, FitsStays DEF RetryFits, ResultsOK
  <2>2. CASE mode = "execute"
    <3>1. Fits(g, memory.retry)
      BY <1>7, <2>2 DEF RetryFits, Visiting
    <3>2. CASE memory' = memory
      BY <1>0, <1>11, <2>1, <2>2, <3>1, <3>2 DEF RetryFits
    <3>3. CASE memory' # memory
      <4>1. PICK k : k = at
        OBVIOUS
      <4>2. mode = "execute" /\ Diagnosable(r) /\ memory'.retry.at = k
            /\ memory'.retry.unread = unread
            /\ (~unread => memory'.retry.stage = FailedStage(r))
        BY <1>1, <3>3, <4>1
      <4>3. k \in DOMAIN gathered' /\ gathered'[k] = r
        BY <1>0, <1>7, <4>1, Appended
      <4>4. ~unread /\ memory'.retry.stage = "test" => Ended(r.install, k, "install")
        BY <4>1, <4>2
      <4>5. Ended(r.install, k, "install") => Ended(r.install, k, "install")'
        BY <1>0 DEF Ended, docker
      <4> HIDE DEF IInv
      <4>6. Fits(gathered, memory.retry)'
        BY <4>2, <4>3, <4>4, <4>5 DEF Fits
      <4> QED BY <1>0, <2>1, <2>2, <4>6 DEF RetryFits
    <3> QED BY <3>2, <3>3
  <2>3. CASE mode = "recover"
    <3>1. memory' = memory
      BY <1>1, <2>3
    <3>2. Fits(memory.results, memory.retry)'
      BY <1>4, <2>3, <3>1, FitsStays DEF RetryFits, ResultsOK
    <3>3. memory.retry.at < at => Fits(gathered, memory.retry)'
      BY <1>7, <1>11, <2>3, <3>1 DEF RetryFits
    <3>4. memory.retry.at = at => Fits(gathered, memory.retry)'
      <4>1. at \in DOMAIN gathered' /\ gathered'[at] = r
        BY <1>0, <1>7, Appended
      <4> QED BY <1>0, <2>3, <3>1, <4>1 DEF Fits, Ended, docker
    <3>5. memory.retry.at \in Int
      BY <1>0 DEF Memory, Retry, NoRetry
    <3>6. memory'.retry.at < at' => Fits(gathered, memory.retry)'
      <4> HIDE DEF IInv
      <4>1. memory'.retry.at < at' => memory.retry.at < at \/ memory.retry.at = at
        <5>1. at' = at + 1 /\ at \in Nat
          BY <1>0
        <5>2. memory'.retry.at = memory.retry.at
          BY <3>1
        <5> QED BY <3>5, <5>1, <5>2
      <4> QED BY <3>3, <3>4, <4>1
    <3> QED BY <1>0, <2>1, <2>3, <3>2, <3>6 DEF RetryFits
  <2> QED BY <1>0, <2>2, <2>3
<1>13. InHand' /\ DockerOK' /\ InTime'
  BY <1>0 DEF InHand, DockerOK, InTime, docker
<1> QED BY <1>2, <1>3, <1>10, <1>12, <1>13

LEMMA FinalizeStep ==
  ASSUME IInv, pc \in {"next", "back"}, mode = "execute", at <= Len(Asked),
         NEW r \in Result, Finalize(r), r.install \in 0..calls, r.test \in 0..calls,
         Earns(at, r, memory.retry.unread),
         Diagnosable(r) /\ FailedStage(r) = "test" => Ended(r.install, at, "install")
  PROVE  IInv'
<1>1. now' = now /\ kills' = kills /\ faults' \in 0..MaxFaults
  <2>1. UNCHANGED bounds \/ Fault
    BY DEF Finalize
  <2>2. faults \in 0..MaxFaults /\ MaxFaults \in Nat
    BY PocAssumption DEF IInv, TypeOK
  <2> QED BY <2>1, <2>2 DEF bounds, Fault
<1>2. CASE NextResult(r, FALSE)
  BY <1>1, <1>2, NextResultStep
<1>3. CASE NextResult(r, TRUE)
  BY <1>1, <1>3, NextResultStep
<1>4. ASSUME NEW s, s = [r EXCEPT !.status = "failed", !.kept = None,
                                  !.code = "poc_artifact_invalid"],
             NextResult(s, FALSE)
      PROVE  IInv'
  <2>1. s \in Result /\ s.install = r.install /\ s.test = r.test
        /\ s.status = "failed" /\ s.kept = None
    BY <1>4 DEF Result, Codes
  <2>2. Earns(at, s, memory.retry.unread) /\ FailedStage(s) = "install"
    BY <2>1 DEF Earns, FailedStage, Stages, None
  <2> QED BY <1>1, <1>4, <2>1, <2>2, NextResultStep
<1> QED BY <1>2, <1>3, <1>4 DEF Finalize

(* A rerun keeps the install of the first attempt or is one.               *)
LEMMA RerunResult ==
  ASSUME NEW before \in Result, NEW k \in 0..MaxCalls, NEW code \in Codes,
         NEW status \in {"passed", "failed", "timed_out", "research_only"},
         memory.retry.stage \in Stages, at \in DOMAIN memory.results,
         memory.results[at] = before
  PROVE  LET r == Reran(status, code, k) IN
         /\ r \in Result
         /\ r.status = (IF memory.retry.stage = "test" THEN status ELSE "failed")
         /\ r.install = (IF k # 0 /\ memory.retry.stage = "install" THEN k
                         ELSE before.install)
         /\ r.test = (IF k # 0 /\ memory.retry.stage = "test" THEN k
                      ELSE before.test)
BY DEF Reran, Merged, Result, Codes, ExitCode, Ends, Stages

LEMMA SettledStep ==
  ASSUME IInv, pc \in {"next", "back"}, at <= Len(Asked),
         NEW status \in {"passed", "failed", "timed_out", "research_only"},
         NEW code \in Codes, NEW stage \in Stages \cup {"no_stage"}, NEW k \in 0..calls,
         Settled(status, code, stage, k),
         mode = "recover" => at <= Len(memory.results) /\ at = memory.retry.at,
         k # 0 => k = call /\ stage = containers[call].stage,
         status = "passed" => /\ k # 0 /\ containers[k].exit = "zero"
                              /\ mode = "execute" => stage = "test",
         mode = "execute" /\ status \in {"failed", "timed_out"}
           /\ code \notin {"tool_unavailable", "poc_recipe_unsupported"} => k # 0
  PROVE  IInv'
<1>1. /\ calls \in Nat /\ calls <= MaxCalls /\ MaxCalls \in Nat
      /\ installed \in 0..calls /\ at \in Nat /\ at >= 1
      /\ mode \in {"execute", "recover"} /\ faults \in 0..MaxFaults /\ MaxFaults \in Nat
  BY PocAssumption DEF IInv, TypeOK
<1>2. k # 0 => Past = 0..(k - 1) /\ k = calls /\ containers[k].candidate = Asked[at]
  BY DEF IInv, InHand, Past
<1>3. CASE mode = "execute"
  <2> DEFINE r == Found(status, code, stage, IF stage = "test" THEN k ELSE 0)
  <2>1. /\ r \in Result /\ r.install = installed /\ r.status = status
        /\ r.test = (IF stage = "test" THEN k ELSE 0) /\ r.code = code /\ r.kept = stage
    BY <1>1 DEF Found, Result, Stages, None
  <2>2. k # 0 /\ stage = "test" => Ended(installed, at, "install") /\ installed < k
    BY <1>1, <1>2, <1>3 DEF IInv, InHand
  <2>3. Earns(at, r, memory.retry.unread)
    BY <1>2, <1>3, <2>1, <2>2 DEF Earns, Ended
  <2>4. Diagnosable(r) /\ FailedStage(r) = "test" => Ended(r.install, at, "install")
    <3> SUFFICES ASSUME Diagnosable(r), FailedStage(r) = "test"
                 PROVE  Ended(installed, at, "install")
      BY <2>1
    <3>1. status \in {"failed", "timed_out"} /\ k # 0
      BY <1>3, <2>1 DEF Diagnosable, Broke
    <3>2. stage = "test"
      BY <2>1, <3>1 DEF FailedStage, Stages, None, IInv, InHand
    <3> QED BY <2>2, <3>1, <3>2
  <2>5. Finalize(r)
    BY <1>3 DEF Settled
  <2>6. r.install \in 0..calls /\ r.test \in 0..calls
    BY <1>1, <2>1
  <2> HIDE DEF r
  <2> QED BY <1>3, <2>1, <2>3, <2>4, <2>5, <2>6, FinalizeStep
<1>4. CASE mode = "recover"
  <2>1. /\ at = memory.retry.at /\ at \in DOMAIN memory.results
        /\ memory.retry.stage \in Stages /\ memory.results[at] \in Result
    <3>1. memory \in Memory /\ memory.retry # NoRetry /\ at <= Len(memory.results)
          /\ at = memory.retry.at
      BY <1>4 DEF IInv, TypeOK, PlaceOK
    <3>2. memory.results \in Seq(Result) /\ memory.retry \in Retry
      BY <3>1 DEF Memory
    <3>3. memory.retry.stage \in Stages
      BY <3>2 DEF Retry
    <3>4. at \in DOMAIN memory.results
      BY <1>1, <3>1, <3>2, LenProperties
    <3> QED BY <3>1, <3>2, <3>3, <3>4, ElementOfSeq
  <2>2. /\ Sound(at, memory.results[at], memory.retry.unread)
        /\ ~memory.retry.unread /\ memory.retry.stage = "test" =>
             Ended(memory.results[at].install, at, "install")
    BY <1>4, <2>1 DEF IInv, ResultsOK, AllSound, RetryFits, Fits, PlaceOK
  <2>3. ASSUME NEW st \in {status, "failed"}, NEW co \in Codes, NEW r \in Result,
               r = Reran(st, co, k), NextResult(r, FALSE),
               now' = now, kills' = kills, faults' \in 0..MaxFaults
        PROVE  IInv'
    <3>1. /\ r.status = (IF memory.retry.stage = "test" THEN st ELSE "failed")
          /\ r.install = (IF k # 0 /\ memory.retry.stage = "install" THEN k
                          ELSE memory.results[at].install)
          /\ r.test = (IF k # 0 /\ memory.retry.stage = "test" THEN k
                       ELSE memory.results[at].test)
      <4>1. st \in {"passed", "failed", "timed_out", "research_only"}
        BY <2>3
      <4>2. k \in 0..MaxCalls
        BY <1>1
      <4> QED BY <2>1, <2>3, <4>1, <4>2, RerunResult
    <3>2. memory.results[at].install \in 0..calls /\ memory.results[at].test \in 0..calls
      BY <1>1, <2>2 DEF Sound, Past
    <3>3. r.install \in 0..calls /\ r.test \in 0..calls
      BY <3>1, <3>2
    <3>4. Earns(at, r, memory.retry.unread)
      <4> SUFFICES ASSUME r.status = "passed"
                   PROVE  /\ Ended(r.test, at, "test")
                          /\ memory.retry.unread \/
                               (Ended(r.install, at, "install") /\ r.install < r.test)
        BY DEF Earns
      <4>1. st = "passed" /\ status = "passed" /\ memory.retry.stage = "test"
        BY <2>3, <3>1
      <4>2. k # 0 /\ containers[k].exit = "zero" /\ stage = "test"
        BY <1>4, <4>1 DEF IInv, InHand
      <4>3. r.test = k /\ r.install = memory.results[at].install
        BY <3>1, <4>1, <4>2
      <4>4. Ended(k, at, "test")
        BY <1>2, <4>2 DEF Ended
      <4>5. r.install < r.test
        BY <1>1, <1>2, <2>2, <4>2, <4>3 DEF Sound
      <4> QED BY <2>2, <4>1, <4>3, <4>4, <4>5
    <3>5. ~memory.retry.unread /\ memory.retry.stage = "test" =>
            Ended(r.install, at, "install")
      BY <2>2, <3>1
    <3> QED BY <1>4, <2>3, <3>3, <3>4, <3>5, NextResultStep
  <2>4. CASE NextResult(Reran(status, code, k), FALSE) /\ UNCHANGED bounds
    <3>1. Reran(status, code, k) \in Result
      BY <1>1, <2>1, RerunResult
    <3>2. now' = now /\ kills' = kills /\ faults' \in 0..MaxFaults
      BY <1>1, <2>4 DEF bounds
    <3> QED BY <2>3, <2>4, <3>1, <3>2
  <2>5. CASE Fault /\ NextResult(Reran("failed", "poc_artifact_invalid", k), FALSE)
    <3>1. Reran("failed", "poc_artifact_invalid", k) \in Result
      <4>1. "poc_artifact_invalid" \in Codes /\ k \in 0..MaxCalls
        BY <1>1 DEF Codes
      <4> QED BY <2>1, <4>1, RerunResult
    <3>2. now' = now /\ kills' = kills /\ faults' \in 0..MaxFaults
      BY <1>1, <2>5 DEF Fault
    <3> QED BY <2>3, <2>5, <3>1, <3>2 DEF Codes
  <2> QED BY <1>4, <2>4, <2>5 DEF Settled
<1> QED BY <1>1, <1>3, <1>4
-----------------------------------------------------------------------------
(* A container is launched, run, waited for and removed.                   *)

Statuses == {"passed", "failed", "timed_out", "research_only"}

LEMMA LaunchStep ==
  ASSUME IInv, pc \in {"next", "back"}, at <= Len(Asked), NEW stage \in Stages,
         Launch(stage),
         \/ pc = "next" /\ installed' = installed
         \/ pc = "back" /\ installed' = call /\ containers[call].exit # None,
         mode = "recover" => /\ at <= Len(memory.results) /\ at = memory.retry.at
                             /\ stage = memory.retry.stage,
         mode = "execute" /\ stage = "test" => installed' # 0 /\ Ended(installed', at, "install"),
         now + Wait <= Deadline,
         mode = "execute" /\ stage = "install" => now + 2 * Wait <= Deadline
  PROVE  IInv'
<1> DEFINE fresh == [NoContainer EXCEPT !.candidate = Asked[at], !.stage = stage,
                                        !.client = "on"]
           k == calls + 1
<1>0. /\ calls' = k /\ call' = k /\ k \in Calls /\ k \notin {0, call} /\ k <= MaxCalls
      /\ containers' = [containers EXCEPT ![k] = fresh] /\ k \in Nat /\ calls \in Nat
      /\ containers \in [Calls -> Container]
      /\ pc' = "run" /\ since' = now /\ now \in Nat /\ Deadline \in Nat
      /\ UNCHANGED <<mode, at, gathered, kept, abandoned, bounds>>
      /\ call \in 0..calls /\ installed \in 0..calls /\ abandoned \subseteq 1..calls
      /\ mode \in {"execute", "recover"} /\ at \in 1..(Len(Asked) + 1)
  <2>1. /\ call \in 0..calls /\ calls \in 0..MaxCalls /\ MaxCalls \in Nat
        /\ now \in 0..(Deadline + 1) /\ Deadline \in Nat /\ at \in 1..(Len(Asked) + 1)
        /\ installed \in 0..calls /\ abandoned \in SUBSET (1..calls)
        /\ mode \in {"execute", "recover"} /\ containers \in [Calls -> Container]
    BY PocAssumption DEF IInv, TypeOK
  <2>2. /\ calls < MaxCalls /\ calls' = k /\ call' = k /\ pc' = "run" /\ since' = now
        /\ containers' = [containers EXCEPT ![k] = fresh]
        /\ UNCHANGED <<mode, at, gathered, kept, abandoned, bounds>>
    BY DEF Launch
  <2> QED BY <2>1, <2>2 DEF Calls
<1>1. /\ fresh \in Container /\ fresh.candidate = Asked[at] /\ fresh.stage = stage
      /\ fresh.client = "on" /\ fresh.state = None /\ fresh.exit = None
      /\ fresh.id = FALSE
  <2>1. Asked[at] \in Candidates
    BY <1>0 DEF Candidates
  <2> QED BY <2>1 DEF NoContainer, Container, None
<1>2. /\ containers' \in [Calls -> Container] /\ containers'[k] = fresh
      /\ \A j \in Calls : j # k => containers'[j] = containers[j]
  BY <1>0, <1>1
<1> HIDE DEF fresh
<1>3. TypeOK'
  <2>1. installed' \in 0..k /\ abandoned' \in SUBSET (1..k) /\ 0 # k
    BY <1>0
  <2>2. since' \in 0..now /\ pc' \in {"run"}
    BY <1>0
  <2>3. TypeOK /\ MaxCalls \in Nat
    BY PocAssumption DEF IInv
  <2> QED BY <1>0, <1>2, <2>1, <2>2, <2>3 DEF TypeOK, kept, bounds
<1>4. PlaceOK'
  BY <1>0 DEF PlaceOK, kept, IInv
<1>5. PastKept
  BY <1>0, <1>2 DEF PastKept, Past
<1>6. ResultsOK'
  BY <1>0, <1>5, KeptResults DEF kept, IInv
<1>7. RetryFits'
  BY <1>0, <1>5, RetryKept DEF Visiting, kept, IInv
<1>8. InHand'
  <2>1. installed' \in Past'
    BY <1>0 DEF Past
  <2>2. installed' # k
    BY <1>0
  <2>3. Ended(installed', at, "install") => Ended(installed, at, "install")'
    BY <1>0, <1>2, <2>2 DEF Ended
  <2> QED BY <1>0, <1>1, <1>2, <2>1, <2>3 DEF InHand, kept
<1>9. DockerOK'
  <2> SUFFICES ASSUME NEW j \in Calls
               PROVE  LET c == containers'[j] IN
                      /\ j > k => c = NoContainer
                      /\ c.exit # None => c.client # "on" /\ c.state # "running"
                      /\ c.client = "ended" => c.exit # None
                      /\ c.client = "on" => j = k \/ j \in abandoned
                      /\ c.state = "running" => j \in abandoned
    BY <1>0 DEF DockerOK
  <2>1. CASE j = k
    BY <1>0, <1>1, <1>2, <2>1 DEF None
  <2>2. CASE j # k
    BY <1>0, <1>2, <2>2 DEF DockerOK, IInv, Calls
  <2> QED BY <2>1, <2>2
<1>10. InTime'
  BY <1>0, <1>1, <1>2, PocAssumption DEF InTime, bounds, Wait
<1> QED BY <1>3, <1>4, <1>6, <1>7, <1>8, <1>9, <1>10 DEF IInv

(* A step of the runner changes the container in hand only.                *)
LEMMA CallStep ==
  ASSUME IInv, call # 0, UNCHANGED <<mode, at, gathered, call, installed, kept, calls>>,
         NEW c \in Container, containers' = [containers EXCEPT ![call] = c],
         c.candidate = containers[call].candidate, c.stage = containers[call].stage,
         c.exit = containers[call].exit,
         pc' \in {"remove", "back"}, since' \in 0..now,
         now' = now, kills' = kills, faults' \in 0..MaxFaults,
         abandoned' \in {abandoned, abandoned \cup {call}},
         c.client = "killed" \/ (pc' = "back" /\ c.client = "ended"),
         c.client = "ended" => c.exit # None,
         c.exit # None => c.state # "running",
         c.state = "running" => (pc' = "remove" /\ c.id) \/ call \in abandoned',
         InTime'
  PROVE  IInv'
<1>1. /\ call \in Calls /\ call = calls /\ calls \in 0..MaxCalls /\ MaxCalls \in Nat
      /\ containers \in [Calls -> Container] /\ abandoned \subseteq 1..calls
      /\ pc \in {"run", "remove", "back"}
  <2>1. /\ call \in 0..calls /\ calls \in 0..MaxCalls /\ MaxCalls \in Nat
        /\ containers \in [Calls -> Container] /\ abandoned \in SUBSET (1..calls)
        /\ pc \in {"run", "remove", "back"}
    BY PocAssumption DEF IInv, TypeOK
  <2>2. call = calls
    BY DEF IInv, InHand
  <2> QED BY <2>1, <2>2 DEF Calls
<1>2. /\ containers' \in [Calls -> Container] /\ containers'[call] = c
      /\ \A k \in Calls : k # call => containers'[k] = containers[k]
  BY <1>1
<1>3. abandoned' \in SUBSET (1..calls) /\ abandoned \subseteq abandoned'
  BY <1>1 DEF Calls
<1>4. TypeOK'
  BY <1>2, <1>3 DEF IInv, TypeOK, kept
<1>5. PlaceOK'
  BY <1>1 DEF IInv, PlaceOK, kept
<1>6. PastKept
  BY <1>1, <1>2 DEF PastKept, Past, Calls
<1>7. ResultsOK'
  BY <1>6, KeptResults DEF IInv, kept
<1>8. RetryFits'
  BY <1>1, <1>6, RetryKept DEF IInv, Visiting, kept
<1>9. InHand'
  <2>1. installed \in Past /\ Past' = Past /\ InHand
    BY <1>1 DEF IInv, InHand, Past
  <2>2. Ended(installed, at, "install") => Ended(installed, at, "install")'
    BY <1>6, <2>1, EndedStays DEF Ended
  <2> QED BY <1>1, <1>2, <2>1, <2>2 DEF InHand, kept
<1>10. DockerOK'
  <2> SUFFICES ASSUME NEW k \in Calls
               PROVE  LET d == containers'[k] IN
                      /\ k > calls => d = NoContainer
                      /\ d.exit # None => d.client # "on" /\ d.state # "running"
                      /\ d.client = "ended" => d.exit # None
                      /\ d.client = "on" => k \in abandoned'
                      /\ d.state = "running" =>
                           (k = call /\ pc' = "remove" /\ d.id) \/ k \in abandoned'
    BY DEF DockerOK
  <2>1. CASE k = call
    BY <1>1, <1>2, <2>1
  <2>2. CASE k # call
    BY <1>2, <1>3, <2>2 DEF DockerOK, IInv
  <2> QED BY <2>1, <2>2
<1> QED BY <1>4, <1>5, <1>7, <1>8, <1>9, <1>10 DEF IInv

LEMMA InHandTyped ==
  ASSUME IInv, call # 0
  PROVE  /\ call \in Calls /\ call = calls /\ containers[call] \in Container
         /\ containers[call].stage \in Stages /\ containers[call].candidate = Asked[at]
         /\ at <= Len(Asked) /\ calls \in Nat /\ now \in Nat /\ since \in 0..now
         /\ Limit \in Nat /\ RemoveLimit \in Nat /\ Deadline \in Nat
         /\ faults \in 0..MaxFaults /\ MaxFaults \in Nat
<1>1. /\ call \in 0..calls /\ calls \in 0..MaxCalls /\ MaxCalls \in Nat
      /\ containers \in [Calls -> Container] /\ now \in 0..(Deadline + 1)
      /\ since \in 0..now /\ faults \in 0..MaxFaults /\ MaxFaults \in Nat
      /\ Limit \in Nat /\ RemoveLimit \in Nat /\ Deadline \in Nat
  BY PocAssumption DEF IInv, TypeOK
<1>2. /\ call = calls /\ at <= Len(Asked) /\ containers[call].stage \in Stages
      /\ containers[call].candidate = Asked[at]
  BY DEF IInv, InHand
<1> QED BY <1>1, <1>2 DEF Calls

LEMMA ReturnStep == IInv /\ Return => IInv'
<1> SUFFICES ASSUME IInv, Return PROVE IInv'
  OBVIOUS
<1> DEFINE c == [containers[call] EXCEPT !.id = FALSE]
<1>1. call # 0 /\ pc = "run" /\ containers[call].client = "ended"
  BY DEF Return, IInv, TypeOK
<1>2. /\ c \in Container /\ c.candidate = containers[call].candidate
      /\ c.stage = containers[call].stage /\ c.exit = containers[call].exit
      /\ c.client = "ended" /\ c.state = containers[call].state
  BY <1>1, InHandTyped DEF Container
<1>3. containers' = [containers EXCEPT ![call] = c]
  BY DEF Return
<1>4. c.exit # None /\ c.state # "running"
  BY <1>1, <1>2, InHandTyped DEF IInv, DockerOK
<1>5. containers'[call] = c
  BY <1>1, <1>3, InHandTyped DEF IInv, TypeOK
<1>6. /\ UNCHANGED <<mode, at, gathered, call, installed, kept, calls, abandoned, bounds>>
      /\ pc' = "back" /\ since' = 0
  BY DEF Return
<1> HIDE DEF c
<1>7. InTime'
  BY <1>1, <1>2, <1>5, <1>6, InHandTyped DEF IInv, InTime, Wait, bounds
<1>8. since' \in 0..now /\ faults' \in 0..MaxFaults
  BY <1>1, <1>6, InHandTyped DEF bounds
<1> QED BY <1>1, <1>2, <1>3, <1>4, <1>6, <1>7, <1>8, CallStep DEF bounds

LEMMA TimeOutStep == IInv /\ TimeOut => IInv'
<1> SUFFICES ASSUME IInv, TimeOut PROVE IInv'
  OBVIOUS
<1> DEFINE c == [containers[call] EXCEPT !.client = "killed"]
<1>1. call # 0 /\ pc = "run" /\ containers[call].client = "on" /\ now - since >= Limit
  BY DEF TimeOut, IInv, TypeOK
<1>2. /\ c \in Container /\ c.candidate = containers[call].candidate
      /\ c.stage = containers[call].stage /\ c.exit = containers[call].exit
      /\ c.client = "killed" /\ c.state = containers[call].state
      /\ c.id = containers[call].id
  BY <1>1, InHandTyped DEF Container
<1>3. containers' = [containers EXCEPT ![call] = c]
  BY DEF TimeOut
<1>4. c.exit = None /\ (c.state = "running" => c.id \/ call \in abandoned)
  BY <1>1, <1>2, InHandTyped DEF IInv, DockerOK
<1>5. containers'[call] = c
  BY <1>1, <1>3, InHandTyped DEF IInv, TypeOK
<1>6. /\ UNCHANGED <<mode, at, gathered, call, installed, kept, calls, abandoned, bounds>>
      /\ pc' = "remove" /\ since' = now
  BY DEF TimeOut
<1> HIDE DEF c
<1>7. InTime'
  BY <1>1, <1>2, <1>5, <1>6, InHandTyped DEF IInv, InTime, Wait, bounds
<1>8. since' \in 0..now /\ faults' \in 0..MaxFaults
  BY <1>1, <1>6, InHandTyped DEF bounds
<1> QED BY <1>1, <1>2, <1>3, <1>4, <1>6, <1>7, <1>8, CallStep DEF bounds

LEMMA RemoveStep == IInv /\ Remove => IInv'
<1> SUFFICES ASSUME IInv, Remove PROVE IInv'
  OBVIOUS
<1>1. call # 0 /\ pc = "remove" /\ containers[call].client = "killed"
  BY DEF Remove, IInv, TypeOK, InHand
<1>2. /\ UNCHANGED <<mode, at, gathered, call, installed, kept, calls>>
      /\ pc' = "back" /\ since' = 0
  BY DEF Remove
<1>3. since' \in 0..now /\ faults \in 0..MaxFaults /\ MaxFaults \in Nat
      /\ containers[call] \in Container /\ call \in Calls
  BY <1>1, <1>2, InHandTyped
<1>4. containers[call].state = "running" => containers[call].id \/ call \in abandoned
  BY <1>1, <1>3 DEF IInv, DockerOK
<1>5. containers[call].exit # None => containers[call].state # "running"
  BY <1>3 DEF IInv, DockerOK
<1>6. ASSUME NEW c \in Container, containers' = [containers EXCEPT ![call] = c],
             c.client = containers[call].client
      PROVE  InTime'
  <2>1. containers'[call] = c
    BY <1>3, <1>6 DEF IInv, TypeOK
  <2> QED BY <1>1, <1>2, <1>6, <2>1 DEF InTime
<1>7. ASSUME containers' = [containers EXCEPT ![call].id = FALSE,
                ![call].state = IF containers[call].id THEN "gone" ELSE @],
             UNCHANGED <<abandoned, bounds>>
      PROVE  IInv'
  <2> DEFINE c == [containers[call] EXCEPT !.id = FALSE,
                     !.state = IF containers[call].id THEN "gone" ELSE @]
  <2>1. /\ c \in Container /\ c.candidate = containers[call].candidate
        /\ c.stage = containers[call].stage /\ c.exit = containers[call].exit
        /\ c.client = containers[call].client
        /\ c.state = IF containers[call].id THEN "gone" ELSE containers[call].state
    BY <1>3 DEF Container
  <2>2. containers' = [containers EXCEPT ![call] = c]
    BY <1>3, <1>7 DEF IInv, TypeOK
  <2> HIDE DEF c
  <2>3. InTime'
    BY <1>6, <2>1, <2>2
  <2>4. (c.state = "running" => call \in abandoned') /\ c.client # "ended"
        /\ (c.exit # None => c.state # "running")
    BY <1>1, <1>4, <1>5, <1>7, <2>1
  <2> QED BY <1>1, <1>2, <1>3, <1>7, <2>1, <2>2, <2>3, <2>4, CallStep DEF bounds
<1>8. ASSUME containers' = [containers EXCEPT ![call].id = FALSE], Fault,
             abandoned' = abandoned \cup {call}
      PROVE  IInv'
  <2> DEFINE c == [containers[call] EXCEPT !.id = FALSE]
  <2>1. /\ c \in Container /\ c.candidate = containers[call].candidate
        /\ c.stage = containers[call].stage /\ c.exit = containers[call].exit
        /\ c.client = containers[call].client /\ c.state = containers[call].state
    BY <1>3 DEF Container
  <2>2. containers' = [containers EXCEPT ![call] = c]
    BY <1>8
  <2> HIDE DEF c
  <2>3. InTime'
    BY <1>6, <2>1, <2>2
  <2>4. now' = now /\ kills' = kills /\ faults' \in 0..MaxFaults /\ call \in abandoned'
    BY <1>3, <1>8 DEF Fault
  <2> QED BY <1>1, <1>2, <1>3, <1>5, <1>8, <2>1, <2>2, <2>3, <2>4, CallStep
<1> QED BY <1>7, <1>8 DEF Remove
-----------------------------------------------------------------------------
(* The service's steps around the runner, and the Docker client and daemon.*)

LEMMA UnavailableStep ==
  ASSUME IInv, pc \in {"next", "back"}, at <= Len(Asked), NEW stage \in Stages,
         Unavailable(stage),
         mode = "recover" => at <= Len(memory.results) /\ at = memory.retry.at
  PROVE  IInv'
<1>1. "tool_unavailable" \in Codes
  BY DEF Codes, Ends, ExitCode
<1>2. 0 \in 0..calls
  BY DEF IInv, TypeOK
<1> QED BY <1>1, <1>2, SettledStep DEF Unavailable

LEMMA CompiledStep ==
  ASSUME IInv, pc = "next", at <= Len(Asked), NEW stage \in Stages, Compiled(stage),
         mode = "recover" => /\ at <= Len(memory.results) /\ at = memory.retry.at
                             /\ stage = memory.retry.stage,
         mode = "execute" => stage = "install",
         now + Wait <= Deadline,
         mode = "execute" => now + 2 * Wait <= Deadline
  PROVE  IInv'
<1>1. CASE Unavailable(stage)
  BY <1>1, UnavailableStep
<1>2. CASE Launch(stage) /\ UNCHANGED installed
  BY <1>2, LaunchStep
<1>3. CASE Settled("research_only", "poc_recipe_unsupported", "no_stage", 0)
  <2>1. "poc_recipe_unsupported" \in Codes
    BY DEF Codes
  <2>2. 0 \in 0..calls
    BY DEF IInv, TypeOK
  <2> QED BY <1>3, <2>1, <2>2, SettledStep
<1> QED BY <1>1, <1>2, <1>3 DEF Compiled

LEMMA ExecuteStep == IInv /\ Execute => IInv'
<1> SUFFICES ASSUME IInv, Execute PROVE IInv'
  OBVIOUS
<1>1. pc = "next" /\ mode = "execute" /\ at <= Len(Asked)
  BY DEF Execute
<1>2. CASE TooLate(FullBudget)
  BY <1>1, <1>2, RaiseStep DEF TooLate
<1>3. CASE HasTime(FullBudget) /\ Compiled("install")
  <2>1. now + Wait <= Deadline /\ now + 2 * Wait <= Deadline
    <3>1. now \in Nat
      BY DEF IInv, TypeOK
    <3> QED BY <1>3, <3>1, PocAssumption DEF HasTime, Wait
  <2> QED BY <1>1, <1>3, <2>1, CompiledStep DEF Stages
<1> QED BY <1>2, <1>3 DEF Execute

LEMMA RecoverStep == IInv /\ Recover => IInv'
<1> SUFFICES ASSUME IInv, Recover PROVE IInv'
  OBVIOUS
<1>1. pc = "next" /\ mode = "recover" /\ at <= Len(memory.results)
  BY DEF Recover
<1>2. /\ memory \in Memory /\ at \in Nat /\ at >= 1 /\ memory.retry # NoRetry
      /\ Len(memory.results) <= Len(Asked) /\ now \in Nat /\ call = 0
      /\ calls \in Nat
  BY <1>1, PocAssumption DEF IInv, TypeOK, PlaceOK
<1>3. /\ memory.results \in Seq(Result) /\ Len(memory.results) \in Nat
      /\ memory.retry.stage \in Stages /\ at <= Len(Asked)
  BY <1>1, <1>2, AskedLen, LenProperties DEF Memory, Retry
<1>4. CASE at # memory.retry.at /\ NextResult(memory.results[at], FALSE)
           /\ UNCHANGED bounds
  <2>1. at \in DOMAIN memory.results /\ memory.results[at] \in Result
    BY <1>1, <1>2, <1>3, LenProperties, ElementOfSeq
  <2>2. Sound(at, memory.results[at], memory.retry.unread)
    BY <2>1 DEF IInv, ResultsOK, AllSound
  <2>3. /\ memory.results[at].install \in 0..calls /\ memory.results[at].test \in 0..calls
        /\ Earns(at, memory.results[at], memory.retry.unread)
    BY <1>2, <2>2 DEF Sound, Past
  <2>4. now' = now /\ kills' = kills /\ faults' \in 0..MaxFaults
    BY <1>4 DEF bounds, IInv, TypeOK
  <2> QED BY <1>1, <1>3, <1>4, <2>1, <2>3, <2>4, NextResultStep
<1>5. CASE TooLate(StageBudget)
  BY <1>1, <1>5, RaiseStep DEF TooLate
<1>6. CASE at = memory.retry.at /\ HasTime(StageBudget) /\ Compiled(memory.retry.stage)
  <2>1. now + Wait <= Deadline
    BY <1>2, <1>6, PocAssumption DEF HasTime, Wait
  <2> QED BY <1>1, <1>3, <1>6, <2>1, CompiledStep
<1> QED BY <1>4, <1>5, <1>6 DEF Recover

LEMMA ConcludeStep == IInv /\ Conclude => IInv'
<1> SUFFICES ASSUME IInv, Conclude PROVE IInv'
  OBVIOUS
<1> DEFINE c == containers[call]
<1>1. pc = "back" /\ call # 0
  BY DEF Conclude, IInv, TypeOK
<1>2. /\ at <= Len(Asked) /\ call \in 0..calls /\ c.stage \in Stages
      /\ mode = "recover" => at <= Len(memory.results) /\ at = memory.retry.at
      /\ c.client \in {"killed", "ended"} /\ c \in Container
      /\ c.client = "ended" => c.exit # None
  BY <1>1, InHandTyped DEF IInv, InHand, DockerOK, TypeOK
<1>3. CASE c.client = "killed" /\ Settled("timed_out", "poc_timeout", c.stage, call)
  <2>1. "poc_timeout" \in Codes
    BY DEF Codes
  <2> QED BY <1>1, <1>2, <1>3, <2>1, SettledStep
<1>4. CASE c.client # "killed" /\ c.exit # "zero"
           /\ Settled("failed", ExitCode(c.exit), c.stage, call)
  <2>1. ExitCode(c.exit) \in Codes
    BY <1>2, <1>4 DEF Codes, Container
  <2> QED BY <1>1, <1>2, <1>4, <2>1, SettledStep
<1>5. CASE /\ c.client # "killed" /\ c.exit = "zero" /\ mode = "execute"
           /\ c.stage = "install" /\ Launch("test") /\ installed' = call
  <2>1. Ended(call, at, "install")
    BY <1>1, <1>5, InHandTyped DEF Ended
  <2>2. now + Wait <= Deadline
    BY <1>1, <1>2, <1>5 DEF IInv, InTime
  <2>3. Ended(installed', at, "install") /\ installed' # 0
    BY <1>1, <1>5, <2>1
  <2>4. c.exit # None
    BY <1>5 DEF None
  <2> QED BY <1>1, <1>2, <1>5, <2>2, <2>3, <2>4, LaunchStep DEF Stages
<1>6. CASE Unavailable("test")
  BY <1>1, <1>2, <1>6, UnavailableStep DEF Stages
<1>7. CASE /\ c.client # "killed" /\ c.exit = "zero"
           /\ ~(mode = "execute" /\ c.stage = "install")
           /\ Settled("passed", None, c.stage, call)
  <2>1. None \in Codes
    BY DEF Codes, Ends, ExitCode
  <2> QED BY <1>1, <1>2, <1>7, <2>1, SettledStep DEF Stages
<1>8. CASE c.client = "killed" /\ Mistaken(c.stage)
  <2>1. CASE mode = "execute" /\ Raise
    BY <1>1, <2>1, RaiseStep
  <2>2. CASE mode # "execute" /\ Settled("failed", "tool_unavailable", c.stage, call)
    <3>1. "tool_unavailable" \in Codes
      BY DEF Codes, Ends, ExitCode
    <3> QED BY <1>1, <1>2, <2>2, <3>1, SettledStep
  <2> QED BY <1>8, <2>1, <2>2 DEF Mistaken
<1> QED BY <1>3, <1>4, <1>5, <1>6, <1>7, <1>8 DEF Conclude

(* The daemon and the client change one container and nothing else.        *)
LEMMA ContainerStep ==
  ASSUME IInv, UNCHANGED <<stageVars, kept, calls, abandoned, bounds>>,
         NEW k \in Calls, k <= calls, NEW c \in Container,
         containers' = [containers EXCEPT ![k] = c],
         c.candidate = containers[k].candidate, c.stage = containers[k].stage,
         containers[k].exit # None => c.exit = containers[k].exit,
         \/ c.client = containers[k].client
         \/ containers[k].client = "on" /\ c.client = "ended",
         c.client = "ended" => c.exit # None,
         c.exit # None => c.client # "on" /\ c.state # "running",
         c.state = "running" =>
           \/ containers[k].state = "running" /\ c.id = containers[k].id
           \/ containers[k].client = "on" /\ c.id
  PROVE  IInv'
<1>1. /\ containers \in [Calls -> Container] /\ call \in 0..calls
      /\ calls \in 0..MaxCalls /\ MaxCalls \in Nat
  BY PocAssumption DEF IInv, TypeOK
<1>2. /\ containers' \in [Calls -> Container] /\ containers'[k] = c
      /\ \A j \in Calls : j # k => containers'[j] = containers[j]
  BY <1>1
<1>3. TypeOK'
  BY <1>2 DEF IInv, TypeOK, stageVars, kept, bounds
<1>4. PlaceOK'
  BY DEF IInv, PlaceOK, stageVars, kept
<1>5. PastKept
  BY <1>1, <1>2 DEF PastKept, Past, Calls, stageVars
<1>6. ResultsOK'
  BY <1>5, KeptResults DEF IInv, stageVars, kept
<1>7. RetryFits'
  BY <1>5, RetryKept DEF IInv, stageVars, kept
<1>8. /\ call # 0 => call \in Calls
      /\ \A j \in Calls : /\ containers'[j].candidate = containers[j].candidate
                          /\ containers'[j].stage = containers[j].stage
                          /\ \/ containers'[j].client = containers[j].client
                             \/ /\ containers[j].client = "on"
                                /\ containers'[j].client = "ended"
  BY <1>1, <1>2 DEF Calls
<1>9. InHand'
  <2> SUFFICES ASSUME call # 0 PROVE InHand'
    BY DEF InHand, stageVars
  <2>1. installed \in Past /\ Past' = Past /\ InHand
    BY DEF IInv, InHand, Past, stageVars
  <2>2. Ended(installed, at, "install") => Ended(installed, at, "install")'
    BY <1>5, <2>1, EndedStays DEF Ended, stageVars
  <2> QED BY <1>8, <2>1, <2>2 DEF InHand, stageVars, kept
<1>10. DockerOK'
  <2>1. DockerOK /\ call' = call /\ pc' = pc /\ calls' = calls /\ abandoned' = abandoned
    BY DEF IInv, stageVars
  <2> SUFFICES ASSUME NEW j \in Calls
               PROVE  LET d == containers'[j] IN
                      /\ j > calls => d = NoContainer
                      /\ d.exit # None => d.client # "on" /\ d.state # "running"
                      /\ d.client = "ended" => d.exit # None
                      /\ d.client = "on" => (j = call /\ pc = "run") \/ j \in abandoned
                      /\ d.state = "running" =>
                           (j = call /\ pc \in {"run", "remove"} /\ d.id) \/ j \in abandoned
    BY <2>1 DEF DockerOK
  <2>2. CASE j = k
    <3>1. ~(j > calls)
      BY <1>1, <2>2 DEF Calls
    <3>2. /\ c.client = "on" => containers[k].client = "on"
          /\ containers[k].client = "on" => (k = call /\ pc = "run") \/ k \in abandoned
          /\ containers[k].state = "running" =>
               (k = call /\ pc \in {"run", "remove"} /\ containers[k].id) \/ k \in abandoned
      BY <2>1 DEF DockerOK
    <3> QED BY <1>2, <2>2, <3>1, <3>2
  <2>3. CASE j # k
    BY <1>2, <2>1, <2>3 DEF DockerOK
  <2> QED BY <2>2, <2>3
<1>11. InTime'
  <2>1. InTime /\ UNCHANGED <<pc, mode, call, since, now>>
    BY DEF IInv, stageVars, bounds
  <2>2. pc \in {"run", "back"} => call # 0
    BY DEF IInv, TypeOK
  <2>3. pc = "back" => containers'[call].client = containers[call].client
    BY <1>8, <2>2 DEF IInv, InHand
  <2>4. pc \in {"run", "back"} => containers'[call].stage = containers[call].stage
    BY <1>8, <2>2
  <2> QED BY <2>1, <2>3, <2>4 DEF InTime
<1> QED BY <1>3, <1>4, <1>6, <1>7, <1>9, <1>10, <1>11 DEF IInv

LEMMA DockerStep == IInv /\ Docker => IInv'
<1> SUFFICES ASSUME IInv, Docker PROVE IInv'
  OBVIOUS
<1>1. UNCHANGED <<stageVars, kept, calls, abandoned, bounds>>
  BY DEF Docker
<1>2. PICK k \in Calls : \/ Create(k) \/ WriteId(k) \/ Start(k) \/ Refuse(k)
                         \/ \E e \in Exits : Exit(k, e)
  BY DEF Docker
<1>3. /\ containers \in [Calls -> Container] /\ containers[k] \in Container
      /\ k \in Nat /\ calls \in Nat
  <2>1. containers \in [Calls -> Container] /\ calls \in 0..MaxCalls
    BY DEF IInv, TypeOK
  <2> QED BY <2>1 DEF Calls
<1>4. /\ k > calls => containers[k] = NoContainer
      /\ containers[k].exit # None =>
           containers[k].client # "on" /\ containers[k].state # "running"
      /\ containers[k].client = "ended" => containers[k].exit # None
  BY DEF IInv, DockerOK
<1>5. k <= calls
  <2>1. containers[k].client = "on" \/ containers[k].state = "running"
    BY <1>2 DEF Create, WriteId, Start, Refuse, Exit, Client
  <2> QED BY <1>3, <1>4, <2>1 DEF NoContainer, None
<1>6. CASE Create(k)
  <2> DEFINE c == [containers[k] EXCEPT !.state = "created"]
  <2>1. c \in Container /\ containers' = [containers EXCEPT ![k] = c]
    BY <1>3, <1>6 DEF Create, Container
  <2> QED BY <1>1, <1>3, <1>4, <1>5, <2>1, ContainerStep DEF Container
<1>7. CASE WriteId(k)
  <2> DEFINE c == [containers[k] EXCEPT !.id = TRUE]
  <2>1. /\ c \in Container /\ containers' = [containers EXCEPT ![k] = c]
        /\ containers[k].state = "created"
    BY <1>3, <1>7 DEF WriteId, Container
  <2> QED BY <1>1, <1>3, <1>4, <1>5, <2>1, ContainerStep DEF Container
<1>8. CASE Start(k)
  <2> DEFINE c == [containers[k] EXCEPT !.state = "running"]
  <2>1. /\ c \in Container /\ containers' = [containers EXCEPT ![k] = c]
        /\ containers[k].client = "on" /\ containers[k].id
    BY <1>3, <1>8 DEF Start, Client, Container
  <2> QED BY <1>1, <1>3, <1>4, <1>5, <2>1, ContainerStep DEF Container
<1>9. CASE Refuse(k)
  <2> DEFINE c == [containers[k] EXCEPT !.client = "ended", !.exit = "daemon"]
  <2>1. /\ c \in Container /\ containers' = [containers EXCEPT ![k] = c]
        /\ containers[k].client = "on" /\ containers[k].state = None
    BY <1>3, <1>9 DEF Refuse, Client, Container, Ends
  <2> QED BY <1>1, <1>3, <1>4, <1>5, <2>1, ContainerStep DEF Container, None
<1>10. CASE \E e \in Exits : Exit(k, e)
  <2>1. PICK e \in Exits : Exit(k, e)
    BY <1>10
  <2> DEFINE c == [containers[k] EXCEPT !.state = "gone", !.exit = e,
                                        !.client = IF @ = "on" THEN "ended" ELSE @]
  <2>2. e \in Ends /\ e # None
    BY PocAssumption DEF Ends, None
  <2>3. /\ c \in Container /\ c.candidate = containers[k].candidate
        /\ c.stage = containers[k].stage /\ c.exit = e /\ c.state = "gone"
        /\ c.client = IF containers[k].client = "on" THEN "ended" ELSE containers[k].client
    BY <1>3, <2>2 DEF Container
  <2>4. /\ containers' = [containers EXCEPT ![k] = c] /\ containers[k].state = "running"
    BY <1>3, <2>1 DEF Exit
  <2> HIDE DEF c
  <2> QED BY <1>1, <1>3, <1>4, <1>5, <2>2, <2>3, <2>4, ContainerStep
<1> QED BY <1>2, <1>6, <1>7, <1>8, <1>9, <1>10
-----------------------------------------------------------------------------
(* The invariant and what follows from it.                                 *)

LEMMA InitIInv == Init => IInv
<1> SUFFICES ASSUME Init PROVE IInv
  OBVIOUS
<1> USE DEF Init
<1>1. TypeOK
  <2>1. <<>> \in Seq(Result) /\ [results |-> <<>>, retry |-> NoRetry] \in Memory
    BY EmptySeq DEF Memory
  <2>2. NoContainer \in Container
    BY DEF NoContainer, Container
  <2>3. Len(Asked) \in Nat
    BY AskedLen
  <2> QED BY <2>1, <2>2, <2>3, PocAssumption DEF TypeOK
<1>2. PlaceOK
  BY AskedLen, EmptySeq, PocAssumption DEF PlaceOK, NoRetry
<1>3. ResultsOK /\ RetryFits
  BY EmptySeq DEF ResultsOK, AllSound, RetryFits, Fits, Visiting
<1>4. InHand /\ DockerOK /\ InTime
  BY DEF InHand, DockerOK, InTime, NoContainer, None
<1> QED BY <1>1, <1>2, <1>3, <1>4 DEF IInv

LEMMA StutterStep == IInv /\ UNCHANGED vars => IInv'
<1> SUFFICES ASSUME IInv, UNCHANGED vars PROVE IInv'
  OBVIOUS
<1>1. TypeOK' /\ PlaceOK'
  BY DEF vars, stageVars, kept, docker, bounds, IInv, TypeOK, PlaceOK
<1>2. PastKept
  BY SamePast DEF vars, stageVars, docker, IInv
<1>3. ResultsOK'
  BY <1>2, KeptResults DEF vars, stageVars, kept, IInv
<1>4. RetryFits'
  BY <1>2, RetryKept DEF vars, stageVars, kept, IInv
<1>5. InHand' /\ DockerOK' /\ InTime'
  BY DEF vars, stageVars, kept, docker, bounds, IInv, InHand, Ended, Past, DockerOK, InTime
<1> QED BY <1>1, <1>3, <1>4, <1>5 DEF IInv

LEMMA IInvPreserved == IInv /\ [Next]_vars => IInv'
BY EnterStep, ExecuteStep, RecoverStep, LeaveStep, CommitStep, ReturnStep,
   TimeOutStep, RemoveStep, ConcludeStep, DockerStep, TickStep, KillStep,
   StutterStep DEF Next

(* The containers, the memory and the stage agree in every reachable state.*)
THEOREM Invariance == Spec => []IInv
BY InitIInv, IInvPreserved, PTL DEF Spec

(* The stage, its memory and the containers are always well typed.         *)
THEOREM TypeCorrect == Spec => []TypeOK
BY Invariance, PTL DEF IInv

(* A PoC passes only on an install and a later test of its own candidate   *)
(* that both exited zero, whatever was lost, repeated and merged           *)
(* (_execute_poc, _recover_poc, rerun_stage).                              *)
THEOREM PassIsEarned == Spec => []PassedIsEarned
<1>1. ASSUME IInv PROVE PassedIsEarned
  <2> SUFFICES ASSUME NEW i \in DOMAIN memory.results,
                      memory.results[i].status = "passed"
               PROVE  Earned(i, memory.results[i])
    BY DEF PassedIsEarned, Earned
  <2> DEFINE r == memory.results[i]
  <2>1. Sound(i, r, memory.retry.unread)
    BY <1>1 DEF IInv, ResultsOK, AllSound
  <2>2. r.install \in Nat /\ r.test \in Nat
    <3>1. r.install \in Past /\ r.test \in Past
      BY <2>1 DEF Sound
    <3>2. calls \in Nat /\ MaxCalls \in Nat
      BY <1>1, PocAssumption DEF IInv, TypeOK
    <3> QED BY <3>1, <3>2 DEF Past
  <2> QED BY <2>1, <2>2 DEF Sound, Earns, Ended, Earned
<1> QED BY <1>1, Invariance, PTL

(* No container runs that nobody waits for or removes, unless its removal  *)
(* failed or the process that waited was killed (DockerCliRunner.run).     *)
THEOREM ContainersAttended == Spec => []RunningIsAttended
<1>1. IInv => RunningIsAttended
  BY DEF IInv, DockerOK, RunningIsAttended
<1> QED BY <1>1, Invariance, PTL

(* A container is waited for only before the run's deadline, since what    *)
(* _require_remaining_seconds asks for covers every wait that follows.     *)
THEOREM WaitsAreInTime == Spec => []WaitsWithinDeadline
<1>1. IInv => WaitsWithinDeadline
  <2> SUFFICES ASSUME IInv, pc \in {"run", "remove"} PROVE now <= Deadline
    BY DEF WaitsWithinDeadline
  <2>1. /\ now \in Nat /\ since \in Nat /\ Limit \in Nat /\ RemoveLimit \in Nat
        /\ Deadline \in Nat
    BY PocAssumption DEF IInv, TypeOK
  <2> QED BY <2>1 DEF IInv, InTime, Wait
<1> QED BY <1>1, Invariance, PTL
=============================================================================

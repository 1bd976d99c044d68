--------------------------- MODULE RetrievalProofs ---------------------------
(***************************************************************************)
(* Proofs about the machines by which pages and files are reached.         *)
(***************************************************************************)
EXTENDS Acquirer, Crawl, RenderSession, Downloads, Query, ListLemmas

-----------------------------------------------------------------------------
(***************************************************************************)
(* Proofs about Acquirer: however many calls run, retry, follow redirects  *)
(* and give up, the paced GETs to a host keep their gap, and the GETs of   *)
(* one call are bounded.                                                   *)
(***************************************************************************)

SlotsInv == SlotInv /\ SlotsSpaced /\ SentInv

\* A step of one call that does not begin to wait, or send in its slot.
LEMMA SlotsFrame ==
  ASSUME AcquireTypeOK, SlotsInv, NEW c \in Callers, NEW where \in Places,
         where \notin {"pacing", "send"}, at' = [at EXCEPT ![c] = where],
         UNCHANGED <<clock, lastSeen, lastSent, slot>>,
         \A d \in Callers \ {c} : target'[d] = target[d] /\ due'[d] = due[d]
  PROVE  SlotsInv'
<1>1. \A d \in Callers : Waiting(d)' => d # c /\ Waiting(d) /\ at'[d] = at[d]
  BY DEF AcquireTypeOK, Waiting
<1>2. SlotInv'
  BY <1>1 DEF SlotsInv, SlotInv
<1>3. SlotsSpaced'
  BY <1>1 DEF SlotsInv, SlotsSpaced
<1>4. SentInv'
  BY DEF SlotsInv, SentInv
<1> QED
  BY <1>2, <1>3, <1>4 DEF SlotsInv

\* The attempt of one call changes within what it is allowed.
LEMMA EffortFrame ==
  ASSUME AcquireTypeOK, EffortInv, NEW c \in Callers,
         \A d \in Callers \ {c} :
            /\ at'[d] = at[d] /\ try'[d] = try[d] /\ hops'[d] = hops[d]
            /\ gets'[d] = gets[d],
         gets'[c] <= Allowed(c)'
  PROVE  EffortInv'
<1>1. \A d \in Callers \ {c} : Allowed(d)' = Allowed(d)
  BY DEF Allowed, AttemptsUpTo
<1> QED
  BY <1>1 DEF EffortInv

\* What a call in an attempt with a GET sent may still do.
LEMMA EffortOf ==
  ASSUME AcquireTypeOK, NEW c \in Callers
  PROVE  /\ try[c] = "first" => AttemptsUpTo(c) = 1
         /\ try[c] = "blocked" => AttemptsUpTo(c) = 2
         /\ try[c] = "timeout" => AttemptsUpTo(c) = 3
         /\ try[c] = "redirect" => AttemptsUpTo(c) = 3 + hops[c]
         /\ try[c] \in Tries /\ hops[c] \in Nat /\ hops[c] <= MaxHops
         /\ AttemptsUpTo(c) \in Nat /\ Allowed(c) \in Int
         /\ gets[c] \in Nat
<1>1. try[c] \in Tries /\ hops[c] \in 0..MaxHops /\ MaxHops \in Nat /\ gets[c] \in Nat
  BY AcquirerConstants DEF AcquireTypeOK
<1>2. /\ try[c] = "first" => AttemptsUpTo(c) = 1
      /\ try[c] = "blocked" => AttemptsUpTo(c) = 2
      /\ try[c] = "timeout" => AttemptsUpTo(c) = 3
      /\ try[c] = "redirect" => AttemptsUpTo(c) = 3 + hops[c]
  BY DEF AttemptsUpTo
<1> QED
  BY <1>1, <1>2 DEF Tries, Allowed

LEMMA FailSteps ==
  ASSUME AcquireInd, NEW c \in Callers, at[c] \in {"req", "http"},
         NEW error \in {"blocked", "protocol", "other", "deadline"},
         NEW jitter \in 0..MaxJitter, Fail(c, error, jitter)
  PROVE  AcquireInd'
<1> DEFINE blocked == try[c] = "first" /\ error = "blocked"
                      /\ input[c].retry # "none"
           timeout == try[c] \in {"first", "blocked"} /\ error = "deadline"
                      /\ ~Cancelled(c)
<1>0. /\ clock \in Nat /\ Backoff \in Nat /\ jitter \in Nat
      /\ input[c].retry \in {"standard", "browser_like", "hardened", "none"}
      /\ input[c].profile \in {"standard", "browser_like", "hardened"}
  BY AcquirerConstants DEF AcquireInd, AcquireTypeOK
<1>1. CASE blocked /\ SleepBefore(c, "blocked", input[c].retry, jitter)
  <2>1. AcquireTypeOK'
    BY <1>0, <1>1 DEF AcquireInd, AcquireTypeOK, SleepBefore, Stay, Places, Waits, Tries
  <2>2. SlotsInv'
    BY <1>1, SlotsFrame DEF AcquireInd, SlotsInv, AcquireTypeOK, SleepBefore, Stay, Places, Waits
  <2>3. EffortInv'
    <3>1. AttemptsUpTo(c) = 1 /\ AttemptsUpTo(c)' = 2
      BY <2>1, <1>1, EffortOf DEF AcquireInd, AcquireTypeOK, AttemptsUpTo, SleepBefore
    <3>2. gets'[c] <= Allowed(c)'
      BY <3>1, <1>1, EffortOf DEF AcquireInd, AcquireTypeOK, EffortInv, Allowed, SleepBefore, Stay
    <3> QED
      BY <3>2, <1>1, EffortFrame DEF AcquireInd, AcquireTypeOK, SleepBefore, Stay
  <2> QED
    BY <2>1, <2>2, <2>3 DEF AcquireInd, SlotsInv
<1>2. CASE timeout /\ SleepBefore(c, "timeout", input[c].profile, jitter)
  <2>1. AcquireTypeOK'
    BY <1>0, <1>2 DEF AcquireInd, AcquireTypeOK, SleepBefore, Stay, Places, Waits, Tries
  <2>2. SlotsInv'
    BY <1>2, SlotsFrame DEF AcquireInd, SlotsInv, AcquireTypeOK, SleepBefore, Stay, Places, Waits
  <2>3. EffortInv'
    <3>1. AttemptsUpTo(c) <= 2 /\ AttemptsUpTo(c)' = 3
      BY <2>1, <1>2, EffortOf DEF AcquireInd, AcquireTypeOK, AttemptsUpTo, SleepBefore
    <3>2. gets'[c] <= Allowed(c)'
      BY <3>1, <1>2, EffortOf DEF AcquireInd, AcquireTypeOK, EffortInv, Allowed, SleepBefore, Stay
    <3> QED
      BY <3>2, <1>2, EffortFrame DEF AcquireInd, AcquireTypeOK, SleepBefore, Stay
  <2> QED
    BY <2>1, <2>2, <2>3 DEF AcquireInd, SlotsInv
<1>3. CASE End(c, "error")
  <2>1. AcquireTypeOK'
    BY <1>3 DEF AcquireInd, AcquireTypeOK, End, Stay, Places
  <2>2. SlotsInv'
    BY <1>3, SlotsFrame DEF AcquireInd, SlotsInv, AcquireTypeOK, End, Stay, Places
  <2>3. EffortInv'
    <3>1. AttemptsUpTo(c)' = AttemptsUpTo(c) /\ gets[c] <= Allowed(c)
      BY <1>3 DEF AcquireInd, EffortInv, AttemptsUpTo, End, Stay
    <3>2. gets'[c] <= Allowed(c)'
      BY <3>1, <1>3, EffortOf DEF AcquireInd, AcquireTypeOK, Allowed, End, Stay
    <3> QED
      BY <3>2, <1>3, EffortFrame DEF AcquireInd, AcquireTypeOK, End, Stay
  <2> QED
    BY <2>1, <2>2, <2>3 DEF AcquireInd, SlotsInv
<1> QED
  BY <1>1, <1>2, <1>3 DEF Fail

\* The call is over, or goes to reserve a slot.
LEMMA EndSteps ==
  ASSUME AcquireInd, NEW c \in Callers,
         NEW how \in {"page", "error"}, at[c] \notin {"idle", "reserve"},
         End(c, how)
  PROVE  AcquireInd'
<1>1. AcquireTypeOK'
  BY DEF AcquireInd, AcquireTypeOK, End, Stay, Places
<1>2. SlotsInv'
  BY SlotsFrame DEF AcquireInd, SlotsInv, AcquireTypeOK, End, Stay, Places
<1>3. EffortInv'
  <2>1. AttemptsUpTo(c)' = AttemptsUpTo(c) /\ gets[c] <= Allowed(c)
    BY DEF AcquireInd, EffortInv, AttemptsUpTo, End, Stay
  <2>2. gets'[c] <= Allowed(c)'
    BY <2>1, EffortOf DEF AcquireInd, AcquireTypeOK, Allowed, End, Stay
  <2> QED
    BY <2>2, EffortFrame DEF AcquireInd, AcquireTypeOK, End, Stay
<1> QED
  BY <1>1, <1>2, <1>3 DEF AcquireInd, SlotsInv

LEMMA ReserveStep ==
  ASSUME AcquireInd, NEW c \in Callers, NEW jitter \in 0..MaxJitter,
         Reserve(c, jitter)
  PROVE  AcquireInd'
<1> DEFINE h == target[c].host
           given == SlotFor(h, jitter)
<1>1. /\ h \in Hosts /\ clock \in Nat /\ MinGap \in Nat \ {0} /\ jitter \in Nat
      /\ lastSeen[h] \in Nat \cup {-1} /\ lastSent[h] \in Nat \cup {-1}
  BY AcquirerConstants DEF AcquireInd, AcquireTypeOK, Targets, Never
<1>2. /\ given \in Nat /\ given >= clock
      /\ lastSeen[h] # Never => given >= lastSeen[h] + MinGap
  BY <1>1 DEF SlotFor, Never
<1>3. /\ at[c] = "reserve" /\ given >= lastSeen[h]
      /\ lastSeen' = [lastSeen EXCEPT ![h] = given]
      /\ slot' = [slot EXCEPT ![c] = given]
      /\ due' = [due EXCEPT ![c] = given]
      /\ at' = [at EXCEPT ![c] = IF given > clock THEN "pacing" ELSE "send"]
      /\ UNCHANGED <<clock, lastSent, try, target, profile, hops, gets, input>>
  BY <1>1, <1>2 DEF Reserve, Never
<1> HIDE DEF h, given
<1>4. AcquireTypeOK'
  <2>1. /\ lastSeen' \in [Hosts -> Nat \cup {Never}]
        /\ slot' \in [Callers -> Nat \cup {Never}] /\ due' \in [Callers -> Nat]
    BY <1>1, <1>2, <1>3 DEF AcquireInd, AcquireTypeOK
  <2>2. at' \in [Callers -> Places]
    BY <1>3 DEF AcquireInd, AcquireTypeOK, Places, Waits
  <2> QED
    BY <1>3, <2>1, <2>2 DEF AcquireInd, AcquireTypeOK
<1>5. \A d \in Callers : Waiting(d)' /\ d # c =>
        /\ Waiting(d) /\ at'[d] = at[d] /\ slot'[d] = slot[d] /\ due'[d] = due[d]
  BY <1>3 DEF AcquireInd, AcquireTypeOK, Waiting
<1>6. \A d \in Callers : Waiting(d) /\ target[d].host = h =>
        /\ slot[d] <= lastSeen[h] /\ slot[d] \in Nat /\ slot[d] + MinGap <= given
  <2> SUFFICES ASSUME NEW d \in Callers, Waiting(d), target[d].host = h
               PROVE  /\ slot[d] <= lastSeen[h] /\ slot[d] \in Nat
                      /\ slot[d] + MinGap <= given
    OBVIOUS
  <2>1. clock <= slot[d] /\ slot[d] <= lastSeen[h] /\ slot[d] \in Nat \cup {-1}
    BY DEF AcquireInd, SlotInv, AcquireTypeOK, Never
  <2> QED
    BY <2>1, <1>1, <1>2 DEF Never
<1>7. SlotInv'
  <2> SUFFICES ASSUME NEW d \in Callers, Waiting(d)'
               PROVE  LET k == target[d].host
                      IN /\ clock <= slot'[d] /\ slot'[d] <= lastSeen'[k]
                         /\ at'[d] = "pacing" => due'[d] = slot'[d]
                         /\ at'[d] = "send" => slot'[d] = clock
                         /\ lastSent[k] # Never => slot'[d] >= lastSent[k] + MinGap
    BY <1>3 DEF SlotInv
  <2>0. target[d].host \in Hosts
    BY DEF AcquireInd, AcquireTypeOK, Targets
  <2>1. CASE d = c
    <3>1. slot'[c] = given /\ due'[c] = given /\ lastSeen'[h] = given
      BY <1>1, <1>3 DEF AcquireInd, AcquireTypeOK
    <3>2. at'[c] = IF given > clock THEN "pacing" ELSE "send"
      BY <1>3 DEF AcquireInd, AcquireTypeOK
    <3>3. lastSent[h] # Never => lastSent[h] <= lastSeen[h]
      BY <1>1 DEF AcquireInd, SentInv
    <3>4. lastSent[h] # Never => given >= lastSent[h] + MinGap
      BY <3>3, <1>1, <1>2 DEF Never
    <3> QED
      BY <2>1, <3>1, <3>2, <3>4, <1>1, <1>2 DEF h
  <2>2. CASE d # c
    <3>1. Waiting(d) /\ at'[d] = at[d] /\ slot'[d] = slot[d] /\ due'[d] = due[d]
      BY <1>5, <2>2
    <3>2. slot'[d] <= lastSeen'[target[d].host]
      <4>1. CASE target[d].host = h
        BY <4>1, <3>1, <1>1, <1>2, <1>3, <1>6 DEF AcquireInd, AcquireTypeOK
      <4>2. CASE target[d].host # h
        BY <4>2, <2>0, <3>1, <1>3 DEF AcquireInd, AcquireTypeOK, SlotInv
      <4> QED
        BY <4>1, <4>2
    <3> QED
      BY <3>1, <3>2 DEF AcquireInd, SlotInv
  <2> QED
    BY <2>1, <2>2
<1>8. SlotsSpaced'
  <2> SUFFICES ASSUME NEW d \in Callers, NEW e \in Callers, d # e,
                      Waiting(d)', Waiting(e)', target[d].host = target[e].host
               PROVE  slot'[d] >= slot'[e] + MinGap \/ slot'[e] >= slot'[d] + MinGap
    BY <1>3 DEF SlotsSpaced
  <2>1. slot'[c] = given
    BY <1>3 DEF AcquireInd, AcquireTypeOK
  <2>2. CASE d # c /\ e # c
    BY <2>2, <1>5 DEF AcquireInd, SlotsSpaced
  <2>3. CASE d = c
    <3>1. Waiting(e) /\ slot'[e] = slot[e] /\ target[e].host = h
      BY <2>3, <1>5 DEF h
    <3> QED
      BY <2>1, <2>3, <3>1, <1>6
  <2>4. CASE e = c
    <3>1. Waiting(d) /\ slot'[d] = slot[d] /\ target[d].host = h
      BY <2>4, <1>5 DEF h
    <3> QED
      BY <2>1, <2>4, <3>1, <1>6
  <2> QED
    BY <2>2, <2>3, <2>4
<1>9. SentInv'
  <2> SUFFICES ASSUME NEW k \in Hosts, lastSent[k] # Never
               PROVE  lastSent[k] <= lastSeen'[k]
    BY <1>3 DEF SentInv
  <2>1. lastSent[k] <= lastSeen[k] /\ lastSeen[k] \in Nat \cup {-1}
        /\ lastSent[k] \in Nat \cup {-1}
    BY DEF AcquireInd, SentInv, AcquireTypeOK, Never
  <2>2. lastSeen'[k] = IF k = h THEN given ELSE lastSeen[k]
    BY <1>3 DEF AcquireInd, AcquireTypeOK
  <2> QED
    BY <2>1, <2>2, <1>2, <1>3, <1>1
<1>10. EffortInv'
  <2>1. AttemptsUpTo(c)' = AttemptsUpTo(c) /\ gets[c] <= Allowed(c)
    BY <1>3 DEF AcquireInd, EffortInv, AttemptsUpTo
  <2>2. Allowed(c)' = Allowed(c)
    BY <2>1, <1>3 DEF AcquireInd, AcquireTypeOK, Allowed
  <2> QED
    BY <2>1, <2>2, <1>3, EffortFrame DEF AcquireInd, AcquireTypeOK
<1> QED
  BY <1>4, <1>7, <1>8, <1>9, <1>10 DEF AcquireInd

\* The slot in which a GET is sent is now, so the gap to the GET before and
\* to every slot that is still waited for is kept.
LEMMA SendGap ==
  ASSUME AcquireInd, NEW c \in Callers, Send(c)
  PROVE  LET h == target[c].host
         IN /\ h \in Hosts /\ clock <= lastSeen[h]
            /\ lastSent[h] # Never => clock >= lastSent[h] + MinGap
            /\ \A d \in Callers : d # c /\ Waiting(d) /\ target[d].host = h
                 => slot[d] >= clock + MinGap
<1>1. /\ Waiting(c) /\ target[c].host \in Hosts /\ clock \in Nat
      /\ slot[c] \in Nat \cup {-1} /\ MinGap \in Nat \ {0}
  BY AcquirerConstants DEF Send, Waiting, AcquireInd, AcquireTypeOK, Targets, Never
<1>2. slot[c] = clock
  BY <1>1 DEF AcquireInd, SlotInv, Send
<1>3. \A d \in Callers : d # c /\ Waiting(d) /\ target[d].host = target[c].host
        => slot[d] >= clock + MinGap
  <2> SUFFICES ASSUME NEW d \in Callers, d # c, Waiting(d),
                      target[d].host = target[c].host
               PROVE  slot[d] >= clock + MinGap
    OBVIOUS
  <2>1. clock <= slot[d] /\ slot[d] \in Nat \cup {-1}
    BY DEF AcquireInd, SlotInv, AcquireTypeOK, Never
  <2>2. slot[d] >= slot[c] + MinGap \/ slot[c] >= slot[d] + MinGap
    BY <1>1 DEF AcquireInd, SlotsSpaced
  <2> QED
    BY <1>1, <1>2, <2>1, <2>2
<1>4. /\ slot[c] <= lastSeen[target[c].host]
      /\ lastSent[target[c].host] # Never
         => slot[c] >= lastSent[target[c].host] + MinGap
  BY <1>1 DEF AcquireInd, SlotInv
<1> QED
  BY <1>1, <1>2, <1>3, <1>4

LEMMA SendStep ==
  ASSUME AcquireInd, NEW c \in Callers, Send(c)
  PROVE  AcquireInd'
<1> DEFINE h == target[c].host
           client == IF Impersonates(c) THEN "req" ELSE "http"
<1>1. /\ h \in Hosts /\ clock <= lastSeen[h] /\ clock \in Nat
      /\ lastSent[h] # Never => clock >= lastSent[h] + MinGap
      /\ \A d \in Callers : d # c /\ Waiting(d) /\ target[d].host = h
           => slot[d] >= clock + MinGap
  BY SendGap DEF AcquireInd, AcquireTypeOK
<1>2. /\ Waiting(c) /\ at' = [at EXCEPT ![c] = client]
      /\ lastSent' = [lastSent EXCEPT ![h] = clock]
      /\ gets' = [gets EXCEPT ![c] = @ + 1]
      /\ \A d \in Callers : d # c => due'[d] = due[d]
      /\ UNCHANGED <<clock, lastSeen, try, target, profile, slot, hops, input>>
  BY DEF Send, Get, Waiting, AcquireInd, AcquireTypeOK
<1>3. client \in {"req", "http"}
  OBVIOUS
<1> HIDE DEF h, client
<1>4. due' \in [Callers -> Nat]
  <2>1. clock + (IF try[c] = "timeout" THEN LongTimeout ELSE Timeout) \in Nat
    BY <1>1, AcquirerConstants
  <2> QED
    BY <2>1 DEF Send, Get, AcquireInd, AcquireTypeOK
<1>5. AcquireTypeOK'
  <2>1. lastSent' \in [Hosts -> Nat \cup {Never}]
    BY <1>1, <1>2 DEF AcquireInd, AcquireTypeOK
  <2>2. at' \in [Callers -> Places] /\ gets' \in [Callers -> Nat]
    BY <1>2, <1>3 DEF AcquireInd, AcquireTypeOK, Places, Waits
  <2> QED
    BY <1>2, <1>4, <2>1, <2>2 DEF AcquireInd, AcquireTypeOK
<1>6. \A d \in Callers : Waiting(d)' =>
        /\ d # c /\ Waiting(d) /\ at'[d] = at[d] /\ due'[d] = due[d]
  BY <1>2, <1>3 DEF Waiting, AcquireInd, AcquireTypeOK
<1>7. SlotInv'
  <2> SUFFICES ASSUME NEW d \in Callers, Waiting(d)'
               PROVE  LET k == target[d].host
                      IN /\ clock <= slot[d] /\ slot[d] <= lastSeen[k]
                         /\ at'[d] = "pacing" => due'[d] = slot[d]
                         /\ at'[d] = "send" => slot[d] = clock
                         /\ lastSent'[k] # Never => slot[d] >= lastSent'[k] + MinGap
    BY <1>2 DEF SlotInv
  <2>1. /\ d # c /\ Waiting(d) /\ at'[d] = at[d] /\ due'[d] = due[d]
        /\ target[d].host \in Hosts
    BY <1>6 DEF AcquireInd, AcquireTypeOK, Targets
  <2>2. lastSent'[target[d].host] = IF target[d].host = h THEN clock
                                    ELSE lastSent[target[d].host]
    BY <2>1, <1>2 DEF AcquireInd, AcquireTypeOK
  <2> QED
    BY <2>1, <2>2, <1>1 DEF AcquireInd, SlotInv
<1>8. SlotsSpaced'
  BY <1>2, <1>6 DEF AcquireInd, SlotsSpaced
<1>9. SentInv'
  BY <1>1, <1>2 DEF AcquireInd, SentInv, AcquireTypeOK
<1>10. EffortInv'
  <2>1. AttemptsUpTo(c)' = AttemptsUpTo(c) /\ gets[c] <= Allowed(c)
    BY <1>2 DEF AcquireInd, EffortInv, AttemptsUpTo
  <2>2. gets'[c] = gets[c] + 1 /\ at'[c] \in {"req", "http"}
    BY <1>2, <1>3 DEF AcquireInd, AcquireTypeOK
  <2>3. gets'[c] <= Allowed(c)'
    BY <2>1, <2>2, <1>2, EffortOf DEF AcquireInd, Allowed, Waiting
  <2> QED
    BY <2>3, <1>2, EffortFrame DEF AcquireInd, AcquireTypeOK
<1> QED
  BY <1>5, <1>7, <1>8, <1>9, <1>10 DEF AcquireInd

\* The steps of a call that only move it, and the clock.
LEMMA MoveSteps ==
  ASSUME AcquireInd, NEW c \in Callers, Acquire(c) \/ BackoffEnds(c)
  PROVE  AcquireInd'
<1>1. /\ at[c] \in {"idle", "backoff"} /\ at' = [at EXCEPT ![c] = "reserve"]
      /\ UNCHANGED <<clock, lastSeen, lastSent, try, target, profile, slot,
                     due, hops, gets, input>>
  BY DEF Acquire, BackoffEnds, Stay
<1>2. AcquireTypeOK'
  BY <1>1 DEF AcquireInd, AcquireTypeOK, Places
<1>3. SlotsInv'
  BY <1>1, SlotsFrame DEF AcquireInd, SlotsInv, AcquireTypeOK, Places
<1>4. EffortInv'
  <2>1. Allowed(c)' = Allowed(c)
    BY <1>1 DEF AcquireInd, AcquireTypeOK, Allowed, AttemptsUpTo
  <2>2. gets'[c] <= Allowed(c)'
    BY <2>1, <1>1 DEF AcquireInd, EffortInv
  <2> QED
    BY <2>2, <1>1, EffortFrame DEF AcquireInd, AcquireTypeOK
<1> QED
  BY <1>2, <1>3, <1>4 DEF AcquireInd, SlotsInv

LEMMA FallBackStep ==
  ASSUME AcquireInd, NEW c \in Callers, NEW error \in {"blocked", "protocol"},
         FallBack(c, error)
  PROVE  AcquireInd'
<1>1. /\ at[c] = "req" /\ at' = [at EXCEPT ![c] = "http"]
      /\ gets' = [gets EXCEPT ![c] = @ + 1]
      /\ \A d \in Callers : d # c => due'[d] = due[d]
      /\ UNCHANGED <<clock, lastSeen, lastSent, try, target, profile, slot,
                     hops, input>>
  BY DEF FallBack, Get, AcquireInd, AcquireTypeOK
<1>2. due' \in [Callers -> Nat]
  <2>1. clock + (IF try[c] = "timeout" THEN LongTimeout ELSE Timeout) \in Nat
    BY AcquirerConstants DEF AcquireInd, AcquireTypeOK
  <2> QED
    BY <2>1 DEF FallBack, Get, AcquireInd, AcquireTypeOK
<1>3. AcquireTypeOK'
  <2>1. at' \in [Callers -> Places] /\ gets' \in [Callers -> Nat]
    BY <1>1 DEF AcquireInd, AcquireTypeOK, Places, Waits
  <2> QED
    BY <1>1, <1>2, <2>1 DEF AcquireInd, AcquireTypeOK
<1>4. SlotsInv'
  BY <1>1, SlotsFrame DEF AcquireInd, SlotsInv, AcquireTypeOK, Places, Waits
<1>5. EffortInv'
  <2>1. AttemptsUpTo(c)' = AttemptsUpTo(c) /\ gets[c] <= Allowed(c)
    BY <1>1 DEF AcquireInd, EffortInv, AttemptsUpTo
  <2>2. gets'[c] = gets[c] + 1 /\ at'[c] = "http"
    BY <1>1 DEF AcquireInd, AcquireTypeOK
  <2>3. gets'[c] <= Allowed(c)'
    BY <2>1, <2>2, <1>1, EffortOf DEF AcquireInd, Allowed
  <2> QED
    BY <2>3, <1>1, EffortFrame DEF AcquireInd, AcquireTypeOK
<1> QED
  BY <1>3, <1>4, <1>5 DEF AcquireInd, SlotsInv

LEMMA RedirectStep ==
  ASSUME AcquireInd, NEW c \in Callers, NEW to \in Links, GetRedirect(c, to)
  PROVE  AcquireInd'
<1>1. /\ at[c] \in {"req", "http"} /\ hops[c] < MaxHops
      /\ hops' = [hops EXCEPT ![c] = @ + 1]
      /\ target' = [target EXCEPT ![c] = to]
      /\ try' = [try EXCEPT ![c] = "redirect"]
      /\ at' = [at EXCEPT ![c] = "reserve"]
      /\ UNCHANGED <<clock, lastSeen, lastSent, profile, slot, due, gets, input>>
  BY DEF GetRedirect
<1>2. AcquireTypeOK'
  <2>1. hops' \in [Callers -> 0..MaxHops]
    BY <1>1, AcquirerConstants DEF AcquireInd, AcquireTypeOK
  <2>2. target' \in [Callers -> Targets]
    BY <1>1, AcquirerConstants DEF AcquireInd, AcquireTypeOK, Targets
  <2> QED
    BY <1>1, <2>1, <2>2 DEF AcquireInd, AcquireTypeOK, Places, Tries
<1>3. SlotsInv'
  BY <1>1, SlotsFrame DEF AcquireInd, SlotsInv, AcquireTypeOK, Places
<1>4. EffortInv'
  <2>1. AttemptsUpTo(c) <= 3 + hops[c] /\ gets[c] <= 2 * AttemptsUpTo(c)
    <3>1. gets[c] <= Allowed(c) /\ Allowed(c) <= 2 * AttemptsUpTo(c)
      BY <1>1, EffortOf DEF AcquireInd, EffortInv, Allowed
    <3> QED
      BY <3>1, EffortOf DEF AcquireInd, Tries
  <2>2. /\ try'[c] = "redirect" /\ hops'[c] = hops[c] + 1 /\ gets'[c] = gets[c]
        /\ at'[c] = "reserve"
    BY <1>1 DEF AcquireInd, AcquireTypeOK
  <2>3. AttemptsUpTo(c)' = 4 + hops[c]
    <3>1. AttemptsUpTo(c)' = 3 + hops'[c]
      BY <2>2 DEF AttemptsUpTo
    <3> QED
      BY <3>1, <2>2, EffortOf DEF AcquireInd
  <2>4. gets'[c] <= Allowed(c)'
    BY <2>1, <2>2, <2>3, EffortOf DEF AcquireInd, Allowed
  <2> QED
    BY <2>4, <1>1, EffortFrame DEF AcquireInd, AcquireTypeOK
<1> QED
  BY <1>2, <1>3, <1>4 DEF AcquireInd, SlotsInv

\* Time does not pass a slot that is waited for.
LEMMA TickStep ==
  ASSUME AcquireInd, Tick
  PROVE  AcquireInd'
<1>1. /\ clock' = clock + 1 /\ clock \in Nat
      /\ UNCHANGED <<lastSeen, lastSent, at, try, target, profile, slot, due,
                     hops, gets, input>>
  BY DEF Tick, AcquireInd, AcquireTypeOK
<1>2. AcquireTypeOK'
  BY <1>1 DEF AcquireInd, AcquireTypeOK
<1>3. SlotInv'
  <2>1. \A c \in Callers : Waiting(c) => at[c] = "pacing" /\ clock < due[c]
    BY DEF Tick, Due, Waiting, Waits, AcquireInd, AcquireTypeOK
  <2> QED
    BY <1>1, <2>1 DEF AcquireInd, SlotInv, Waiting, AcquireTypeOK
<1>4. SlotsSpaced' /\ SentInv'
  BY <1>1 DEF AcquireInd, SlotsSpaced, SentInv, Waiting
<1>5. EffortInv'
  BY <1>1 DEF AcquireInd, EffortInv, Allowed, AttemptsUpTo
<1> QED
  BY <1>2, <1>3, <1>4, <1>5 DEF AcquireInd

LEMMA AcquireInvNext ==
  ASSUME AcquireInd, [AcquireNext]_acquireVars
  PROVE  AcquireInd'
<1>1. CASE Tick
  BY <1>1, TickStep
<1>2. ASSUME NEW c \in Callers, Acquire(c) \/ Answer(c) \/ Go(c)
      PROVE  AcquireInd'
  <2>1. CASE Acquire(c) \/ BackoffEnds(c)
    BY <2>1, MoveSteps
  <2>2. CASE Send(c)
    BY <2>2, SendStep
  <2>3. CASE GetPage(c)
    BY <2>3, EndSteps DEF GetPage
  <2>4. CASE WaitCancelled(c)
    BY <2>4, EndSteps DEF WaitCancelled
  <2>5. ASSUME NEW to \in Links, GetRedirect(c, to)
        PROVE  AcquireInd'
    BY <2>5, RedirectStep
  <2>6. ASSUME NEW error \in {"blocked", "protocol"}, FallBack(c, error)
        PROVE  AcquireInd'
    BY <2>6, FallBackStep
  <2>7. ASSUME NEW jitter \in 0..MaxJitter,
               Reserve(c, jitter) \/ GetTimesOut(c, jitter)
        PROVE  AcquireInd'
    BY <2>7, ReserveStep, FailSteps DEF GetTimesOut
  <2>8. ASSUME NEW jitter \in 0..MaxJitter,
               NEW error \in {"blocked", "protocol", "other"},
               GetFails(c, error, jitter)
        PROVE  AcquireInd'
    BY <2>8, FailSteps DEF GetFails
  <2> QED
    BY <1>2, <2>1, <2>2, <2>3, <2>4, <2>5, <2>6, <2>7, <2>8 DEF Go, Answer
<1>3. CASE UNCHANGED acquireVars
  <2>1. AcquireTypeOK'
    BY <1>3 DEF AcquireInd, AcquireTypeOK, acquireVars
  <2>2. SlotInv' /\ SlotsSpaced' /\ SentInv'
    BY <1>3 DEF AcquireInd, SlotInv, SlotsSpaced, SentInv, Waiting, acquireVars
  <2>3. EffortInv'
    BY <1>3 DEF AcquireInd, EffortInv, Allowed, AttemptsUpTo, acquireVars
  <2> QED
    BY <2>1, <2>2, <2>3 DEF AcquireInd
<1> QED
  BY <1>1, <1>2, <1>3 DEF AcquireNext

LEMMA AcquireInvInit ==
  ASSUME AcquireInit
  PROVE  AcquireInd
<1>1. AcquireTypeOK
  BY AcquirerConstants DEF AcquireInit, AcquireTypeOK, Places, Tries, Targets, Never
<1>2. SlotInv /\ SlotsSpaced /\ SentInv
  BY DEF AcquireInit, SlotInv, SlotsSpaced, SentInv, Waiting
<1>3. EffortInv
  <2> SUFFICES ASSUME NEW c \in Callers
               PROVE  gets[c] <= Allowed(c)
    BY DEF EffortInv
  <2>1. AttemptsUpTo(c) = 1
    BY <1>1, EffortOf DEF AcquireInit
  <2> QED
    BY <2>1 DEF AcquireInit, Allowed
<1> QED
  BY <1>1, <1>2, <1>3 DEF AcquireInd

\* The slots of every host, and the effort of every call, whatever the calls
\* of Acquire do together.
THEOREM AcquireInvariance == AcquireSpec => []AcquireInd
<1> QED
  BY AcquireInvInit, AcquireInvNext, PTL DEF AcquireSpec

\* The GETs of a call are bounded by its attempts and redirects (acquire.go:52).
THEOREM EffortSafety == AcquireSpec => []EffortBounded
<1>1. ASSUME AcquireInd
      PROVE  EffortBounded
  <2> SUFFICES ASSUME NEW c \in Callers
               PROVE  gets[c] <= 2 * (3 + MaxHops)
    BY DEF EffortBounded
  <2>1. /\ gets[c] <= Allowed(c) /\ Allowed(c) <= 2 * AttemptsUpTo(c)
        /\ AttemptsUpTo(c) <= 3 + hops[c]
    BY <1>1, EffortOf DEF AcquireInd, EffortInv, Allowed, Tries
  <2> QED
    BY <1>1, <2>1, EffortOf, AcquirerConstants DEF AcquireInd
<1> QED
  BY <1>1, AcquireInvariance, PTL

\* A GET that waited for its slot keeps the gap to the GET before
\* (acquire.go:317), in whatever tick that was sent, for any number of calls,
\* hosts, retries and redirects and any jitter.
THEOREM PacingSafety == AcquireSpec => PacedSends
<1> DEFINE Spaced == \A c \in Callers :
                       Send(c) /\ lastSent[target[c].host] # Never
                       => clock >= lastSent[target[c].host] + MinGap
<1>1. ASSUME AcquireInd, [AcquireNext]_acquireVars
      PROVE  [Spaced]_acquireVars
  BY <1>1, SendGap
<1> QED
  BY <1>1, AcquireInvariance, PTL DEF AcquireSpec, PacedSends

-----------------------------------------------------------------------------
(***************************************************************************)
(* Proofs about Crawl: on any web, whatever fails and redirects, a crawl   *)
(* stays within its budgets, reads no URL twice and goes breadth first.    *)
(***************************************************************************)

\* What a page adds to the queue: nodes one level deeper.
LEMMA NextNodes ==
  ASSUME CrawlTypeOK, NEW base \in Urls, NEW links \in Orders(Followed(base))
  PROVE  LET next == [i \in DOMAIN links |->
                        [url |-> links[i], depth |-> node.depth + 1]]
         IN /\ next \in Seq(Nodes)
            /\ \A i \in DOMAIN next : next[i].depth = node.depth + 1
<1> DEFINE n == Cardinality(Followed(base))
<1>1. Followed(base) \subseteq Urls
  BY CrawlConstants DEF Followed
<1>2. n \in Nat
  BY <1>1, CrawlConstants, FS_Subset, FS_CardinalityType
<1>3. links \in [1..n -> Followed(base)]
  BY DEF Orders
<1>4. node.depth + 1 \in Nat
  BY DEF CrawlTypeOK, Nodes
<1> HIDE DEF n
<1> DEFINE next == [i \in 1..n |-> [url |-> links[i], depth |-> node.depth + 1]]
<1>5. next \in [1..n -> Nodes]
  BY <1>1, <1>3, <1>4 DEF Nodes
<1>6. next \in Seq(Nodes)
  BY <1>2, <1>5, IsASeq
<1>7. DOMAIN links = 1..n
  BY <1>3
<1> QED
  BY <1>6, <1>7

LEMMA PopStep ==
  ASSUME CrawlInd, Pop
  PROVE  CrawlInd'
<1>1. /\ queue \in Seq(Nodes) /\ queue # <<>> /\ node' = Head(queue)
      /\ queue' = Tail(queue) /\ UNCHANGED <<seed, found>>
      /\ step = "next" /\ Len(found) < MaxPages
  BY DEF CrawlInd, CrawlTypeOK, Pop
<1>2. /\ node' \in Nodes /\ queue' \in Seq(Nodes) /\ node' = queue[1]
      /\ Len(queue) \in Nat /\ Len(queue) > 0 /\ Len(queue') = Len(queue) - 1
      /\ \A i \in 1..Len(queue') : queue'[i] = queue[i + 1]
      /\ DOMAIN queue = 1..Len(queue) /\ DOMAIN queue' = 1..Len(queue')
  BY <1>1, HeadTailProperties, LenProperties
<1>3. /\ visited' \subseteq Urls /\ visited \subseteq visited'
      /\ node'.url \in visited'
      /\ deepest' \in {deepest, node'.depth} /\ step' \in {"next", "read"}
      /\ step' = "read" => node'.url \notin visited
  BY <1>1, <1>2 DEF Pop, CrawlInd, CrawlTypeOK, Nodes
<1>4. CrawlTypeOK'
  BY <1>1, <1>2, <1>3 DEF CrawlInd, CrawlTypeOK, Nodes
<1>5. DepthInv'
  BY <1>1, <1>2, <1>3 DEF CrawlInd, DepthInv
<1>6. PagesInv'
  BY <1>1, <1>3 DEF CrawlInd, PagesInv
<1>7. OnceInv'
  BY <1>1, <1>3 DEF CrawlInd, OnceInv
<1>8. OrderInv'
  <2>1. \A i \in DOMAIN queue : queue[i].depth \in Nat
    <3> SUFFICES ASSUME NEW i \in DOMAIN queue PROVE queue[i].depth \in Nat
      OBVIOUS
    <3>1. queue[i] \in Nodes
      BY <1>1
    <3> QED
      BY <3>1 DEF Nodes
  <2>2. \A i \in 1..Len(queue') : i + 1 \in DOMAIN queue /\ queue'[i] = queue[i + 1]
    BY <1>2
  <2>3. 1 \in DOMAIN queue /\ node'.depth = queue[1].depth /\ node.depth \in Nat
    BY <1>2 DEF CrawlInd, CrawlTypeOK, Nodes
  <2>4. \A i \in DOMAIN queue :
          queue[1].depth <= queue[i].depth /\ queue[i].depth <= queue[1].depth + 1
    BY <1>2, <2>1, <2>3 DEF CrawlInd, OrderInv
  <2>5. \A i, j \in DOMAIN queue' : i < j => queue'[i].depth <= queue'[j].depth
    BY <1>2, <2>2 DEF CrawlInd, OrderInv
  <2> QED
    BY <1>2, <2>2, <2>3, <2>4, <2>5 DEF OrderInv
<1> QED
  BY <1>4, <1>5, <1>6, <1>7, <1>8 DEF CrawlInd

LEMMA ReadPageStep ==
  ASSUME CrawlInd, NEW final \in Urls, ReadPage(final)
  PROVE  CrawlInd'
<1> DEFINE page == [url |-> node.url, depth |-> node.depth, final |-> final]
<1>1. /\ found \in Seq(Found) /\ page \in Found /\ found' = Append(found, page)
      /\ step = "read" /\ step' \in {"next", "expand"}
      /\ step' = "expand" => node.depth < MaxDepth
      /\ UNCHANGED <<seed, queue, visited, deepest, node>>
  BY CrawlConstants DEF CrawlInd, CrawlTypeOK, Found, Nodes, ReadPage
<1> HIDE DEF page
<1>2. /\ found' \in Seq(Found) /\ Len(found) \in Nat
      /\ Len(found') = Len(found) + 1
      /\ \A i \in 1..Len(found) : found'[i] = found[i]
      /\ found'[Len(found) + 1] = page
      /\ DOMAIN found = 1..Len(found) /\ DOMAIN found' = 1..Len(found')
  BY <1>1, AppendProperties, LenProperties
<1>3. \A i \in DOMAIN found' : (i \in DOMAIN found /\ found'[i] = found[i])
                               \/ (i = Len(found) + 1 /\ found'[i] = page)
  BY <1>2
<1>4. CrawlTypeOK'
  BY <1>1, <1>2 DEF CrawlInd, CrawlTypeOK
<1>5. DepthInv'
  BY <1>1, <1>3 DEF CrawlInd, DepthInv, page
<1>6. PagesInv'
  BY <1>1, <1>2, CrawlConstants DEF CrawlInd, PagesInv
<1>7. OnceInv'
  <2>1. node.url \in visited /\ \A i \in DOMAIN found : found[i].url # node.url
    BY <1>1 DEF CrawlInd, OnceInv, PagesInv
  <2> QED
    BY <1>1, <1>3, <2>1 DEF CrawlInd, OnceInv, page
<1>8. OrderInv'
  BY <1>1 DEF CrawlInd, OrderInv
<1> QED
  BY <1>4, <1>5, <1>6, <1>7, <1>8 DEF CrawlInd

LEMMA ExpandStep ==
  ASSUME CrawlInd, NEW base \in Urls, NEW links \in Orders(Followed(base)),
         Expand(base, links)
  PROVE  CrawlInd'
<1> DEFINE next == [i \in DOMAIN links |->
                      [url |-> links[i], depth |-> node.depth + 1]]
<1>1. /\ next \in Seq(Nodes) /\ queue \in Seq(Nodes)
      /\ \A i \in DOMAIN next : next[i].depth = node.depth + 1
  BY NextNodes DEF CrawlInd, CrawlTypeOK
<1>2. /\ queue' = queue \o next /\ step = "expand" /\ step' = "next"
      /\ UNCHANGED <<seed, visited, found, deepest, node>>
  BY DEF Expand
<1> HIDE DEF next
<1>3. /\ queue' \in Seq(Nodes) /\ Len(queue) \in Nat /\ Len(next) \in Nat
      /\ Len(queue') = Len(queue) + Len(next)
      /\ \A i \in 1..Len(queue') : queue'[i] = IF i <= Len(queue) THEN queue[i]
                                                ELSE next[i - Len(queue)]
      /\ DOMAIN queue = 1..Len(queue) /\ DOMAIN next = 1..Len(next)
      /\ DOMAIN queue' = 1..Len(queue')
  BY <1>1, <1>2, ConcatProperties, LenProperties
<1>4. \A i \in DOMAIN queue' :
        \/ i <= Len(queue) /\ i \in DOMAIN queue /\ queue'[i] = queue[i]
        \/ i > Len(queue) /\ queue'[i].depth = node.depth + 1
  <2> SUFFICES ASSUME NEW i \in DOMAIN queue'
               PROVE  \/ i <= Len(queue) /\ i \in DOMAIN queue /\ queue'[i] = queue[i]
                      \/ i > Len(queue) /\ queue'[i].depth = node.depth + 1
    OBVIOUS
  <2>1. CASE i <= Len(queue)
    BY <1>3, <2>1
  <2>2. CASE ~(i <= Len(queue))
    <3>1. i > Len(queue) /\ i - Len(queue) \in DOMAIN next
          /\ queue'[i] = next[i - Len(queue)]
      BY <1>3, <2>2
    <3> QED
      BY <1>1, <3>1
  <2> QED
    BY <2>1, <2>2
<1>5. node.depth \in Nat /\ node.depth < MaxDepth
      /\ \A i \in DOMAIN queue : queue[i].depth \in Nat
  <2>1. node.depth \in Nat /\ node.depth < MaxDepth
    BY <1>2 DEF CrawlInd, CrawlTypeOK, DepthInv, Nodes
  <2>2. ASSUME NEW i \in DOMAIN queue PROVE queue[i].depth \in Nat
    <3>1. queue[i] \in Nodes
      BY <1>1
    <3> QED
      BY <3>1 DEF Nodes
  <2> QED
    BY <2>1, <2>2
<1>6. CrawlTypeOK'
  BY <1>2, <1>3 DEF CrawlInd, CrawlTypeOK
<1>7. DepthInv'
  BY <1>2, <1>4, <1>5, CrawlConstants DEF CrawlInd, DepthInv
<1>8. PagesInv' /\ OnceInv'
  BY <1>2 DEF CrawlInd, PagesInv, OnceInv
<1>9. OrderInv'
  <2>1. \A i \in DOMAIN queue' :
          queue'[i].depth >= node.depth /\ queue'[i].depth <= node.depth + 1
    BY <1>4, <1>5 DEF CrawlInd, OrderInv
  <2>2. \A i, j \in DOMAIN queue' : i < j => queue'[i].depth <= queue'[j].depth
    <3> SUFFICES ASSUME NEW i \in DOMAIN queue', NEW j \in DOMAIN queue', i < j
                 PROVE  queue'[i].depth <= queue'[j].depth
      OBVIOUS
    <3>1. CASE j <= Len(queue)
      BY <1>3, <1>4, <3>1 DEF CrawlInd, OrderInv
    <3>2. CASE j > Len(queue)
      BY <1>3, <1>4, <2>1, <3>2
    <3> QED
      BY <1>3, <3>1, <3>2
  <2> QED
    BY <1>2, <2>1, <2>2 DEF OrderInv
<1> QED
  BY <1>6, <1>7, <1>8, <1>9 DEF CrawlInd

LEMMA CrawlInvNext ==
  ASSUME CrawlInd, [CrawlNext]_crawlVars
  PROVE  CrawlInd'
<1>1. CASE Pop
  BY <1>1, PopStep
<1>2. CASE ReadFails \/ ExpandFails \/ Respond
  <2>1. /\ step' \in {"next", "done"}
        /\ UNCHANGED <<seed, queue, visited, found, deepest, node>>
    BY <1>2 DEF ReadFails, ExpandFails, Respond
  <2> QED
    BY <2>1 DEF CrawlInd, CrawlTypeOK, DepthInv, PagesInv, OnceInv, OrderInv
<1>3. ASSUME NEW u \in Urls, ReadPage(u)
      PROVE  CrawlInd'
  BY <1>3, ReadPageStep
<1>4. ASSUME NEW u \in Urls, NEW links \in Orders(Followed(u)), Expand(u, links)
      PROVE  CrawlInd'
  BY <1>4, ExpandStep
<1>5. CASE UNCHANGED crawlVars
  BY <1>5 DEF crawlVars, CrawlInd, CrawlTypeOK, DepthInv, PagesInv, OnceInv,
     OrderInv
<1> QED
  BY <1>1, <1>2, <1>3, <1>4, <1>5 DEF CrawlNext

LEMMA CrawlInvInit ==
  ASSUME CrawlInit
  PROVE  CrawlInd
<1>1. /\ seed \in Urls /\ node = [url |-> seed, depth |-> 0] /\ node \in Nodes
      /\ queue = <<node>> /\ queue \in Seq(Nodes) /\ found = <<>>
      /\ visited = {} /\ deepest = 0 /\ step = "next"
  BY CrawlConstants DEF CrawlInit, Nodes
<1>2. /\ \A i \in DOMAIN queue : i = 1 /\ queue[i] = node
      /\ found \in Seq(Found) /\ Len(found) = 0 /\ DOMAIN found = {}
  BY <1>1
<1>3. CrawlTypeOK /\ PagesInv /\ OnceInv
  BY <1>1, <1>2, CrawlConstants DEF CrawlTypeOK, PagesInv, OnceInv
<1>4. DepthInv /\ OrderInv
  BY <1>1, <1>2, CrawlConstants DEF DepthInv, OrderInv
<1> QED
  BY <1>3, <1>4 DEF CrawlInd

\* A crawl of any web, with any failures, redirects and link orders, stays
\* within max_pages and max_depth, reads no URL twice and is breadth first.
THEOREM CrawlInvariance == CrawlSpec => []CrawlInd
<1> QED
  BY CrawlInvInit, CrawlInvNext, PTL DEF CrawlSpec

-----------------------------------------------------------------------------
(***************************************************************************)
(* Proofs about RenderSession: however many renders share the browser and  *)
(* whatever fails in them, no context outlives its render in a browser     *)
(* that is lent again, and a page that is not degraded is a sound one.     *)
(*                                                                         *)
(* The invariant adds to SessionInv who holds the slot and the browser     *)
(* (HoldInv) and what vouching for the browser means on the way from the   *)
(* snapshot to the release (FitInv).  One lemma per action.                *)
(***************************************************************************)

\* No render has begun.
LEMMA RenderInvInit == RenderInit => RenderInd
<1> SUFFICES ASSUME RenderInit
             PROVE  RenderInd
  OBVIOUS
<1>1. RenderTypeOK
  BY DEF RenderInit, RenderTypeOK, None, Pool!PoolInit
<1>2. HoldInv
  BY DEF RenderInit, HoldInv, None, InSession, Holding, Pool!PoolInit
<1>3. FitInv /\ SessionInv
  BY DEF RenderInit, FitInv, SessionInv, FreshInv, PageInv, AloneInv, None,
         Pool!PoolInit, After
<1> QED
  BY <1>1, <1>2, <1>3 DEF RenderInd

\* A render takes the slot, and the contexts of a browser that is retired go.
LEMMA StartBrowserInd ==
  ASSUME RenderInd, NEW q \in Renders, StartBrowser(q)
  PROVE  RenderInd'
<1> USE DEF RenderInd, RenderTypeOK, StartBrowser, poolState, own, Turns,
           LoseOne, TimeOver, Pool!Reserve, InSession, Holding
<1>1. RenderTypeOK'
  OBVIOUS
<1>2. HoldInv'
  BY DEF HoldInv
<1>3. FitInv'
  BY DEF HoldInv, FitInv, After
<1>4. FreshInv'
  BY DEF HoldInv, FitInv, SessionInv, FreshInv, After
<1>5. PageInv' /\ AloneInv'
  BY <1>2, <1>3 DEF HoldInv, FitInv, SessionInv, PageInv, AloneInv, After
<1> QED
  BY <1>1, <1>2, <1>3, <1>4, <1>5 DEF SessionInv

\* A started browser has no context and one borrower; a start that fails frees
\* the slot.
LEMMA LaunchedInd ==
  ASSUME RenderInd, NEW q \in Renders, Launched(q)
  PROVE  RenderInd'
<1> USE DEF RenderInd, RenderTypeOK, Launched, poolState, own, Turns, LoseOne,
           TimeOver, Pool!Open, Pool!Vacate, InSession, Holding
<1>1. RenderTypeOK'
  <2>1. doing' \in [Renders -> Holding \cup InSession
                             \cup {"acquire", "decide", "fallback", "done"}]
    OBVIOUS
  <2>2. failed' \in [Renders -> BOOLEAN]
    OBVIOUS
  <2>3. losses' \in Nat
    OBVIOUS
  <2>4. linkedUp' \in [Renders -> BOOLEAN] /\ contexts' \subseteq Renders /\ worn' \in BOOLEAN
    OBVIOUS
  <2>5. /\ browserSlot' \in {"vacant", "open", "reserved"} /\ borrowers' \subseteq Renders
        /\ shut' \in BOOLEAN
    OBVIOUS
  <2> QED
    BY <2>1, <2>2, <2>3, <2>4, <2>5
<1>2. HoldInv'
  BY DEF HoldInv
<1>3. FitInv'
  BY DEF HoldInv, FitInv, After
<1>4. FreshInv'
  BY DEF HoldInv, FitInv, SessionInv, FreshInv, After
<1>5. PageInv' /\ AloneInv'
  BY <1>2, <1>3 DEF HoldInv, FitInv, SessionInv, PageInv, AloneInv, After
<1> QED
  BY <1>1, <1>2, <1>3, <1>4, <1>5 DEF SessionInv

\* A browser that is not worn is lent once more.
LEMMA BorrowInd ==
  ASSUME RenderInd, NEW q \in Renders, Borrow(q)
  PROVE  RenderInd'
<1> USE DEF RenderInd, RenderTypeOK, Borrow, poolState, own, Turns, LoseOne,
           TimeOver, Pool!Lend, InSession, Holding
<1>1. RenderTypeOK'
  OBVIOUS
<1>2. HoldInv'
  BY DEF HoldInv
<1>3. FitInv'
  BY DEF HoldInv, FitInv, After
<1>4. FreshInv'
  BY DEF HoldInv, FitInv, SessionInv, FreshInv, After
<1>5. PageInv' /\ AloneInv'
  BY <1>2, <1>3 DEF HoldInv, FitInv, SessionInv, PageInv, AloneInv, After
<1> QED
  BY <1>1, <1>2, <1>3, <1>4, <1>5 DEF SessionInv

\* A refused call never had a browser.
LEMMA RefusedInd ==
  ASSUME RenderInd, NEW q \in Renders, Refused(q)
  PROVE  RenderInd'
<1> USE DEF RenderInd, RenderTypeOK, Refused, poolState, own, Turns, LoseOne,
           TimeOver, InSession, Holding
<1>1. RenderTypeOK'
  OBVIOUS
<1>2. HoldInv'
  BY DEF HoldInv
<1>3. FitInv'
  BY DEF HoldInv, FitInv, After
<1>4. FreshInv'
  BY DEF HoldInv, FitInv, SessionInv, FreshInv, After
<1>5. PageInv' /\ AloneInv'
  BY <1>2, <1>3 DEF HoldInv, FitInv, SessionInv, PageInv, AloneInv, After
<1> QED
  BY <1>1, <1>2, <1>3, <1>4, <1>5 DEF SessionInv

\* The browser that stays open has no context of the render that returns it:
\* that render vouched for it, or the browser is worn.
LEMMA ReleaseInd ==
  ASSUME RenderInd, NEW q \in Renders, Release(q)
  PROVE  RenderInd'
<1> USE DEF RenderInd, RenderTypeOK, Release, poolState, own, Turns, LoseOne,
           TimeOver, Pool!Return, Pool!ReturnAndReserve, InSession, Holding
<1>1. RenderTypeOK'
  OBVIOUS
<1>2. HoldInv'
  BY DEF HoldInv
<1>3. FitInv'
  BY DEF HoldInv, FitInv, After
<1>4. FreshInv'
  BY DEF HoldInv, FitInv, SessionInv, FreshInv, After
<1>5. PageInv' /\ AloneInv'
  BY <1>2, <1>3 DEF HoldInv, FitInv, SessionInv, PageInv, AloneInv, After
<1> QED
  BY <1>1, <1>2, <1>3, <1>4, <1>5 DEF SessionInv

\* A retired browser takes its contexts with it, also when its end is not clean.
LEMMA RetireInd ==
  ASSUME RenderInd, NEW q \in Renders, Retire(q)
  PROVE  RenderInd'
<1> USE DEF RenderInd, RenderTypeOK, Retire, poolState, own, Turns, LoseOne,
           TimeOver, Pool!Vacate, InSession, Holding
<1>1. RenderTypeOK'
  <2>1. doing' \in [Renders -> Holding \cup InSession
                             \cup {"acquire", "decide", "fallback", "done"}]
    OBVIOUS
  <2>2. failed' \in [Renders -> BOOLEAN]
    OBVIOUS
  <2>3. losses' \in Nat
    OBVIOUS
  <2>4. linkedUp' \in [Renders -> BOOLEAN] /\ contexts' \subseteq Renders /\ worn' \in BOOLEAN
    OBVIOUS
  <2>5. /\ browserSlot' \in {"vacant", "open", "reserved"} /\ borrowers' \subseteq Renders
        /\ shut' \in BOOLEAN
    OBVIOUS
  <2> QED
    BY <2>1, <2>2, <2>3, <2>4, <2>5
<1>2. HoldInv'
  BY DEF HoldInv
<1>3. FitInv'
  BY DEF HoldInv, FitInv, After
<1>4. FreshInv'
  BY DEF HoldInv, FitInv, SessionInv, FreshInv, After
<1>5. PageInv' /\ AloneInv'
  BY <1>2, <1>3 DEF HoldInv, FitInv, SessionInv, PageInv, AloneInv, After
<1> QED
  BY <1>1, <1>2, <1>3, <1>4, <1>5 DEF SessionInv

\* Only a borrower makes a context.
LEMMA CommandInd ==
  ASSUME RenderInd, NEW q \in Renders, Command(q)
  PROVE  RenderInd'
<1> USE DEF RenderInd, RenderTypeOK, Command, poolState, own, Turns, LoseOne,
           TimeOver, After, InSession, Holding
<1>1. RenderTypeOK'
  OBVIOUS
<1>2. HoldInv'
  BY DEF HoldInv
<1>3. FitInv'
  BY DEF HoldInv, FitInv, After
<1>4. FreshInv'
  BY DEF HoldInv, FitInv, SessionInv, FreshInv, After
<1>5. PageInv' /\ AloneInv'
  BY <1>2, <1>3 DEF HoldInv, FitInv, SessionInv, PageInv, AloneInv, After
<1> QED
  BY <1>1, <1>2, <1>3, <1>4, <1>5 DEF SessionInv

\* The render vouches for the browser from here on.
LEMMA TakeSnapshotInd ==
  ASSUME RenderInd, NEW q \in Renders, TakeSnapshot(q)
  PROVE  RenderInd'
<1> USE DEF RenderInd, RenderTypeOK, TakeSnapshot, poolState, own, Turns,
           LoseOne, TimeOver, InSession, Holding
<1>1. RenderTypeOK'
  OBVIOUS
<1>2. HoldInv'
  BY DEF HoldInv
<1>3. FitInv'
  BY DEF HoldInv, FitInv, After
<1>4. FreshInv'
  BY DEF HoldInv, FitInv, SessionInv, FreshInv, After
<1>5. PageInv' /\ AloneInv'
  BY <1>2, <1>3 DEF HoldInv, FitInv, SessionInv, PageInv, AloneInv, After
<1> QED
  BY <1>1, <1>2, <1>3, <1>4, <1>5 DEF SessionInv

\* A failed command ends the attempt unvouched for, whatever the browser made of it.
LEMMA CommandFailsInd ==
  ASSUME RenderInd, NEW q \in Renders, CommandFails(q)
  PROVE  RenderInd'
<1> USE DEF RenderInd, RenderTypeOK, CommandFails, poolState, own, Turns,
           LoseOne, TimeOver, After, InSession, Holding
<1>1. RenderTypeOK'
  <2>1. doing' \in [Renders -> Holding \cup InSession
                             \cup {"acquire", "decide", "fallback", "done"}]
    OBVIOUS
  <2>2. failed' \in [Renders -> BOOLEAN] /\ losses' \in Nat
    OBVIOUS
  <2>3. linkedUp' \in [Renders -> BOOLEAN] /\ contexts' \subseteq Renders /\ worn' \in BOOLEAN
    OBVIOUS
  <2>4. /\ browserSlot' \in {"vacant", "open", "reserved"} /\ borrowers' \subseteq Renders
        /\ shut' \in BOOLEAN
    OBVIOUS
  <2> QED
    BY <2>1, <2>2, <2>3, <2>4
<1>2. HoldInv'
  BY DEF HoldInv
<1>3. FitInv'
  BY DEF HoldInv, FitInv, After
<1>4. FreshInv'
  BY DEF HoldInv, FitInv, SessionInv, FreshInv, After
<1>5. PageInv' /\ AloneInv'
  BY <1>2, <1>3 DEF HoldInv, FitInv, SessionInv, PageInv, AloneInv, After
<1> QED
  BY <1>1, <1>2, <1>3, <1>4, <1>5 DEF SessionInv

\* A context that could not be disposed of takes the vouching back.
LEMMA DisposeFailsInd ==
  ASSUME RenderInd, NEW q \in Renders, DisposeFails(q)
  PROVE  RenderInd'
<1> USE DEF RenderInd, RenderTypeOK, DisposeFails, poolState, own, Turns,
           LoseOne, TimeOver, InSession, Holding
<1>1. RenderTypeOK'
  OBVIOUS
<1>2. HoldInv'
  BY DEF HoldInv
<1>3. FitInv'
  BY DEF HoldInv, FitInv, After
<1>4. FreshInv'
  BY DEF HoldInv, FitInv, SessionInv, FreshInv, After
<1>5. PageInv' /\ AloneInv'
  BY <1>2, <1>3 DEF HoldInv, FitInv, SessionInv, PageInv, AloneInv, After
<1> QED
  BY <1>1, <1>2, <1>3, <1>4, <1>5 DEF SessionInv

\* The context is gone before the browser is returned.
LEMMA DisposeInd ==
  ASSUME RenderInd, NEW q \in Renders, Dispose(q)
  PROVE  RenderInd'
<1> USE DEF RenderInd, RenderTypeOK, Dispose, poolState, own, Turns, LoseOne,
           TimeOver, InSession, Holding
<1>1. RenderTypeOK'
  OBVIOUS
<1>2. HoldInv'
  BY DEF HoldInv
<1>3. FitInv'
  BY DEF HoldInv, FitInv, After
<1>4. FreshInv'
  BY DEF HoldInv, FitInv, SessionInv, FreshInv, After
<1>5. PageInv' /\ AloneInv'
  BY <1>2, <1>3 DEF HoldInv, FitInv, SessionInv, PageInv, AloneInv, After
<1> QED
  BY <1>1, <1>2, <1>3, <1>4, <1>5 DEF SessionInv

\* The connection does not outlive the session.
LEMMA HangUpInd ==
  ASSUME RenderInd, NEW q \in Renders, HangUp(q)
  PROVE  RenderInd'
<1> USE DEF RenderInd, RenderTypeOK, HangUp, poolState, own, Turns, LoseOne,
           TimeOver, InSession, Holding
<1>1. RenderTypeOK'
  OBVIOUS
<1>2. HoldInv'
  BY DEF HoldInv
<1>3. FitInv'
  BY DEF HoldInv, FitInv, After
<1>4. FreshInv'
  BY DEF HoldInv, FitInv, SessionInv, FreshInv, After
<1>5. PageInv' /\ AloneInv'
  BY <1>2, <1>3 DEF HoldInv, FitInv, SessionInv, PageInv, AloneInv, After
<1> QED
  BY <1>1, <1>2, <1>3, <1>4, <1>5 DEF SessionInv

\* A page is one that was caught in a session without an error.
LEMMA ConcludeInd ==
  ASSUME RenderInd, NEW q \in Renders, Conclude(q)
  PROVE  RenderInd'
<1> USE DEF RenderInd, RenderTypeOK, Conclude, poolState, own, Turns, LoseOne,
           TimeOver, Returns, InSession, Holding
<1>1. RenderTypeOK'
  OBVIOUS
<1>2. HoldInv'
  BY DEF HoldInv
<1>3. FitInv'
  BY DEF HoldInv, FitInv, After
<1>4. FreshInv'
  BY DEF HoldInv, FitInv, SessionInv, FreshInv, After
<1>5. PageInv' /\ AloneInv'
  BY <1>2, <1>3 DEF HoldInv, FitInv, SessionInv, PageInv, AloneInv, After
<1> QED
  BY <1>1, <1>2, <1>3, <1>4, <1>5 DEF SessionInv

\* The fallback takes the slot when nobody borrows the browser.
LEMMA CaptureInd ==
  ASSUME RenderInd, NEW q \in Renders, Capture(q)
  PROVE  RenderInd'
<1> USE DEF RenderInd, RenderTypeOK, Capture, poolState, own, Turns, LoseOne,
           TimeOver, Pool!Reserve, InSession, Holding
<1>1. RenderTypeOK'
  OBVIOUS
<1>2. HoldInv'
  BY DEF HoldInv
<1>3. FitInv'
  BY DEF HoldInv, FitInv, After
<1>4. FreshInv'
  BY DEF HoldInv, FitInv, SessionInv, FreshInv, After
<1>5. PageInv' /\ AloneInv'
  BY <1>2, <1>3 DEF HoldInv, FitInv, SessionInv, PageInv, AloneInv, After
<1> QED
  BY <1>1, <1>2, <1>3, <1>4, <1>5 DEF SessionInv

\* A fallback that comes too late returns without a page.
LEMMA CaptureRefusedInd ==
  ASSUME RenderInd, NEW q \in Renders, CaptureRefused(q)
  PROVE  RenderInd'
<1> USE DEF RenderInd, RenderTypeOK, CaptureRefused, poolState, own, Turns,
           LoseOne, TimeOver, Returns, InSession, Holding
<1>1. RenderTypeOK'
  OBVIOUS
<1>2. HoldInv'
  BY DEF HoldInv
<1>3. FitInv'
  BY DEF HoldInv, FitInv, After
<1>4. FreshInv'
  BY DEF HoldInv, FitInv, SessionInv, FreshInv, After
<1>5. PageInv' /\ AloneInv'
  BY <1>2, <1>3 DEF HoldInv, FitInv, SessionInv, PageInv, AloneInv, After
<1> QED
  BY <1>1, <1>2, <1>3, <1>4, <1>5 DEF SessionInv

\* A page of the fallback is degraded.
LEMMA CapturedInd ==
  ASSUME RenderInd, NEW q \in Renders, Captured(q)
  PROVE  RenderInd'
<1> USE DEF RenderInd, RenderTypeOK, Captured, poolState, own, Turns, LoseOne,
           TimeOver, Pool!Vacate, Returns, InSession, Holding
<1>1. RenderTypeOK'
  OBVIOUS
<1>2. HoldInv'
  BY DEF HoldInv
<1>3. FitInv'
  BY DEF HoldInv, FitInv, After
<1>4. FreshInv'
  BY DEF HoldInv, FitInv, SessionInv, FreshInv, After
<1>5. PageInv' /\ AloneInv'
  BY <1>2, <1>3 DEF HoldInv, FitInv, SessionInv, PageInv, AloneInv, After
<1> QED
  BY <1>1, <1>2, <1>3, <1>4, <1>5 DEF SessionInv

\* The end of a context by itself changes nothing else.
LEMMA TimeUpInd ==
  ASSUME RenderInd, NEW q \in Renders, TimeUp(q)
  PROVE  RenderInd'
<1> USE DEF RenderInd, RenderTypeOK, TimeUp, poolState, own, Turns, LoseOne,
           TimeOver, InSession, Holding
<1>1. RenderTypeOK'
  OBVIOUS
<1>2. HoldInv'
  BY DEF HoldInv
<1>3. FitInv'
  BY DEF HoldInv, FitInv, After
<1>4. FreshInv'
  BY DEF HoldInv, FitInv, SessionInv, FreshInv, After
<1>5. PageInv' /\ AloneInv'
  BY <1>2, <1>3 DEF HoldInv, FitInv, SessionInv, PageInv, AloneInv, After
<1> QED
  BY <1>1, <1>2, <1>3, <1>4, <1>5 DEF SessionInv

\* A lost connection leaves the context in the browser.
LEMMA DisconnectInd ==
  ASSUME RenderInd, NEW q \in Renders, Disconnect(q)
  PROVE  RenderInd'
<1> USE DEF RenderInd, RenderTypeOK, Disconnect, poolState, own, Turns,
           LoseOne, TimeOver, InSession, Holding
<1>1. RenderTypeOK'
  OBVIOUS
<1>2. HoldInv'
  BY DEF HoldInv
<1>3. FitInv'
  BY DEF HoldInv, FitInv, After
<1>4. FreshInv'
  BY DEF HoldInv, FitInv, SessionInv, FreshInv, After
<1>5. PageInv' /\ AloneInv'
  BY <1>2, <1>3 DEF HoldInv, FitInv, SessionInv, PageInv, AloneInv, After
<1> QED
  BY <1>1, <1>2, <1>3, <1>4, <1>5 DEF SessionInv

\* The browser drops the context of a connection that is gone.
LEMMA DetachedInd ==
  ASSUME RenderInd, NEW q \in Renders, Detached(q)
  PROVE  RenderInd'
<1> USE DEF RenderInd, RenderTypeOK, Detached, poolState, own, Turns, LoseOne,
           TimeOver, InSession, Holding
<1>1. RenderTypeOK'
  OBVIOUS
<1>2. HoldInv'
  BY DEF HoldInv
<1>3. FitInv'
  BY DEF HoldInv, FitInv, After
<1>4. FreshInv'
  BY DEF HoldInv, FitInv, SessionInv, FreshInv, After
<1>5. PageInv' /\ AloneInv'
  BY <1>2, <1>3 DEF HoldInv, FitInv, SessionInv, PageInv, AloneInv, After
<1> QED
  BY <1>1, <1>2, <1>3, <1>4, <1>5 DEF SessionInv

\* Closing takes the browser from everybody.
LEMMA CloseRuntimeInd ==
  ASSUME RenderInd, CloseRuntime
  PROVE  RenderInd'
<1> USE DEF RenderInd, RenderTypeOK, CloseRuntime, poolState, InSession,
           Holding, Pool!Shut, None
<1>1. RenderTypeOK'
  OBVIOUS
<1>2. HoldInv' /\ FitInv'
  BY DEF HoldInv, FitInv, After
<1>3. SessionInv'
  BY DEF HoldInv, FitInv, SessionInv, FreshInv, PageInv, AloneInv
<1> QED
  BY <1>1, <1>2, <1>3

\* The invariant is inductive.
LEMMA RenderInvNext == RenderInd /\ [RenderNext]_renderVars => RenderInd'
<1> SUFFICES ASSUME RenderInd, [RenderNext]_renderVars
             PROVE  RenderInd'
  OBVIOUS
<1>1. CASE UNCHANGED renderVars
  BY <1>1 DEF renderVars, poolState, own, RenderInd, RenderTypeOK, HoldInv, FitInv,
              SessionInv, FreshInv, PageInv, AloneInv
<1>2. CASE \E q \in Renders : TimeUp(q) \/ Disconnect(q) \/ Detached(q)
  BY <1>2, TimeUpInd, DisconnectInd, DetachedInd
<1>3. CASE \E q \in Renders : RenderStep(q)
  BY <1>3, StartBrowserInd, LaunchedInd, BorrowInd, RefusedInd, ReleaseInd,
     RetireInd, CommandInd, TakeSnapshotInd, CommandFailsInd, DisposeFailsInd,
     DisposeInd, HangUpInd, ConcludeInd, CaptureInd, CaptureRefusedInd,
     CapturedInd DEF RenderStep
<1> QED
  BY <1>1, <1>2, <1>3, CloseRuntimeInd DEF RenderNext

\* What holds of the slot, the browser and the renders in every state.
THEOREM RenderInvariance == RenderSpec => []RenderInd
<1> QED
  BY RenderInvInit, RenderInvNext, PTL DEF RenderSpec

\* "Every render creates a fresh CDP browser context" (rendering/runtime.go:13):
\* a browser that is lent again has no context of a finished render, a page that
\* is not degraded was seen in a session without an error, and the fallback runs
\* while nobody has the browser, for any number of renders and losses.
THEOREM SessionSafety == RenderSpec => []SessionInv
<1>1. RenderInd => SessionInv
  BY DEF RenderInd
<1> QED
  BY <1>1, RenderInvariance, PTL


-----------------------------------------------------------------------------
(***************************************************************************)
(* Proofs about Query and the Discovery it asks: whatever the sites, the   *)
(* memory, the web and the review of the candidates answer, and however    *)
(* the time left shrinks meanwhile, QueryInd holds.                        *)
(*                                                                         *)
(* The strengthening that makes it inductive is in the modules themselves: *)
(* PassInv and ResultInv say what a pass of Discovery carries from step to *)
(* step, Reading, PagesRead, FoundInv, PlanInv, BacklogInv and OffInv what *)
(* the query does.  That the plan and the backlog name no page twice rests *)
(* on the lemmas of ListLemmas.                                            *)
(***************************************************************************)

\* The orders of a set name its members, each once.
LEMMA SequencesOf ==
  ASSUME NEW S, IsFiniteSet(S), NEW s \in Sequences(S)
  PROVE  /\ s \in Seq(S) /\ IsInjective(s) /\ ToSet(s) \subseteq S
         /\ Len(s) = Cardinality(S) /\ DOMAIN s = 1..Len(s) /\ Len(s) \in Nat
         /\ S # {} => s # <<>>
<1> DEFINE n == Cardinality(S)
<1>1. n \in Nat /\ (S # {} => n # 0)
  BY FS_CardinalityType, FS_EmptySet
<1>2. s \in [1..n -> S] /\ IsInjective(s)
  BY DEF Sequences
<1> HIDE DEF n
<1>3. s \in Seq(S)
  BY <1>1, <1>2, SeqDef
<1>4. Len(s) \in Nat /\ DOMAIN s = 1..Len(s)
  BY <1>3, LenProperties
<1>5. Len(s) = n
  BY <1>1, <1>2, <1>4
<1>6. ToSet(s) \subseteq S
  BY <1>2 DEF ToSet
<1>7. S # {} => s # <<>>
  BY <1>1, <1>5, EmptySeq
<1> QED
  BY <1>2, <1>3, <1>4, <1>5, <1>6, <1>7 DEF n

\* What a site or the review may answer with.
LEMMA ResultsAre ==
  ASSUME NEW r \in Results
  PROVE  r \in Seq(Pages) /\ IsInjective(r)
<1>1. PICK S \in SUBSET Pages : r \in Sequences(S)
  BY DEF Results
<1>2. IsFiniteSet(S)
  BY DiscoveryConstants, FS_Subset
<1>3. r \in Seq(S) /\ IsInjective(r)
  BY <1>1, <1>2, SequencesOf
<1> QED
  BY <1>3, SeqMonotonic

\* The time left only shrinks.
LEMMA ElapseTime ==
  ASSUME left \in 0..NoDeadline, Elapse
  PROVE  left' \in 0..NoDeadline
BY DEF Elapse, NoDeadline

-----------------------------------------------------------------------------
(* Passes. *)

\* The types of what a pass keeps, for the provers.
LEMMA PassTypes ==
  ASSUME DiscoveryTypeOK
  PROVE  /\ left \in 0..NoDeadline /\ portfolio \in Nat /\ rounds \in 0..portfolio
         /\ order \in Seq(Providers) /\ asking \in 1..Len(order) + 1 /\ Len(order) \in Nat
         /\ disabled \in SUBSET Providers /\ answered \in SUBSET Providers
         /\ cooling \in SUBSET Providers /\ pool \in SUBSET Pages /\ unprobed \in SUBSET Pages
         /\ browserLeft \in 0..BrowserProbes /\ top \in Seq(Pages)
BY LenProperties DEF DiscoveryTypeOK

\* A step outside the pass.
LEMMA LeftOnly ==
  ASSUME DiscoveryInd, left' \in 0..NoDeadline, UNCHANGED <<pass, passVars, top, cooling>>
  PROVE  DiscoveryInd'
<1>1. DiscoveryTypeOK'
  BY DEF DiscoveryInd, DiscoveryTypeOK, passVars
<1>2. ResultInv' /\ ProviderInv' /\ PassInv'
  BY DEF DiscoveryInd, ResultInv, ProviderInv, PassInv, passVars
<1> QED
  BY <1>1, <1>2 DEF DiscoveryInd

\* A pass whose locals are cleared.
LEMMA ClearedInd ==
  ASSUME DiscoveryInd, Cleared, cooling' = cooling, portfolio' \in Nat, left' \in 0..NoDeadline,
         top' \in Seq(Pages), pass' \in {"idle", "local", "order", "found", "empty"},
         pass' = "found" => Len(top') \in 1..MaxCandidates + 1 /\ IsInjective(top')
  PROVE  DiscoveryInd'
<1>1. /\ rounds' = 0 /\ asking' = 1 /\ order' = <<>> /\ disabled' = {} /\ answered' = {}
      /\ pool' = {} /\ unprobed' = {} /\ browserLeft' = 0
  BY DEF Cleared
<1>2. <<>> \in Seq(Providers) /\ Len(<<>>) = 0
  BY EmptySeq
<1>3. cooling' \in SUBSET Providers
  BY PassTypes DEF DiscoveryInd
<1>4. BrowserProbes \in Nat
  BY DiscoveryConstants
<1>5. rounds' \in 0..portfolio' /\ asking' \in 1..Len(order') + 1 /\ browserLeft' \in 0..BrowserProbes
  BY <1>1, <1>2, <1>4
<1>6. order' \in Seq(Providers)
  BY <1>1, <1>2
<1>7. DiscoveryTypeOK'
  BY <1>1, <1>3, <1>5, <1>6 DEF DiscoveryTypeOK
<1>8. ResultInv' /\ ProviderInv' /\ PassInv'
  BY <1>1 DEF ResultInv, ProviderInv, PassInv
<1> QED
  BY <1>7, <1>8 DEF DiscoveryInd

\* A pass begins: the step of the query that asks for it says what its
\* locals are.
LEMMA BeginInd ==
  ASSUME DiscoveryInd, left' \in 0..NoDeadline, NEW n \in Nat, NEW seeded, Begin(n, seeded)
  PROVE  DiscoveryInd'
<1>1. /\ pass' \in {"local", "order"} /\ portfolio' = n /\ top' = <<>> /\ Cleared
      /\ cooling' = cooling
  BY DEF Begin
<1>2. top' \in Seq(Pages)
  BY <1>1, EmptySeq
<1> QED
  BY <1>1, <1>2, ClearedInd

\* A pass is over and its result has been taken.
LEMMA TakenInd ==
  ASSUME DiscoveryInd, Taken, pass \in {"found", "empty"}
  PROVE  DiscoveryInd'
<1>1. pass' = "idle" /\ top' = <<>> /\ left' = left /\ UNCHANGED passVars /\ cooling' = cooling
  BY DEF Taken
<1>2. top' \in Seq(Pages)
  BY <1>1, EmptySeq
<1>3. DiscoveryTypeOK'
  BY <1>1, <1>2 DEF DiscoveryInd, DiscoveryTypeOK, passVars
<1>4. ResultInv' /\ ProviderInv' /\ PassInv'
  BY <1>1 DEF DiscoveryInd, ResultInv, ProviderInv, PassInv, passVars
<1> QED
  BY <1>3, <1>4 DEF DiscoveryInd

\* A step of a pass that goes on.
LEMMA GoesOn ==
  ASSUME DiscoveryInd, left' \in 0..NoDeadline, portfolio' = portfolio,
         rounds' \in 0..portfolio, order' \in Seq(Providers), asking' \in 1..Len(order') + 1,
         disabled' \in SUBSET Providers, answered' \in SUBSET Providers,
         cooling' \in SUBSET Providers, disabled' \subseteq cooling',
         pool' \in SUBSET Pages, unprobed' \subseteq pool', browserLeft' \in 0..BrowserProbes,
         top' = top, pass' \in {"order", "ask", "probe"},
         pass' = "order" => order' = <<>>, pass' = "probe" => pool' # {}
  PROVE  DiscoveryInd'
<1>1. DiscoveryTypeOK'
  BY DEF DiscoveryInd, DiscoveryTypeOK
<1>2. ResultInv' /\ ProviderInv' /\ PassInv'
  BY DEF ResultInv, ProviderInv, PassInv
<1> QED
  BY <1>1, <1>2 DEF DiscoveryInd

\* Providers are ordered and asked.
LEMMA AskInd ==
  ASSUME DiscoveryInd,
         \/ OrderProviders \/ NextRound
         \/ \E p \in Providers :
              \/ PassOver(p) \/ \E level \in BOOLEAN : Fails(p, level)
              \/ \E got \in LinkSets : Answers(p, got)
  PROVE  DiscoveryInd'
<1>1. /\ left \in 0..NoDeadline /\ portfolio \in Nat /\ rounds \in 0..portfolio
      /\ order \in Seq(Providers) /\ asking \in 1..Len(order) + 1 /\ Len(order) \in Nat
      /\ disabled \in SUBSET Providers /\ answered \in SUBSET Providers
      /\ cooling \in SUBSET Providers /\ pool \in SUBSET Pages /\ unprobed \in SUBSET Pages
      /\ browserLeft \in 0..BrowserProbes /\ top \in Seq(Pages)
  BY PassTypes DEF DiscoveryInd
<1>2. disabled \subseteq cooling /\ unprobed \subseteq pool
  BY DEF DiscoveryInd, ProviderInv
<1>3. CASE OrderProviders
  <2>1. order = <<>>
    BY <1>3 DEF OrderProviders, DiscoveryInd, PassInv
  <2>2. order' \in Seq(Providers) /\ Len(order') \in Nat
    BY <1>3, SequencesOf, DiscoveryConstants DEF OrderProviders
  <2>3. asking = 1
    BY <1>1, <2>1, EmptySeq
  <2>4. asking' \in 1..Len(order') + 1
    BY <1>3, <2>2, <2>3 DEF OrderProviders
  <2> QED
    BY <1>1, <1>2, <1>3, <2>2, <2>4, GoesOn DEF OrderProviders
<1>4. CASE NextRound
  <2>1. /\ rounds' = rounds + 1 /\ rounds + 1 < portfolio /\ asking' = 1
        /\ UNCHANGED <<pass, left, portfolio, order, disabled, answered, pool,
                       unprobed, browserLeft, top, cooling>>
        /\ pass = "ask"
    BY <1>4 DEF NextRound, RoundOver
  <2>2. rounds' \in 0..portfolio /\ asking' \in 1..Len(order') + 1
    BY <1>1, <2>1
  <2> QED
    BY <1>1, <1>2, <2>1, <2>2, GoesOn
<1>5. ASSUME NEW p \in Providers,
             \/ PassOver(p) \/ \E level \in BOOLEAN : Fails(p, level)
             \/ \E got \in LinkSets : Answers(p, got)
      PROVE  DiscoveryInd'
  <2>1. /\ pass' = "ask" /\ portfolio' = portfolio /\ rounds' = rounds /\ order' = order
        /\ asking' = asking + 1 /\ unprobed' = unprobed /\ browserLeft' = browserLeft
        /\ top' = top /\ asking <= Len(order)
    BY <1>5 DEF PassOver, Fails, Answers, NextProvider, Asked
  <2>2. left' \in 0..NoDeadline
    BY <1>1, <1>5, ElapseTime DEF PassOver, Fails, Answers
  <2>3. asking' \in 1..Len(order') + 1
    BY <1>1, <2>1
  <2>4. /\ disabled' \in SUBSET Providers /\ answered' \in SUBSET Providers
        /\ cooling' \in SUBSET Providers /\ disabled' \subseteq cooling'
        /\ pool' \in SUBSET Pages /\ pool \subseteq pool'
    <3>1. CASE PassOver(p)
      BY <1>1, <1>2, <3>1 DEF PassOver
    <3>2. CASE \E level \in BOOLEAN : Fails(p, level)
      BY <1>1, <1>2, <3>2 DEF Fails
    <3>3. CASE \E got \in LinkSets : Answers(p, got)
      BY <1>1, <1>2, <3>3, DiscoveryConstants DEF Answers
    <3> QED
      BY <1>5, <3>1, <3>2, <3>3
  <2> QED
    BY <1>1, <1>2, <2>1, <2>2, <2>3, <2>4, GoesOn
<1> QED
  BY <1>3, <1>4, <1>5

\* How many candidates are probed or returned.
LEMMA Counts ==
  ASSUME DiscoveryTypeOK
  PROVE  /\ IsFiniteSet(pool) /\ Cardinality(pool) \in Nat
         /\ pool # {} => Cardinality(pool) > 0
         /\ ProbeCount \in Nat /\ MaxCandidates \in Nat \ {0} /\ BrowserProbes \in Nat
<1>1. IsFiniteSet(pool)
  BY PassTypes, DiscoveryConstants, FS_Subset
<1>2. Cardinality(pool) \in Nat /\ (pool # {} => Cardinality(pool) > 0)
  BY <1>1, FS_CardinalityType, FS_EmptySet
<1>3. MaxCandidates \in Nat \ {0} /\ ProbeLimit \in Nat \ {0} /\ BrowserProbes \in Nat
  BY DiscoveryConstants
<1> QED
  BY <1>1, <1>2, <1>3 DEF ProbeCount, Smaller

\* The site, the probes and the order of the candidates.
LEMMA ProbeInd ==
  ASSUME DiscoveryInd,
         \/ LocalGivesUp \/ Collected \/ Finish
         \/ \E p \in Pages : LocalFound(p) \/ ProbeFails(p)
                             \/ \E got \in LinkSets : Probe(p, got)
  PROVE  DiscoveryInd'
<1>1. /\ left \in 0..NoDeadline /\ portfolio \in Nat /\ rounds \in 0..portfolio
      /\ order \in Seq(Providers) /\ asking \in 1..Len(order) + 1 /\ Len(order) \in Nat
      /\ disabled \in SUBSET Providers /\ answered \in SUBSET Providers
      /\ cooling \in SUBSET Providers /\ pool \in SUBSET Pages /\ unprobed \in SUBSET Pages
      /\ browserLeft \in 0..BrowserProbes /\ top \in Seq(Pages)
  BY PassTypes DEF DiscoveryInd
<1>2. disabled \subseteq cooling /\ unprobed \subseteq pool
  BY DEF DiscoveryInd, ProviderInv
<1>3. /\ IsFiniteSet(pool) /\ Cardinality(pool) \in Nat
      /\ pool # {} => Cardinality(pool) > 0
      /\ ProbeCount \in Nat /\ MaxCandidates \in Nat \ {0} /\ BrowserProbes \in Nat
  BY Counts DEF DiscoveryInd
<1>4. CASE LocalGivesUp
  <2>1. order = <<>> /\ pass' = "order" /\ UNCHANGED <<passVars, top, cooling>>
    BY <1>4 DEF LocalGivesUp, DiscoveryInd, PassInv
  <2>2. left' \in 0..NoDeadline
    BY <1>1, <1>4, ElapseTime DEF LocalGivesUp
  <2> QED
    BY <1>1, <1>2, <2>1, <2>2, GoesOn DEF passVars
<1>5. ASSUME NEW p \in Pages, LocalFound(p)
      PROVE  DiscoveryInd'
  <2>1. /\ pass' = "found" /\ top' = <<p>> /\ portfolio' = 0 /\ Cleared /\ cooling' = cooling
    BY <1>5 DEF LocalFound
  <2>2. left' \in 0..NoDeadline
    BY <1>1, <1>5, ElapseTime DEF LocalFound
  <2>3. <<p>> \in Seq(Pages) /\ Len(<<p>>) = 1 /\ IsInjective(<<p>>)
    BY DEF IsInjective
  <2>4. Len(top') \in 1..MaxCandidates + 1
    BY <1>3, <2>1, <2>3
  <2> QED
    BY <2>1, <2>2, <2>3, <2>4, ClearedInd
<1>6. CASE Collected
  <2>1. CASE pool = {}
    BY <1>1, <1>6, <2>1, ClearedInd DEF Collected
  <2>2. CASE pool # {}
    <3>1. /\ pass' = "probe" /\ unprobed' \in ProbeSets
          /\ browserLeft' = Smaller(ProbeCount, BrowserProbes)
          /\ UNCHANGED <<portfolio, rounds, order, asking, disabled, answered, pool, left, top, cooling>>
      BY <1>6, <2>2 DEF Collected
    <3>2. unprobed' \subseteq pool
      BY <3>1 DEF ProbeSets
    <3>3. browserLeft' \in 0..BrowserProbes
      BY <1>3, <3>1 DEF Smaller
    <3> QED
      BY <1>1, <1>2, <2>2, <3>1, <3>2, <3>3, GoesOn
  <2> QED
    BY <2>1, <2>2
<1>7. ASSUME NEW p \in Pages, ProbeFails(p) \/ \E got \in LinkSets : Probe(p, got)
      PROVE  DiscoveryInd'
  <2>1. /\ pass' = "probe" /\ unprobed' = unprobed \ {p}
        /\ UNCHANGED <<portfolio, rounds, order, asking, disabled, answered, top, cooling>>
        /\ pass = "probe"
    BY <1>7 DEF ProbeFails, Probe
  <2>2. left' \in 0..NoDeadline
    BY <1>1, <1>7, ElapseTime DEF ProbeFails, Probe
  <2>3. pool' \in SUBSET Pages /\ pool \subseteq pool'
    BY <1>1, <1>7, DiscoveryConstants DEF ProbeFails, Probe
  <2>4. browserLeft' \in 0..BrowserProbes
    BY <1>1, <1>3, <1>7 DEF ProbeFails, Probe
  <2>5. pool' # {}
    BY <2>1, <2>3 DEF DiscoveryInd, PassInv
  <2> QED
    BY <1>1, <1>2, <2>1, <2>2, <2>3, <2>4, <2>5, GoesOn
<1>8. CASE Finish
  <2>1. PICK S \in Chosen, e \in Endpoints : top' \in Sequences(S \cup e)
    BY <1>8 DEF Finish
  <2>2. pool # {}
    BY <1>8 DEF Finish, DiscoveryInd, PassInv
  <2>3. S \subseteq pool /\ Cardinality(S) \in 1..MaxCandidates /\ IsFiniteSet(S)
    BY <1>3, <2>1, <2>2, FS_Subset DEF Chosen, Smaller
  <2>4. e = {} \/ \E p \in Pages : e = {p}
    BY <2>1 DEF Endpoints
  <2>5. /\ S \cup e \subseteq Pages /\ IsFiniteSet(S \cup e)
        /\ Cardinality(S \cup e) \in 1..MaxCandidates + 1
    <3>1. CASE e = {}
      BY <1>1, <1>3, <2>3, <3>1
    <3>2. ASSUME NEW p \in Pages, e = {p}
          PROVE  /\ S \cup e \subseteq Pages /\ IsFiniteSet(S \cup e)
                 /\ Cardinality(S \cup e) \in 1..MaxCandidates + 1
      <4>1. /\ IsFiniteSet(S \cup {p})
            /\ Cardinality(S \cup {p}) = IF p \in S THEN Cardinality(S) ELSE Cardinality(S) + 1
        BY <2>3, FS_AddElement
      <4> QED
        BY <1>1, <1>3, <2>3, <3>2, <4>1
    <3> QED
      BY <2>4, <3>1, <3>2
  <2>6. /\ top' \in Seq(S \cup e) /\ IsInjective(top') /\ Len(top') \in 1..MaxCandidates + 1
    BY <2>1, <2>5, SequencesOf
  <2>7. top' \in Seq(Pages)
    BY <2>5, <2>6, SeqMonotonic
  <2>8. /\ pass' = "found" /\ portfolio' = 0 /\ Cleared /\ cooling' = cooling
    BY <1>8 DEF Finish
  <2>9. left' \in 0..NoDeadline
    BY <1>1, <1>8, ElapseTime DEF Finish
  <2> QED
    BY <2>6, <2>7, <2>8, <2>9, ClearedInd
<1> QED
  BY <1>4, <1>5, <1>6, <1>7, <1>8

\* Every step of a pass keeps what a pass promises.
LEMMA PassInd == DiscoveryInd /\ DiscoveryStep => DiscoveryInd'
BY AskInd, ProbeInd DEF DiscoveryStep

-----------------------------------------------------------------------------
(* The query's own part. *)

Entry == [page : Pages, hard : BOOLEAN, how : Endings]

\* What the invariant says beside the discovery.
QueryPart ==
  /\ QueryTypeOK /\ ServedInv /\ ReadsInv /\ GivesUpInv /\ KeptInv
  /\ FoundInv /\ PlanInv /\ BacklogInv /\ OffInv

\* The invariant, and the part of it that is not the pass's.
LEMMA Parts == QueryInd => DiscoveryInd /\ QueryPart
BY DEF QueryInd, QueryPart

\* The types of what a query keeps, for the provers.
LEMMA QueryTypes ==
  ASSUME QueryTypeOK
  PROVE  /\ qstep \in QuerySteps /\ mode \in Modes
         /\ candidates \in Seq(Pages) /\ kept \in Seq(Pages) /\ plan \in Seq(Pages)
         /\ backlog \in Seq(Pages) /\ start \in Pages \cup {NoPage}
         /\ chosen \in Pages \cup {NoPage} /\ served \in Pages \cup {NoPage}
         /\ readLeft \in 0..NoDeadline /\ reads \in Seq(Entry)
         /\ Len(reads) \in Nat /\ DOMAIN reads = 1..Len(reads)
<1>1. reads \in Seq(Entry)
  BY DEF QueryTypeOK, Entry
<1> QED
  BY <1>1, LenProperties DEF QueryTypeOK

\* And back from them to the type invariant.
LEMMA TypesBack ==
  ASSUME QueryTypeOK, UNCHANGED callerGone, qstep' \in QuerySteps, mode' \in Modes,
         candidates' \in Seq(Pages), kept' \in Seq(Pages), plan' \in Seq(Pages),
         backlog' \in Seq(Pages), start' \in Pages \cup {NoPage},
         chosen' \in Pages \cup {NoPage}, served' \in Pages \cup {NoPage},
         readLeft' \in 0..NoDeadline, reads' \in Seq(Entry)
  PROVE  QueryTypeOK'
BY DEF QueryTypeOK, Entry

Searches == {"prepare", "site", "memory", "web", "rewrite", "again"}

\* A step of the search: nothing has been read yet.
LEMMA SearchStep ==
  ASSUME QueryPart, UNCHANGED callerGone, qstep \in Searches, qstep' \in Searches \cup {"refused", "finalize", "failed"},
         UNCHANGED <<mode, plan, readLeft, backlog, reads, served>>,
         start' \in Pages \cup {NoPage}, candidates' \in Seq(Pages), kept' \in Seq(Pages),
         chosen' \in Pages \cup {NoPage}, FoundInv', OffInv'
  PROVE  QueryPart'
<1>1. /\ qstep \in QuerySteps /\ mode \in Modes /\ plan \in Seq(Pages)
      /\ backlog \in Seq(Pages) /\ served \in Pages \cup {NoPage}
      /\ readLeft \in 0..NoDeadline /\ reads \in Seq(Entry)
  BY QueryTypes DEF QueryPart
<1>2. reads = <<>> /\ served = NoPage /\ DOMAIN reads = {}
  BY <1>1 DEF QueryPart, BacklogInv, Reading, Searches
<1>3. qstep' \in QuerySteps
  BY DEF Searches, QuerySteps
<1>4. QueryTypeOK'
  BY <1>1, <1>3, TypesBack DEF QueryPart
<1>5. ServedInv' /\ ReadsInv' /\ GivesUpInv'
  BY <1>2 DEF ServedInv, ReadsInv, GivesUpInv, Searches
<1>6. KeptInv'
  BY DEF KeptInv, FoundInv
<1>7. PlanInv'
  BY DEF QueryPart, PlanInv, Reading, Searches
<1>8. BacklogInv'
  BY <1>2 DEF BacklogInv, Reading, Searches
<1> QED
  BY <1>4, <1>5, <1>6, <1>7, <1>8 DEF QueryPart

\* The request is prepared: with a seed, without one, or with the web off.
LEMMA PrepareInd ==
  ASSUME QueryInd, UNCHANGED callerGone, NEW memory \in Memories, NEW match \in Stored, Prepare(memory, match)
  PROVE  QueryInd'
<1> USE DEF searchVars, readVars
<1>1. /\ qstep = "prepare" /\ (start # NoPage \/ mode = "web")
      /\ start' = IF Seedless /\ memory = <<>> THEN match ELSE start
      /\ candidates' = IF start' = NoPage THEN memory ELSE <<start'>>
      /\ left' = IF start' = NoPage THEN Rewrite ELSE NoDeadline
      /\ UNCHANGED <<mode, kept, plan, chosen, readLeft, backlog, reads, served>>
  BY DEF Prepare, SeedFromStore
<1>2. start \in Pages \cup {NoPage} /\ kept \in Seq(Pages) /\ chosen \in Pages \cup {NoPage}
      /\ mode \in Modes
  BY QueryTypes, Parts DEF QueryPart
<1>3. /\ Memories \subseteq Seq(Pages) /\ Stored \subseteq Pages \cup {NoPage}
      /\ Modes \subseteq {"off", "site", "web"}
  BY QueryConstants
<1>4. /\ mode = "off" => qstep' = "finalize"
      /\ mode = "site" => qstep' = "site"
      /\ mode = "web" => qstep' = IF start' = NoPage /\ memory # <<>> THEN "memory" ELSE "web"
  BY DEF Prepare
<1>5. start' \in Pages \cup {NoPage} /\ candidates' \in Seq(Pages)
  BY <1>1, <1>2, <1>3
<1>6. qstep' \in {"finalize", "site", "memory", "web"}
  BY <1>2, <1>3, <1>4
<1>7. kept = <<>>
  BY <1>1, Parts DEF QueryPart, FoundInv
<1>8. mode = "off" => start' = start /\ start # NoPage /\ candidates' = <<start'>>
  BY <1>1 DEF Seedless
<1>9. FoundInv'
  <2>1. qstep' \in {"memory", "finalize"} => candidates' # <<>>
    BY <1>1, <1>2, <1>3, <1>4, <1>6, <1>8
  <2> QED
    BY <1>1, <1>6, <1>7, <2>1 DEF FoundInv
<1>10. OffInv'
  BY <1>1, <1>4, <1>8 DEF OffInv
<1>11. QueryPart'
  BY <1>1, <1>2, <1>5, <1>6, <1>9, <1>10, Parts, SearchStep DEF Searches
<1>12. left' \in 0..NoDeadline
  BY <1>1 DEF Rewrite, NoDeadline
<1>13. DiscoveryInd'
  <2>1. CASE qstep' = "web"
    <3>1. Begin(1, start' # NoPage)
      BY <2>1 DEF Prepare
    <3> QED
      BY <1>12, <3>1, BeginInd, Parts
  <2>2. CASE qstep' # "web"
    <3>1. UNCHANGED <<pass, passVars, top, cooling>>
      BY <2>2 DEF Prepare
    <3> QED
      BY <1>12, <3>1, LeftOnly, Parts
  <2> QED
    BY <2>1, <2>2
<1> QED
  BY <1>11, <1>13 DEF QueryInd, QueryPart

\* The steps by which the search ends or goes on, apart from the passes.
LEMMA SearchInd ==
  ASSUME QueryInd, UNCHANGED callerGone,
         \/ Refuse \/ SiteFails \/ MemoryTrusted \/ MemoryEscalates
         \/ WebStands \/ WebEscalates \/ WebFails \/ RewriteFails \/ RewriteFound
         \/ \E r \in Results : MemoryRecovered(r) \/ \E p \in Pages : SiteFound(r, p)
         \/ \E n \in 2..3 : Rewritten(n)
  PROVE  QueryInd'
<1> USE DEF searchVars, readVars
<1>1. /\ start \in Pages \cup {NoPage} /\ candidates \in Seq(Pages) /\ kept \in Seq(Pages)
      /\ chosen \in Pages \cup {NoPage}
  BY QueryTypes, Parts DEF QueryPart
<1>2. DiscoveryInd /\ QueryPart /\ FoundInv /\ OffInv
  BY Parts DEF QueryPart
<1>3. left \in 0..NoDeadline /\ top \in Seq(Pages) /\ (pass = "found" => Len(top) > 0 /\ top # <<>>)
  BY <1>2, PassTypes, EmptySeq DEF DiscoveryInd, ResultInv
<1>5. CASE Refuse
  <2>1. QueryPart'
    BY <1>1, <1>2, <1>5, SearchStep DEF Refuse, Searches, FoundInv, OffInv
  <2>2. DiscoveryInd'
    BY <1>2, <1>3, <1>5, LeftOnly DEF Refuse, discoveryVars
  <2> QED
    BY <2>1, <2>2 DEF QueryInd, QueryPart
<1>6. CASE SiteFails
  <2>1. QueryPart'
    BY <1>1, <1>2, <1>6, SearchStep DEF SiteFails, QueryFails, Searches, FoundInv, OffInv
  <2>2. DiscoveryInd'
    BY <1>2, <1>3, <1>6, LeftOnly, ElapseTime DEF SiteFails, QueryFails
  <2> QED
    BY <2>1, <2>2 DEF QueryInd, QueryPart
<1>7. CASE MemoryTrusted
  <2>1. QueryPart'
    BY <1>1, <1>2, <1>7, SearchStep DEF MemoryTrusted, Searches, FoundInv, OffInv
  <2>2. DiscoveryInd'
    BY <1>2, <1>3, <1>7, LeftOnly, ElapseTime DEF MemoryTrusted
  <2> QED
    BY <2>1, <2>2 DEF QueryInd, QueryPart
<1>8. CASE MemoryEscalates
  <2>1. QueryPart'
    BY <1>1, <1>2, <1>8, SearchStep DEF MemoryEscalates, Searches, FoundInv, OffInv
  <2>2. DiscoveryInd'
    BY <1>2, <1>3, <1>8, BeginInd, ElapseTime DEF MemoryEscalates
  <2> QED
    BY <2>1, <2>2 DEF QueryInd, QueryPart
<1>9. CASE WebStands
  <2>1. QueryPart'
    BY <1>1, <1>2, <1>3, <1>9, SearchStep DEF WebStands, Searches, FoundInv, OffInv
  <2>2. DiscoveryInd'
    BY <1>2, <1>9, TakenInd DEF WebStands
  <2> QED
    BY <2>1, <2>2 DEF QueryInd, QueryPart
<1>10. CASE WebEscalates
  <2>1. QueryPart'
    <3>1. candidates' \in Seq(Pages) /\ kept' \in Seq(Pages) /\ (kept' # <<>> => candidates' # <<>>)
      BY <1>1, <1>3, <1>10, EmptySeq DEF WebEscalates
    <3>2. FoundInv'
      BY <1>10, <3>1 DEF WebEscalates, FoundInv
    <3> QED
      BY <1>1, <1>2, <1>10, <3>1, <3>2, SearchStep DEF WebEscalates, Searches, OffInv
  <2>2. DiscoveryInd'
    BY <1>2, <1>10, TakenInd DEF WebEscalates
  <2> QED
    BY <2>1, <2>2 DEF QueryInd, QueryPart
<1>11. CASE WebFails
  <2>1. QueryPart'
    BY <1>1, <1>2, <1>11, SearchStep DEF WebFails, QueryFails, Searches, FoundInv, OffInv
  <2>2. DiscoveryInd'
    BY <1>2, <1>3, <1>11, LeftOnly DEF WebFails, QueryFails
  <2> QED
    BY <2>1, <2>2 DEF QueryInd, QueryPart
<1>12. CASE RewriteFails
  <2>1. QueryPart'
    <3>1. qstep \in {"rewrite", "again"} /\ qstep' = (IF kept = <<>> THEN "failed" ELSE "finalize")
          /\ UNCHANGED <<searchVars, candidates, kept, readVars>>
      BY <1>12 DEF RewriteFails
    <3>2. FoundInv'
      BY <1>2, <3>1 DEF FoundInv
    <3> QED
      BY <1>1, <1>2, <3>1, <3>2, SearchStep DEF Searches, OffInv
  <2>2. DiscoveryInd'
    <3>1. left' \in 0..NoDeadline
      BY <1>3, <1>12, ElapseTime DEF RewriteFails
    <3> QED
      BY <1>2, <1>12, <3>1, LeftOnly DEF RewriteFails
  <2> QED
    BY <2>1, <2>2 DEF QueryInd, QueryPart
<1>13. CASE RewriteFound
  <2>1. QueryPart'
    <3>1. candidates' \in Seq(Pages) /\ candidates' # <<>>
      BY <1>1, <1>3, <1>13 DEF RewriteFound
    <3> QED
      BY <1>1, <1>2, <1>13, <3>1, SearchStep DEF RewriteFound, Searches, FoundInv, OffInv
  <2>2. DiscoveryInd'
    BY <1>2, <1>13, TakenInd DEF RewriteFound
  <2> QED
    BY <2>1, <2>2 DEF QueryInd, QueryPart
<1>14. ASSUME NEW r \in Results, MemoryRecovered(r)
       PROVE  QueryInd'
  <2>1. QueryPart'
    BY <1>1, <1>2, <1>14, ResultsAre, SearchStep DEF MemoryRecovered, Searches, FoundInv, OffInv
  <2>2. DiscoveryInd'
    BY <1>2, <1>3, <1>14, LeftOnly, ElapseTime DEF MemoryRecovered
  <2> QED
    BY <2>1, <2>2 DEF QueryInd, QueryPart
<1>15. ASSUME NEW r \in Results, NEW p \in Pages, SiteFound(r, p)
       PROVE  QueryInd'
  <2>1. QueryPart'
    <3>1. candidates' \in Seq(Pages) /\ chosen' \in Pages \cup {NoPage}
          /\ (candidates' # <<>> \/ chosen' \in Pages)
      BY <1>1, <1>15, ResultsAre DEF SiteFound
    <3>2. kept' = <<>> /\ qstep = "site" /\ qstep' = "finalize"
      BY <1>2, <1>15 DEF SiteFound, FoundInv
    <3>3. FoundInv' /\ OffInv'
      BY <1>2, <1>15, <3>1, <3>2 DEF SiteFound, FoundInv, OffInv
    <3> QED
      BY <1>1, <1>2, <1>15, <3>1, <3>2, <3>3, SearchStep DEF SiteFound, Searches
  <2>2. DiscoveryInd'
    BY <1>2, <1>3, <1>15, LeftOnly, ElapseTime DEF SiteFound
  <2> QED
    BY <2>1, <2>2 DEF QueryInd, QueryPart
<1>16. ASSUME NEW n \in 2..3, Rewritten(n)
       PROVE  QueryInd'
  <2>1. QueryPart'
    BY <1>1, <1>2, <1>16, SearchStep DEF Rewritten, Searches, FoundInv, OffInv
  <2>2. DiscoveryInd'
    <3>1. n \in Nat /\ Begin(n, FALSE) /\ left' \in 0..NoDeadline
      <4>1. n \in Nat
        OBVIOUS
      <4>2. Begin(n, FALSE) /\ Elapse
        BY <1>16 DEF Rewritten
      <4> QED
        BY <1>3, <4>1, <4>2, ElapseTime
    <3> QED
      BY <1>2, <3>1, BeginInd
  <2> QED
    BY <2>1, <2>2 DEF QueryInd, QueryPart
<1> QED
  BY <1>5, <1>6, <1>7, <1>8, <1>9, <1>10, <1>11, <1>12, <1>13, <1>14, <1>15, <1>16

-----------------------------------------------------------------------------
(* Planning and reading. *)

\* The candidates are finalized into a plan.
LEMMA FinalizeInd ==
  ASSUME QueryInd, UNCHANGED callerGone, Finalize
  PROVE  QueryInd'
<1> USE DEF searchVars
<1> DEFINE S == {candidates[i] : i \in DOMAIN candidates}
<1>1. /\ candidates \in Seq(Pages) /\ backlog \in Seq(Pages) /\ start \in Pages \cup {NoPage}
      /\ chosen \in Pages \cup {NoPage} /\ served \in Pages \cup {NoPage} /\ mode \in Modes
      /\ reads \in Seq(Entry) /\ left \in 0..NoDeadline
  BY QueryTypes, PassTypes, Parts DEF QueryPart, DiscoveryInd
<1>2. FoundInv /\ BacklogInv /\ OffInv
  BY DEF QueryInd
<1>3. /\ qstep = "finalize" /\ qstep' = "read" /\ candidates' = <<>> /\ kept' = <<>>
      /\ UNCHANGED <<discoveryVars, mode, start, backlog, reads, served>>
      /\ plan' \in Sequences(S)
  BY DEF Finalize
<1>4. reads = <<>> /\ served = NoPage /\ DOMAIN reads = {}
  BY <1>1, <1>2, <1>3 DEF BacklogInv, Reading
<1>5. S \subseteq Pages /\ IsFiniteSet(S) /\ (candidates # <<>> => S # {})
  <2>1. \A i \in DOMAIN candidates : candidates[i] \in Pages
    BY <1>1, LenProperties, ElementOfSeq
  <2>2. candidates # <<>> => 1 \in DOMAIN candidates
    BY <1>1, LenProperties, EmptySeq
  <2> QED
    BY <2>1, <2>2, DiscoveryConstants, FS_Subset
<1>6. /\ plan' \in Seq(Pages) /\ IsInjective(plan') /\ ToSet(plan') \subseteq S
      /\ (S # {} => plan' # <<>>) /\ DOMAIN plan' = 1..Len(plan') /\ Len(plan') \in Nat
  <2> HIDE DEF S
  <2>1. /\ plan' \in Seq(S) /\ IsInjective(plan') /\ ToSet(plan') \subseteq S
        /\ (S # {} => plan' # <<>>) /\ DOMAIN plan' = 1..Len(plan') /\ Len(plan') \in Nat
    BY <1>3, <1>5, SequencesOf
  <2>2. plan' \in Seq(Pages)
    BY <1>5, <2>1, SeqMonotonic
  <2> QED
    BY <2>1, <2>2
<1> HIDE DEF S
<1>7. plan' # <<>> => chosen' \in ToSet(plan')
  <2>1. ASSUME plan' # <<>>
        PROVE  chosen' \in ToSet(plan')
    <3>1. chosen' \in {plan'[i] : i \in IF Seedless THEN DOMAIN plan' ELSE {1}}
      BY <2>1 DEF Finalize
    <3>2. 1 \in DOMAIN plan'
      BY <1>6, <2>1, EmptySeq
    <3> QED
      BY <3>1, <3>2 DEF ToSet
  <2> QED
    BY <2>1
<1>8. plan' = <<>> => chosen' = chosen /\ chosen \in Pages
  BY <1>2, <1>3, <1>5, <1>6 DEF Finalize, FoundInv
<1>9. chosen' \in Pages
  BY <1>5, <1>6, <1>7, <1>8
<1>10. mode = "off" => chosen' = start
  <2>1. ASSUME mode = "off"
        PROVE  chosen' = start
    <3>1. candidates = <<start>> /\ ~Seedless
      BY <1>2, <1>3, <2>1 DEF OffInv, Seedless
    <3>2. S = {start} /\ plan' # <<>>
      BY <1>6, <3>1 DEF S
    <3> QED
      BY <1>6, <1>7, <3>2
  <2> QED
    BY <2>1
<1>11. readLeft' \in 0..NoDeadline
  BY DEF Finalize, NoDeadline, Expired, Bounded
<1>12. QueryTypeOK'
  <2>1. candidates' \in Seq(Pages) /\ kept' \in Seq(Pages) /\ qstep' \in QuerySteps
    BY <1>3, EmptySeq DEF QuerySteps
  <2> QED
    BY <1>1, <1>3, <1>6, <1>9, <1>11, <2>1, TypesBack DEF QueryInd
<1>13. ServedInv' /\ ReadsInv' /\ GivesUpInv' /\ KeptInv'
  BY <1>3, <1>4 DEF ServedInv, ReadsInv, GivesUpInv, KeptInv
<1>14. FoundInv' /\ PlanInv' /\ OffInv'
  BY <1>3, <1>6, <1>7, <1>9, <1>10 DEF FoundInv, PlanInv, OffInv
<1>15. BacklogInv'
  BY <1>3, <1>4 DEF BacklogInv, Reading, PagesRead
<1>16. DiscoveryInd'
  BY <1>1, <1>3, LeftOnly, Parts DEF discoveryVars
<1> QED
  BY <1>12, <1>13, <1>14, <1>15, <1>16 DEF QueryInd

\* One more page is read.
LEMMA ReadOne ==
  ASSUME QueryTypeOK, NEW p \in Pages, NEW hard \in BOOLEAN, NEW how \in Endings,
         reads' = Append(reads, [page |-> p, hard |-> hard, how |-> how])
  PROVE  /\ reads' \in Seq(Entry) /\ Len(reads') = Len(reads) + 1
         /\ DOMAIN reads' = 1..(Len(reads) + 1) /\ reads' # <<>>
         /\ reads'[Len(reads) + 1].page = p /\ reads'[Len(reads) + 1].hard = hard
         /\ reads'[Len(reads) + 1].how = how
         /\ \A i \in 1..Len(reads) : reads'[i] = reads[i]
         /\ PagesRead' = PagesRead \cup {p}
<1> DEFINE e == [page |-> p, hard |-> hard, how |-> how]
<1>1. e \in Entry /\ e.page = p /\ e.hard = hard /\ e.how = how
  BY DEF Entry
<1>2. reads \in Seq(Entry) /\ Len(reads) \in Nat /\ DOMAIN reads = 1..Len(reads)
  BY QueryTypes
<1> HIDE DEF e
<1>3. /\ reads' \in Seq(Entry) /\ Len(reads') = Len(reads) + 1 /\ reads' # <<>>
      /\ reads'[Len(reads) + 1] = e /\ \A i \in 1..Len(reads) : reads'[i] = reads[i]
  BY <1>1, <1>2, AppendProperties DEF e
<1>4. DOMAIN reads' = 1..(Len(reads) + 1)
  BY <1>3, LenProperties
<1>5. PagesRead' = PagesRead \cup {p}
  <2>1. \A i \in 1..(Len(reads) + 1) : i \in 1..Len(reads) \/ i = Len(reads) + 1
    BY <1>2
  <2>2. Len(reads) + 1 \in 1..(Len(reads) + 1) /\ 1..Len(reads) \subseteq 1..(Len(reads) + 1)
    BY <1>2
  <2>3. \A x \in PagesRead' : x \in PagesRead \cup {p}
    BY <1>1, <1>2, <1>3, <1>4, <2>1 DEF PagesRead
  <2>4. \A x \in PagesRead \cup {p} : x \in PagesRead'
    BY <1>1, <1>2, <1>3, <1>4, <2>2 DEF PagesRead
  <2> QED
    BY <2>3, <2>4
<1> QED
  BY <1>1, <1>3, <1>4, <1>5

\* A page that has not been read may be read without hardening.
LEMMA ReadsOnce ==
  ASSUME QueryTypeOK, ReadsInv, NEW p \in Pages, NEW how \in Endings, p \notin PagesRead,
         reads' = Append(reads, [page |-> p, hard |-> FALSE, how |-> how])
  PROVE  ReadsInv'
<1> DEFINE n == Len(reads)
<1>1. /\ n \in Nat /\ DOMAIN reads = 1..n /\ DOMAIN reads' = 1..(n + 1)
      /\ reads'[n + 1].page = p /\ ~reads'[n + 1].hard /\ \A i \in 1..n : reads'[i] = reads[i]
  BY QueryTypes, ReadOne
<1> HIDE DEF n
<1>2. \A i \in 1..n : reads[i].page # p
  BY <1>1 DEF PagesRead
<1>3. \A i \in 1..(n + 1) : i \in 1..n \/ i = n + 1
  BY <1>1
<1>4. \A i, j \in 1..(n + 1) :
        reads'[i].page = reads'[j].page /\ reads'[i].hard = reads'[j].hard => i = j
  <2> SUFFICES ASSUME NEW i \in 1..(n + 1), NEW j \in 1..(n + 1),
                      reads'[i].page = reads'[j].page, reads'[i].hard = reads'[j].hard
               PROVE  i = j
    OBVIOUS
  <2>1. CASE i \in 1..n /\ j \in 1..n
    <3>1. reads'[i] = reads[i] /\ reads'[j] = reads[j]
      BY <1>1, <2>1
    <3>2. reads[i].page = reads[j].page /\ reads[i].hard = reads[j].hard
      BY <3>1
    <3> QED
      BY <1>1, <2>1, <3>2 DEF ReadsInv
  <2>2. CASE i = n + 1 /\ j \in 1..n
    BY <1>1, <1>2, <2>2
  <2>3. CASE i \in 1..n /\ j = n + 1
    BY <1>1, <1>2, <2>3
  <2> QED
    BY <1>3, <2>1, <2>2, <2>3
<1>5. \A i \in 1..(n + 1) : reads'[i].hard => i = 2 /\ reads'[1].page = reads'[2].page
  <2> SUFFICES ASSUME NEW i \in 1..(n + 1), reads'[i].hard
               PROVE  i = 2 /\ reads'[1].page = reads'[2].page
    OBVIOUS
  <2>1. i \in 1..n /\ reads[i].hard
    BY <1>1, <1>3
  <2>2. i = 2 /\ reads[1].page = reads[2].page
    BY <1>1, <2>1 DEF ReadsInv
  <2>3. 1 \in 1..n /\ 2 \in 1..n
    BY <1>1, <2>1, <2>2
  <2> QED
    BY <1>1, <2>2, <2>3
<1> QED
  BY <1>1, <1>4, <1>5 DEF ReadsInv

\* The other candidates of a plan.
LEMMA OthersAre ==
  ASSUME QueryTypeOK, PlanInv, NEW p
  PROVE  /\ Others(p) \in Seq(Pages) /\ IsInjective(Others(p))
         /\ ToSet(Others(p)) = ToSet(plan) \ {p}
<1>1. plan \in Seq(Pages) /\ IsInjective(plan)
  BY QueryTypes DEF PlanInv
<1>2. /\ Others(p) \in Seq(ToSet(plan) \ {p}) /\ IsInjective(Others(p))
      /\ ToSet(Others(p)) = ToSet(plan) \ {p}
  BY <1>1, InjectiveRemoveFirst DEF Others
<1>3. ToSet(plan) \ {p} \subseteq Pages
  BY <1>1, LenProperties, ElementOfSeq DEF ToSet
<1> QED
  BY <1>2, <1>3, SeqMonotonic

\* The first of the candidates still to be tried.
LEMMA NextOf ==
  ASSUME QueryTypeOK, backlog # <<>>, IsInjective(backlog)
  PROVE  /\ Head(backlog) \in Pages /\ Head(backlog) \in ToSet(backlog)
         /\ Tail(backlog) \in Seq(Pages) /\ IsInjective(Tail(backlog))
         /\ ToSet(Tail(backlog)) = ToSet(backlog) \ {Head(backlog)}
<1>1. backlog \in Seq(Pages)
  BY QueryTypes
<1>2. Head(backlog) \in Pages /\ Tail(backlog) \in Seq(Pages)
  BY <1>1, HeadTailProperties
<1>3. Head(backlog) \in ToSet(backlog)
  BY <1>1, LenProperties, EmptySeq DEF ToSet
<1> QED
  BY <1>1, <1>2, <1>3, InjectiveTail

\* What every step of the reading leaves alone.
LEMMA ReadingFrame ==
  ASSUME QueryInd, UNCHANGED callerGone, qstep \in Reading, qstep' \in Reading \cup {"done", "failed"},
         UNCHANGED <<pass, passVars, top, cooling, mode, start, candidates, kept, plan>>,
         left' \in 0..NoDeadline, chosen' \in Pages, served' \in Pages \cup {NoPage},
         readLeft' \in 0..NoDeadline, backlog' \in Seq(Pages), reads' \in Seq(Entry)
  PROVE  /\ DiscoveryInd' /\ QueryTypeOK' /\ FoundInv'
         /\ KeptInv'
<1>1. DiscoveryInd'
  BY LeftOnly, Parts
<1>2. QueryTypeOK'
  <2>1. qstep' \in QuerySteps
    BY DEF Reading, QuerySteps
  <2> QED
    BY <2>1, QueryTypes, TypesBack, Parts DEF QueryPart
<1>3. kept = <<>>
  BY DEF QueryInd, FoundInv, Reading
<1>4. FoundInv' /\ KeptInv'
  BY <1>3 DEF FoundInv, KeptInv, Reading
<1> QED
  BY <1>1, <1>2, <1>4

\* The types of a read under the read context.
LEMMA DoReadTypes ==
  ASSUME QueryInd, NEW p \in Pages, NEW hard \in BOOLEAN, NEW how \in Endings,
         DoRead(p, hard, how)
  PROVE  /\ left' \in 0..NoDeadline /\ readLeft' \in 0..NoDeadline
         /\ reads' \in Seq(Entry)
         /\ reads' = Append(reads, [page |-> p, hard |-> hard, how |-> how])
<1>1. left \in 0..NoDeadline /\ readLeft \in 0..NoDeadline /\ QueryTypeOK
  BY QueryTypes, PassTypes, Parts DEF QueryPart, DiscoveryInd
<1>2. left' \in 0..NoDeadline
  BY <1>1, ElapseTime DEF DoRead, ReadElapse
<1>3. readLeft' \in 0..NoDeadline
  BY <1>1 DEF DoRead, ReadElapse, NoDeadline
<1>4. reads' = Append(reads, [page |-> p, hard |-> hard, how |-> how])
  BY DEF DoRead
<1> QED
  BY <1>1, <1>2, <1>3, <1>4, ReadOne

\* The selected page is read; a failed read is hardened or replaced.
LEMMA ReadSelectedInd ==
  ASSUME QueryInd, UNCHANGED callerGone, NEW how \in Endings, ReadSelected(how)
  PROVE  QueryInd'
<1>1. /\ qstep = "read" /\ DoRead(chosen, FALSE, how)
      /\ served' = IF how = "ok" THEN chosen ELSE served
      /\ backlog' = IF how = "ok" THEN <<>> ELSE Others(chosen)
      /\ UNCHANGED <<pass, passVars, top, cooling, mode, start, candidates, kept, plan, chosen>>
  BY DEF ReadSelected, searchVars
<1>2. /\ QueryTypeOK /\ PlanInv /\ BacklogInv /\ OffInv /\ ReadsInv /\ GivesUpInv
      /\ plan \in Seq(Pages) /\ served \in Pages \cup {NoPage}
  BY QueryTypes DEF QueryInd
<1>3. reads = <<>> /\ served = NoPage /\ PagesRead = {} /\ Len(reads) = 0 /\ chosen \in Pages
  BY <1>1, <1>2, EmptySeq DEF BacklogInv, PlanInv, Reading, PagesRead
<1>4. /\ left' \in 0..NoDeadline /\ readLeft' \in 0..NoDeadline /\ reads' \in Seq(Entry)
      /\ reads' = Append(reads, [page |-> chosen, hard |-> FALSE, how |-> how])
  BY <1>1, <1>3, DoReadTypes
<1>5. /\ Len(reads') = 1 /\ DOMAIN reads' = 1..1 /\ reads' # <<>>
      /\ reads'[1].page = chosen /\ ~reads'[1].hard /\ reads'[1].how = how
      /\ PagesRead' = {chosen}
  <2>1. Len(reads) + 1 = 1 /\ PagesRead \cup {chosen} = {chosen}
    BY <1>3
  <2>2. /\ Len(reads') = Len(reads) + 1 /\ DOMAIN reads' = 1..(Len(reads) + 1) /\ reads' # <<>>
        /\ reads'[Len(reads) + 1].page = chosen /\ reads'[Len(reads) + 1].hard = FALSE
        /\ reads'[Len(reads) + 1].how = how /\ PagesRead' = PagesRead \cup {chosen}
    BY <1>2, <1>3, <1>4, ReadOne
  <2> QED
    BY <2>1, <2>2
<1>6. /\ Others(chosen) \in Seq(Pages) /\ IsInjective(Others(chosen))
      /\ ToSet(Others(chosen)) = ToSet(plan) \ {chosen}
  BY <1>2, OthersAre
<1>7. /\ how = "ok" => qstep' = "respond" \/ (qstep' = "review" /\ Seedless)
      /\ how # "ok" /\ (how = "fatal" \/ mode = "off") => qstep' = "failed"
      /\ how # "ok" /\ ~(how = "fatal" \/ mode = "off") => qstep' \in {"fallback", "harden"}
  <2>1. CASE how = "ok"
    <3>1. qstep' \in {"respond"} \cup IF Reviewable THEN {"review"} ELSE {}
      BY <2>1 DEF ReadSelected
    <3> QED
      BY <2>1, <3>1 DEF Reviewable
  <2>2. CASE how # "ok" /\ (how = "fatal" \/ mode = "off")
    <3>1. how # "ok" /\ (how = "fatal" \/ (how # "ok" /\ mode = "off"))
      BY <2>2
    <3>2. qstep' \in {"failed"}
      BY <3>1 DEF ReadSelected
    <3> QED
      BY <2>2, <3>2
  <2>3. CASE how # "ok" /\ ~(how = "fatal" \/ mode = "off")
    <3>1. qstep' \in {"fallback", "harden"}
      BY <2>3 DEF ReadSelected
    <3> QED
      BY <2>3, <3>1
  <2> QED
    BY <2>1, <2>2, <2>3
<1>8. how \in {"ok", "recoverable", "fatal"}
  BY DEF Endings
<1>9. qstep' \in Reading \cup {"failed"}
  BY <1>7, <1>8 DEF Reading
<1>10. backlog' \in Seq(Pages) /\ served' \in Pages \cup {NoPage}
  BY <1>1, <1>3, <1>6, EmptySeq
<1>11. DiscoveryInd' /\ QueryTypeOK' /\ FoundInv' /\ KeptInv'
  BY <1>1, <1>3, <1>4, <1>9, <1>10, ReadingFrame DEF Reading
<1>12. ReadsInv'
  BY <1>2, <1>3, <1>4, ReadsOnce
<1>13. plan # <<>> => chosen \in ToSet(plan)
  BY <1>1, <1>2 DEF PlanInv, Reading
<1>14. PlanInv'
  BY <1>1, <1>2, <1>3, <1>13 DEF PlanInv
<1>15. ServedInv'
  <2>1. ASSUME how = "ok"
        PROVE  ServedInv'
    <3>1. served' = chosen /\ chosen' = chosen /\ plan' = plan
      BY <1>1, <2>1
    <3>2. \E i \in DOMAIN reads' : reads'[i].page = chosen /\ reads'[i].how = "ok"
      BY <1>5, <2>1
    <3>3. plan # <<>> => \E i \in DOMAIN plan : plan[i] = chosen
      BY <1>13 DEF ToSet
    <3> QED
      BY <1>3, <3>1, <3>2, <3>3 DEF ServedInv
  <2>2. ASSUME how # "ok"
        PROVE  ServedInv'
    BY <1>7, <1>8, <2>2 DEF ServedInv
  <2> QED
    BY <2>1, <2>2
<1>16. mode = "off" => chosen = start
  BY <1>1, <1>2 DEF OffInv
<1>17. GivesUpInv'
  <2>1. (mode = "off" => \A i \in DOMAIN reads : reads[i].page = start)'
    BY <1>1, <1>5, <1>16
  <2>2. ASSUME qstep' = "failed", mode' # "off"
        PROVE  reads'[Len(reads')].how = "fatal"
    BY <1>1, <1>5, <1>7, <1>8, <2>2
  <2> QED
    BY <2>1, <2>2 DEF GivesUpInv
<1>18. BacklogInv'
  <2>1. CASE how = "ok"
    BY <1>1, <1>5, <1>7, <2>1 DEF BacklogInv, Reading
  <2>2. CASE how # "ok" /\ qstep' = "failed"
    BY <1>1, <1>3, <2>2 DEF BacklogInv, Reading
  <2>3. CASE how # "ok" /\ qstep' \in {"fallback", "harden"}
    <3>1. backlog' = Others(chosen) /\ served' = NoPage /\ plan' = plan /\ chosen' = chosen
      BY <1>1, <1>3, <2>3
    <3>2. /\ IsInjective(backlog') /\ ToSet(backlog') \subseteq ToSet(plan') \ PagesRead'
          /\ ToSet(plan') \subseteq PagesRead' \cup ToSet(backlog')
      BY <1>5, <1>6, <3>1
    <3> QED
      BY <1>5, <2>3, <3>1, <3>2 DEF BacklogInv, Reading
  <2> QED
    BY <1>7, <1>8, <2>1, <2>2, <2>3
<1>19. OffInv'
  BY <1>1, <1>7, <1>8 DEF OffInv, Seedless
<1> QED
  BY <1>11, <1>12, <1>14, <1>15, <1>17, <1>18, <1>19 DEF QueryInd

\* The page is read once more, with rendering.
LEMMA HardenInd ==
  ASSUME QueryInd, UNCHANGED callerGone, NEW how \in Endings, Harden(how)
  PROVE  QueryInd'
<1>1. /\ qstep = "harden" /\ DoRead(chosen, TRUE, how)
      /\ served' = IF how = "ok" THEN chosen ELSE served
      /\ qstep' = IF how = "ok" THEN "respond" ELSE "fallback"
      /\ UNCHANGED <<pass, passVars, top, cooling, mode, start, candidates, kept, plan, chosen,
                     backlog>>
  BY DEF Harden, searchVars
<1>2. /\ QueryTypeOK /\ PlanInv /\ BacklogInv /\ OffInv /\ GivesUpInv
      /\ backlog \in Seq(Pages) /\ served \in Pages \cup {NoPage}
  BY QueryTypes DEF QueryInd
<1>3. /\ Len(reads) = 1 /\ DOMAIN reads = 1..1 /\ reads[1].page = chosen /\ ~reads[1].hard
      /\ served = NoPage /\ chosen \in Pages /\ mode # "off"
  BY <1>1, <1>2, QueryTypes DEF BacklogInv, PlanInv, OffInv, Reading
<1>4. /\ left' \in 0..NoDeadline /\ readLeft' \in 0..NoDeadline /\ reads' \in Seq(Entry)
      /\ reads' = Append(reads, [page |-> chosen, hard |-> TRUE, how |-> how])
  BY <1>1, <1>3, DoReadTypes
<1>5. /\ DOMAIN reads' = 1..2 /\ reads'[2].page = chosen /\ reads'[2].hard
      /\ reads'[2].how = how /\ reads'[1] = reads[1] /\ PagesRead' = PagesRead \cup {chosen}
      /\ reads' # <<>>
  <2>1. Len(reads) + 1 = 2 /\ 1 \in 1..Len(reads)
    BY <1>3
  <2>2. /\ DOMAIN reads' = 1..(Len(reads) + 1) /\ reads' # <<>>
        /\ reads'[Len(reads) + 1].page = chosen /\ reads'[Len(reads) + 1].hard = TRUE
        /\ reads'[Len(reads) + 1].how = how /\ \A i \in 1..Len(reads) : reads'[i] = reads[i]
        /\ PagesRead' = PagesRead \cup {chosen}
    BY <1>2, <1>3, <1>4, ReadOne
  <2> QED
    BY <2>1, <2>2
<1>6. PagesRead' = PagesRead
  BY <1>3, <1>5 DEF PagesRead
<1>7. qstep' \in {"respond", "fallback"} /\ served' \in Pages \cup {NoPage}
  BY <1>1, <1>2, <1>3
<1>8. DiscoveryInd' /\ QueryTypeOK' /\ FoundInv' /\ KeptInv'
  BY <1>1, <1>2, <1>3, <1>4, <1>7, ReadingFrame DEF Reading
<1>9. ReadsInv'
  <2>1. \A i \in 1..2 : i = 1 \/ i = 2
    OBVIOUS
  <2>2. ~reads'[1].hard /\ reads'[2].hard /\ reads'[1].page = reads'[2].page
    BY <1>3, <1>5
  <2> QED
    BY <1>5, <2>1, <2>2 DEF ReadsInv
<1>10. plan # <<>> => chosen \in ToSet(plan)
  BY <1>1, <1>2 DEF PlanInv, Reading
<1>11. PlanInv'
  BY <1>1, <1>2, <1>3, <1>10 DEF PlanInv
<1>12. ServedInv'
  <2>1. ASSUME how = "ok"
        PROVE  ServedInv'
    <3>1. served' = chosen /\ chosen' = chosen /\ plan' = plan
      BY <1>1, <2>1
    <3>2. \E i \in DOMAIN reads' : reads'[i].page = chosen /\ reads'[i].how = "ok"
      BY <1>5, <2>1
    <3>3. plan # <<>> => \E i \in DOMAIN plan : plan[i] = chosen
      BY <1>10 DEF ToSet
    <3> QED
      BY <1>3, <3>1, <3>2, <3>3 DEF ServedInv
  <2>2. ASSUME how # "ok"
        PROVE  ServedInv'
    BY <1>1, <2>2 DEF ServedInv
  <2> QED
    BY <2>1, <2>2
<1>13. GivesUpInv' /\ OffInv'
  BY <1>1, <1>3 DEF GivesUpInv, OffInv
<1>14. BacklogInv'
  <2>1. CASE how = "ok"
    BY <1>1, <2>1 DEF BacklogInv, Reading
  <2>2. CASE how # "ok"
    <3>1. /\ IsInjective(backlog) /\ ToSet(backlog) \subseteq ToSet(plan) \ PagesRead
          /\ ToSet(plan) \subseteq PagesRead \cup ToSet(backlog)
      BY <1>1, <1>2 DEF BacklogInv
    <3> QED
      BY <1>1, <1>3, <1>6, <2>2, <3>1 DEF BacklogInv, Reading
  <2> QED
    BY <2>1, <2>2
<1> QED
  BY <1>8, <1>9, <1>11, <1>12, <1>13, <1>14 DEF QueryInd

\* The candidates left are tried one after the other.
LEMMA FallbackInd ==
  ASSUME QueryInd, UNCHANGED callerGone, NEW how \in Endings, Fallback(how)
  PROVE  QueryInd'
<1> DEFINE p == Head(backlog)
<1>1. /\ qstep = "fallback" /\ backlog # <<>> /\ DoRead(p, FALSE, how)
      /\ backlog' = Tail(backlog)
      /\ UNCHANGED <<pass, passVars, top, cooling, mode, start, candidates, kept, plan>>
  BY DEF Fallback, searchVars
<1>2. /\ QueryTypeOK /\ PlanInv /\ BacklogInv /\ OffInv /\ ReadsInv /\ GivesUpInv
      /\ plan \in Seq(Pages) /\ Len(reads) \in Nat /\ DOMAIN reads = 1..Len(reads)
  BY QueryTypes DEF QueryInd
<1>3. /\ IsInjective(backlog) /\ ToSet(backlog) \subseteq ToSet(plan) \ PagesRead
      /\ ToSet(plan) \subseteq PagesRead \cup ToSet(backlog)
      /\ served = NoPage /\ mode # "off" /\ chosen \in Pages
      /\ (plan # <<>> => chosen \in ToSet(plan)) /\ IsInjective(plan)
  BY <1>1, <1>2 DEF BacklogInv, OffInv, PlanInv, Reading
<1>4. /\ p \in Pages /\ p \in ToSet(backlog) /\ Tail(backlog) \in Seq(Pages)
      /\ IsInjective(Tail(backlog)) /\ ToSet(Tail(backlog)) = ToSet(backlog) \ {p}
  BY <1>1, <1>2, <1>3, NextOf
<1> HIDE DEF p
<1>5. /\ left' \in 0..NoDeadline /\ readLeft' \in 0..NoDeadline /\ reads' \in Seq(Entry)
      /\ reads' = Append(reads, [page |-> p, hard |-> FALSE, how |-> how])
  BY <1>1, <1>4, DoReadTypes
<1>6. /\ Len(reads') = Len(reads) + 1 /\ DOMAIN reads' = 1..(Len(reads) + 1) /\ reads' # <<>>
      /\ reads'[Len(reads) + 1].page = p /\ reads'[Len(reads) + 1].how = how
      /\ PagesRead' = PagesRead \cup {p} /\ Len(reads) + 1 \in 1..(Len(reads) + 1)
  <2>1. Len(reads) + 1 \in 1..(Len(reads) + 1)
    BY <1>2
  <2>2. /\ Len(reads') = Len(reads) + 1 /\ DOMAIN reads' = 1..(Len(reads) + 1) /\ reads' # <<>>
        /\ reads'[Len(reads) + 1].page = p /\ reads'[Len(reads) + 1].how = how
        /\ PagesRead' = PagesRead \cup {p}
    BY <1>2, <1>4, <1>5, ReadOne
  <2> QED
    BY <2>1, <2>2
<1>7. /\ how = "ok" => chosen' = p /\ served' = p /\ qstep' = "respond"
      /\ how # "ok" => chosen' = chosen /\ served' = NoPage
      /\ how = "fatal" => qstep' = "failed"
      /\ how # "ok" /\ how # "fatal" => qstep' = "fallback"
  BY <1>3 DEF Fallback, p
<1>8. qstep' \in Reading \cup {"failed"} /\ chosen' \in Pages /\ served' \in Pages \cup {NoPage}
  BY <1>3, <1>4, <1>7 DEF Reading
<1>9. DiscoveryInd' /\ QueryTypeOK' /\ FoundInv' /\ KeptInv'
  BY <1>1, <1>4, <1>5, <1>8, ReadingFrame DEF Reading
<1>10. ReadsInv'
  BY <1>2, <1>3, <1>4, <1>5, ReadsOnce
<1>11. plan # <<>> => chosen' \in ToSet(plan)
  BY <1>3, <1>4, <1>7
<1>12. PlanInv'
  BY <1>1, <1>3, <1>8, <1>11 DEF PlanInv
<1>13. ServedInv'
  <2>1. ASSUME how = "ok"
        PROVE  ServedInv'
    <3>1. \E i \in DOMAIN reads' : reads'[i].page = p /\ reads'[i].how = "ok"
      BY <1>6, <2>1
    <3>2. plan' # <<>> => \E i \in DOMAIN plan' : plan'[i] = p
      BY <1>1, <1>7, <1>11, <2>1 DEF ToSet
    <3> QED
      BY <1>4, <1>7, <2>1, <3>1, <3>2 DEF ServedInv
  <2>2. ASSUME how # "ok"
        PROVE  ServedInv'
    BY <1>7, <2>2 DEF ServedInv
  <2> QED
    BY <2>1, <2>2
<1>14. GivesUpInv' /\ OffInv'
  <2>1. ASSUME qstep' = "failed"
        PROVE  reads'[Len(reads')].how = "fatal"
    BY <1>6, <1>7, <2>1
  <2> QED
    BY <1>1, <1>3, <2>1 DEF GivesUpInv, OffInv
<1>15. BacklogInv'
  <2>1. CASE how = "ok" \/ how = "fatal"
    BY <1>6, <1>7, <2>1 DEF BacklogInv, Reading
  <2>2. CASE how # "ok" /\ how # "fatal"
    <3>1. /\ IsInjective(backlog') /\ ToSet(backlog') \subseteq ToSet(plan') \ PagesRead'
          /\ ToSet(plan') \subseteq PagesRead' \cup ToSet(backlog')
      BY <1>1, <1>3, <1>4, <1>6
    <3> QED
      BY <1>7, <2>2, <3>1 DEF BacklogInv, Reading
  <2> QED
    BY <2>1, <2>2
<1> QED
  BY <1>9, <1>10, <1>12, <1>13, <1>14, <1>15 DEF QueryInd

\* A query gives up when no candidate is left.
LEMMA GiveUpInd ==
  ASSUME QueryInd, UNCHANGED callerGone, GiveUp
  PROVE  QueryInd'
<1>1. /\ qstep = "fallback" /\ qstep' = "failed"
      /\ (backlog = <<>> \/ readLeft = Expired \/ callerGone)
      /\ UNCHANGED <<pass, passVars, top, cooling, left, mode, start, candidates, kept, plan,
                     chosen, readLeft, backlog, reads, served>>
  BY DEF GiveUp, QueryFails, searchVars, readVars
<1>2. /\ QueryTypeOK /\ PlanInv /\ BacklogInv /\ OffInv /\ ReadsInv /\ GivesUpInv
      /\ served \in Pages \cup {NoPage} /\ readLeft \in 0..NoDeadline /\ reads \in Seq(Entry)
      /\ backlog \in Seq(Pages) /\ left \in 0..NoDeadline
  BY QueryTypes, PassTypes DEF QueryInd, DiscoveryInd
<1>3. /\ ToSet(plan) \subseteq PagesRead \cup ToSet(backlog) /\ mode # "off" /\ chosen \in Pages
  BY <1>1, <1>2 DEF BacklogInv, OffInv, PlanInv, Reading
<1>4. DiscoveryInd' /\ QueryTypeOK' /\ FoundInv' /\ KeptInv'
  BY <1>1, <1>2, <1>3, ReadingFrame DEF Reading
<1>5. ServedInv' /\ ReadsInv' /\ PlanInv' /\ BacklogInv' /\ OffInv'
  BY <1>1, <1>2, <1>3 DEF ServedInv, ReadsInv, PlanInv, BacklogInv, OffInv, Reading
<1>6. backlog = <<>> => \A i \in DOMAIN plan : \E j \in DOMAIN reads : reads[j].page = plan[i]
  <2>1. ASSUME backlog = <<>>, NEW i \in DOMAIN plan
        PROVE  \E j \in DOMAIN reads : reads[j].page = plan[i]
    <3>1. ToSet(backlog) = {}
      BY <2>1 DEF ToSet
    <3>2. plan[i] \in PagesRead
      BY <1>3, <3>1 DEF ToSet
    <3> QED
      BY <3>2 DEF PagesRead
  <2> QED
    BY <2>1
<1>7. GivesUpInv'
  BY <1>1, <1>3, <1>6 DEF GivesUpInv
<1> QED
  BY <1>4, <1>5, <1>7 DEF QueryInd

\* What is known once a page has been read with success.
LEMMA ServedFacts ==
  ASSUME QueryInd, qstep \in {"review", "challenge", "respond"}
  PROVE  /\ QueryTypeOK /\ PlanInv /\ BacklogInv /\ ReadsInv /\ GivesUpInv /\ OffInv
         /\ served = chosen /\ served \in Pages /\ served # NoPage
         /\ \E i \in DOMAIN reads : reads[i].page = served /\ reads[i].how = "ok"
         /\ plan # <<>> => \E i \in DOMAIN plan : plan[i] = served
         /\ plan \in Seq(Pages) /\ backlog \in Seq(Pages) /\ reads \in Seq(Entry)
         /\ Len(reads) \in Nat /\ DOMAIN reads = 1..Len(reads)
         /\ readLeft \in 0..NoDeadline /\ left \in 0..NoDeadline
BY QueryTypes, PassTypes, QueryConstants DEF QueryInd, DiscoveryInd, ServedInv

\* The page read is compared with the challengers the review found.
LEMMA ReviewInd ==
  ASSUME QueryInd, UNCHANGED callerGone, KeepSelected \/ Deliver \/ \E r \in Results : Challenge(r)
  PROVE  QueryInd'
<1>1. /\ qstep \in {"review", "challenge", "respond"}
      /\ UNCHANGED <<pass, passVars, top, cooling, mode, start, candidates, kept, plan,
                     chosen, readLeft, reads, served>>
  BY DEF KeepSelected, Deliver, Challenge, searchVars, readVars, discoveryVars
<1>2. /\ QueryTypeOK /\ PlanInv /\ BacklogInv /\ ReadsInv /\ GivesUpInv /\ OffInv
      /\ served = chosen /\ served \in Pages /\ served # NoPage
      /\ \E i \in DOMAIN reads : reads[i].page = served /\ reads[i].how = "ok"
      /\ plan # <<>> => \E i \in DOMAIN plan : plan[i] = served
      /\ plan \in Seq(Pages) /\ backlog \in Seq(Pages) /\ reads \in Seq(Entry)
      /\ readLeft \in 0..NoDeadline /\ left \in 0..NoDeadline
  BY <1>1, ServedFacts
<1>3. left' \in 0..NoDeadline
  BY <1>2, ElapseTime DEF KeepSelected, Deliver, Challenge, discoveryVars
<1>4. qstep' \in {"respond", "challenge", "done", "failed"} /\ backlog' \in Seq(Pages)
  BY <1>2, ResultsAre DEF KeepSelected, Deliver, Challenge, readVars
<1>5. DiscoveryInd' /\ QueryTypeOK' /\ FoundInv' /\ KeptInv'
  BY <1>1, <1>2, <1>3, <1>4, ReadingFrame DEF Reading
<1>6. ServedInv'
  BY <1>1, <1>2 DEF ServedInv
<1>7. ReadsInv' /\ PlanInv'
  BY <1>1, <1>2, <1>4 DEF ReadsInv, PlanInv, Reading
<1>8. GivesUpInv'
  BY <1>1, <1>2 DEF GivesUpInv
<1>9. qstep' = "challenge" => qstep = "review"
  BY DEF KeepSelected, Deliver, Challenge
<1>10. OffInv'
  BY <1>1, <1>2, <1>4, <1>9 DEF OffInv
<1>11. qstep' = "challenge" =>
         IsInjective(backlog') /\ ToSet(backlog') \subseteq ToSet(plan) \ PagesRead
  <2>1. ASSUME qstep' = "challenge"
        PROVE  IsInjective(backlog') /\ ToSet(backlog') \subseteq ToSet(plan) \ PagesRead
    <3>1. PICK r \in Results : Challenge(r)
      BY <2>1 DEF KeepSelected, Deliver
    <3>2. backlog' = r /\ IsInjective(r)
      BY <3>1, ResultsAre DEF Challenge
    <3>3. PagesRead \subseteq {chosen}
      BY <1>2, <1>9, <2>1 DEF BacklogInv
    <3>4. \A i \in DOMAIN r : r[i] # chosen /\ \E j \in DOMAIN plan : r[i] = plan[j]
      BY <3>1 DEF Challenge
    <3>5. ToSet(r) \subseteq ToSet(plan) \ PagesRead
      BY <3>3, <3>4 DEF ToSet
    <3> QED
      BY <3>2, <3>5
  <2> QED
    BY <2>1
<1>12. BacklogInv'
  BY <1>1, <1>4, <1>11 DEF BacklogInv, Reading, PagesRead
<1> QED
  BY <1>5, <1>6, <1>7, <1>8, <1>10, <1>12 DEF QueryInd

\* A challenger is read and may replace the page.
LEMMA ReadChallengerInd ==
  ASSUME QueryInd, UNCHANGED callerGone, NEW how \in Endings, NEW beats \in BOOLEAN, ReadChallenger(how, beats)
  PROVE  QueryInd'
<1> DEFINE p == Head(backlog)
<1>1. /\ qstep = "challenge" /\ backlog # <<>> /\ Elapse /\ (beats => how = "ok")
      /\ reads' = Append(reads, [page |-> p, hard |-> FALSE, how |-> how])
      /\ backlog' = Tail(backlog)
      /\ UNCHANGED <<pass, passVars, top, cooling, mode, start, candidates, kept, plan, readLeft>>
  BY DEF ReadChallenger, searchVars
<1>2. /\ beats => chosen' = p /\ served' = p /\ qstep' = "respond"
      /\ ~beats => chosen' = chosen /\ served' = served /\ qstep' = "challenge"
  BY <1>1 DEF ReadChallenger
<1>3. /\ QueryTypeOK /\ PlanInv /\ BacklogInv /\ ReadsInv /\ GivesUpInv /\ OffInv
      /\ served = chosen /\ served \in Pages /\ served # NoPage
      /\ \E i \in DOMAIN reads : reads[i].page = served /\ reads[i].how = "ok"
      /\ plan # <<>> => \E i \in DOMAIN plan : plan[i] = served
      /\ plan \in Seq(Pages) /\ backlog \in Seq(Pages) /\ reads \in Seq(Entry)
      /\ Len(reads) \in Nat /\ DOMAIN reads = 1..Len(reads)
      /\ readLeft \in 0..NoDeadline /\ left \in 0..NoDeadline
  BY <1>1, ServedFacts
<1>4. IsInjective(backlog) /\ ToSet(backlog) \subseteq ToSet(plan) \ PagesRead /\ mode # "off"
  BY <1>1, <1>3 DEF BacklogInv, OffInv
<1>5. /\ p \in Pages /\ p \in ToSet(backlog) /\ Tail(backlog) \in Seq(Pages)
      /\ IsInjective(Tail(backlog)) /\ ToSet(Tail(backlog)) = ToSet(backlog) \ {p}
  BY <1>1, <1>3, <1>4, NextOf
<1> HIDE DEF p
<1>6. /\ reads' \in Seq(Entry) /\ DOMAIN reads' = 1..(Len(reads) + 1)
      /\ reads'[Len(reads) + 1].page = p /\ reads'[Len(reads) + 1].how = how
      /\ \A i \in 1..Len(reads) : reads'[i] = reads[i]
      /\ PagesRead' = PagesRead \cup {p}
  BY <1>1, <1>3, <1>5, ReadOne
<1>7. left' \in 0..NoDeadline
  BY <1>1, <1>3, ElapseTime
<1>8. qstep' \in {"challenge", "respond"} /\ chosen' \in Pages /\ served' \in Pages
      /\ served' # NoPage /\ served' = chosen'
  BY <1>2, <1>3, <1>5, QueryConstants
<1>9. DiscoveryInd' /\ QueryTypeOK' /\ FoundInv' /\ KeptInv'
  BY <1>1, <1>3, <1>5, <1>6, <1>7, <1>8, ReadingFrame DEF Reading
<1>10. ReadsInv'
  BY <1>1, <1>3, <1>4, <1>5, ReadsOnce
<1>11. \E i \in DOMAIN plan : plan[i] = served'
  <2>1. CASE beats
    BY <1>2, <1>4, <1>5, <2>1 DEF ToSet
  <2>2. CASE ~beats
    <3>1. plan # <<>>
      BY <1>4, <1>5 DEF ToSet
    <3> QED
      BY <1>2, <1>3, <2>2, <3>1
  <2> QED
    BY <2>1, <2>2
<1>12. PlanInv'
  BY <1>1, <1>3, <1>8, <1>11 DEF PlanInv, ToSet
<1>13. \E i \in DOMAIN reads' : reads'[i].page = served' /\ reads'[i].how = "ok"
  <2>1. CASE beats
    <3>1. Len(reads) + 1 \in DOMAIN reads'
      BY <1>3, <1>6
    <3> QED
      BY <1>1, <1>2, <1>6, <2>1, <3>1
  <2>2. CASE ~beats
    <3>1. PICK i \in 1..Len(reads) : reads[i].page = served /\ reads[i].how = "ok"
      BY <1>3
    <3>2. i \in DOMAIN reads'
      BY <1>3, <1>6
    <3> QED
      BY <1>2, <1>6, <2>2, <3>1, <3>2
  <2> QED
    BY <2>1, <2>2
<1>14. ServedInv'
  BY <1>1, <1>8, <1>11, <1>13 DEF ServedInv
<1>15. GivesUpInv' /\ OffInv'
  BY <1>1, <1>4, <1>8 DEF GivesUpInv, OffInv
<1>16. BacklogInv'
  <2>1. IsInjective(backlog') /\ ToSet(backlog') \subseteq ToSet(plan') \ PagesRead'
    BY <1>1, <1>4, <1>5, <1>6
  <2> QED
    BY <1>8, <2>1 DEF BacklogInv, Reading
<1> QED
  BY <1>9, <1>10, <1>12, <1>14, <1>15, <1>16 DEF QueryInd

-----------------------------------------------------------------------------
\* Initially nothing has been read or found.
LEMMA QueryStart == QueryInit => QueryInd
<1> SUFFICES ASSUME QueryInit
             PROVE  QueryInd
  OBVIOUS
<1>1. /\ <<>> \in Seq(Providers) /\ <<>> \in Seq(Pages) /\ <<>> \in Seq(Entry)
      /\ Len(<<>>) = 0 /\ DOMAIN <<>> = {} /\ IsInjective(<<>>)
  BY EmptySeq DEF IsInjective
<1>2. DiscoveryInd
  <2>1. BrowserProbes \in Nat
    BY DiscoveryConstants
  <2>2. DiscoveryTypeOK
    BY <1>1, <2>1 DEF QueryInit, DiscoveryTypeOK, NoDeadline
  <2>3. ResultInv /\ ProviderInv /\ PassInv
    BY DEF QueryInit, ResultInv, ProviderInv, PassInv
  <2> QED
    BY <2>2, <2>3 DEF DiscoveryInd
<1>3. QueryTypeOK
  <2>1. start \in Pages \cup {NoPage} /\ mode \in Modes
    BY QueryConstants DEF QueryInit
  <2>2. /\ candidates = <<>> /\ kept = <<>> /\ plan = <<>> /\ backlog = <<>> /\ reads = <<>>
        /\ chosen = NoPage /\ served = NoPage /\ readLeft = NoDeadline /\ qstep = "prepare"
    BY DEF QueryInit
  <2>3. callerGone \in BOOLEAN
    BY DEF QueryInit
  <2>4. /\ start \in Pages \cup {NoPage} /\ mode \in Modes /\ qstep \in QuerySteps
        /\ {candidates, kept, plan, backlog} \subseteq Seq(Pages)
        /\ {start, chosen, served} \subseteq Pages \cup {NoPage}
        /\ readLeft \in 0..NoDeadline /\ reads \in Seq(Entry)
    BY <1>1, <2>1, <2>2 DEF QuerySteps, NoDeadline
  <2> QED
    BY <2>3, <2>4 DEF QueryTypeOK, Entry
<1>4. ServedInv /\ ReadsInv /\ GivesUpInv /\ KeptInv
  BY <1>1 DEF QueryInit, ServedInv, ReadsInv, GivesUpInv, KeptInv
<1>5. FoundInv /\ PlanInv /\ BacklogInv /\ OffInv
  BY <1>1 DEF QueryInit, FoundInv, PlanInv, BacklogInv, OffInv, Reading
<1> QED
  BY <1>2, <1>3, <1>4, <1>5 DEF QueryInd

\* A step of a pass is none of the query's.
LEMMA QueryFrame ==
  ASSUME QueryInd, UNCHANGED <<qstep, callerGone, mode, start, candidates, kept, plan, chosen,
                               readLeft, backlog, reads, served>>
  PROVE  /\ QueryTypeOK' /\ ServedInv' /\ ReadsInv' /\ GivesUpInv' /\ KeptInv'
         /\ FoundInv' /\ PlanInv' /\ BacklogInv' /\ OffInv'
<1>1. QueryTypeOK'
  BY DEF QueryInd, QueryTypeOK
<1>2. ServedInv' /\ ReadsInv'
  BY DEF QueryInd, ServedInv, ReadsInv
<1>3. GivesUpInv' /\ KeptInv'
  BY DEF QueryInd, GivesUpInv, KeptInv
<1>4. FoundInv' /\ PlanInv' /\ OffInv'
  BY DEF QueryInd, FoundInv, PlanInv, OffInv
<1>5. BacklogInv'
  BY DEF QueryInd, BacklogInv, PagesRead
<1> QED
  BY <1>1, <1>2, <1>3, <1>4, <1>5

\* A step of the pass is a step of the query.
LEMMA PassStepInd ==
  ASSUME QueryInd, UNCHANGED callerGone, DiscoveryStep,
         UNCHANGED <<qstep, searchVars, candidates, kept, readVars>>
  PROVE  QueryInd'
<1>1. DiscoveryInd'
  BY PassInd DEF QueryInd
<1> QED
  BY <1>1, QueryFrame DEF QueryInd, searchVars, readVars

\* Nothing changes.
LEMMA QueryStutter == QueryInd /\ UNCHANGED queryVars => QueryInd'
<1> SUFFICES ASSUME QueryInd, UNCHANGED queryVars
             PROVE  QueryInd'
  OBVIOUS
<1>1. DiscoveryInd'
  BY LeftOnly, PassTypes DEF QueryInd, DiscoveryInd, queryVars, discoveryVars
<1> QED
  BY <1>1, QueryFrame DEF QueryInd, queryVars, searchVars, readVars

\* Every step of the query.
LEMMA QueryProceedsInd ==
  ASSUME QueryInd, UNCHANGED callerGone, QueryProceeds
  PROVE  QueryInd'
<1>1. ASSUME \/ Refuse \/ SiteFails \/ MemoryTrusted \/ MemoryEscalates
             \/ WebStands \/ WebEscalates \/ WebFails \/ RewriteFails \/ RewriteFound
             \/ \E r \in Results : MemoryRecovered(r) \/ \E p \in Pages : SiteFound(r, p)
             \/ \E n \in 2..3 : Rewritten(n)
      PROVE  QueryInd'
  BY <1>1, SearchInd
<1>2. ASSUME KeepSelected \/ Deliver \/ \E r \in Results : Challenge(r)
      PROVE  QueryInd'
  BY <1>2, ReviewInd
<1>3. ASSUME NEW how \in Endings,
             \/ ReadSelected(how) \/ Harden(how) \/ Fallback(how)
             \/ \E beats \in BOOLEAN : ReadChallenger(how, beats)
      PROVE  QueryInd'
  BY <1>3, ReadSelectedInd, HardenInd, FallbackInd, ReadChallengerInd
<1> QED
  BY <1>1, <1>2, <1>3, PrepareInd, FinalizeInd, GiveUpInd, PassStepInd DEF QueryProceeds

\* The caller cancels: only a query that has failed must say why, and that
\* one has ended.
LEMMA CallerCancelsInd ==
  ASSUME QueryInd, CallerCancels
  PROVE  QueryInd'
<1>1. /\ qstep \notin {"refused", "done", "failed"} /\ callerGone' = TRUE
      /\ UNCHANGED <<discoveryVars, qstep, mode, start, candidates, kept, plan, chosen,
                     readLeft, backlog, reads, served>>
  BY DEF CallerCancels, QueryEnded, searchVars, readVars
<1>2. DiscoveryInd'
  BY <1>1, LeftOnly, PassTypes DEF QueryInd, DiscoveryInd, discoveryVars
<1>3. QueryTypeOK' /\ ServedInv' /\ ReadsInv'
  BY <1>1 DEF QueryInd, QueryTypeOK, ServedInv, ReadsInv
<1>4. GivesUpInv' /\ KeptInv'
  BY <1>1 DEF QueryInd, GivesUpInv, KeptInv
<1>5. FoundInv' /\ PlanInv' /\ OffInv'
  BY <1>1 DEF QueryInd, FoundInv, PlanInv, OffInv
<1>6. BacklogInv'
  BY <1>1 DEF QueryInd, BacklogInv, PagesRead
<1> QED
  BY <1>2, <1>3, <1>4, <1>5, <1>6 DEF QueryInd

\* Every step of the query, of its caller, and none.
LEMMA QueryStep == QueryInd /\ [QueryNext]_queryVars => QueryInd'
BY QueryProceedsInd, CallerCancelsInd, QueryStutter DEF QueryNext

\* A query serves a page that was read with success and follows the plan,
\* reads no page twice but for the hardened retry, gives up only for a
\* reason, and never loses what its first search found.
THEOREM QueryInvariance == QuerySpec => []QueryInd
<1> QED
  BY QueryStart, QueryStep, PTL DEF QuerySpec

(***************************************************************************)
(* Proofs about Downloads: whatever is served, refused, cut off, cancelled *)
(* or killed, DownloadInd holds.                                           *)
(*                                                                         *)
(* Inductive are, for each download, the room it has left together with    *)
(* the running totals of the files it has written (LimitOK), and who owns  *)
(* its directory from its creation to its removal (StageOK, GoneOK).  The  *)
(* first lemmas are about the running totals.                              *)
(***************************************************************************)

\* The totals of a list of files add up, file by file.
LEMMA TotalsAre ==
  ASSUME NEW s \in Seq(SavedFiles)
  PROVE  /\ Totals(s) \in [0..Len(s) -> Nat] /\ Totals(s)[0] = 0
         /\ \A i \in 1..Len(s) : Totals(s)[i] = Totals(s)[i-1] + s[i].bytes
<1> DEFINE Adds(t, n) == /\ t \in [0..n -> Nat] /\ t[0] = 0
                         /\ \A i \in 1..n : t[i] = t[i-1] + s[i].bytes
           T == {m \in Nat : m <= Len(s) /\ ~(\E t : Adds(t, m))}
<1>1. Len(s) \in Nat /\ \A i \in 1..Len(s) : s[i].bytes \in Nat
  <2>1. Len(s) \in Nat
    BY LenProperties
  <2>2. \A i \in 1..Len(s) : s[i] \in SavedFiles
    BY ElementOfSeq
  <2> QED
    BY <2>1, <2>2, DownloadAssumption DEF SavedFiles
<1>2. ASSUME T # {} PROVE FALSE
  <2>1. PICK m \in T : \A l \in T : m <= l
    <3>1. T \subseteq Nat
      OBVIOUS
    <3> HIDE DEF T
    <3> QED
      BY <1>2, <3>1, LeastNat
  <2>2. m \in Nat /\ m <= Len(s) /\ \A t : ~Adds(t, m)
    <3> HIDE DEF Adds
    <3> QED
      OBVIOUS
  <2>3. CASE m = 0
    <3>1. Adds([i \in 0..0 |-> 0], 0)
      OBVIOUS
    <3> HIDE DEF Adds
    <3> QED
      BY <2>2, <2>3, <3>1
  <2>4. CASE m # 0
    <3>1. m - 1 \in Nat /\ m - 1 <= Len(s) /\ ~(m <= m - 1) /\ m \in 1..Len(s)
      BY <1>1, <2>2, <2>4
    <3>2. PICK t : Adds(t, m - 1)
      <4> HIDE DEF Adds
      <4> QED
        BY <2>1, <3>1
    <3> DEFINE u == [i \in 0..m |-> IF i = m THEN t[m-1] + s[m].bytes ELSE t[i]]
    <3>3. \A i \in 0..m : i # m => i \in 0..m - 1
      BY <3>1
    <3>4. m - 1 \in 0..m - 1 /\ t[m-1] \in Nat
      BY <3>1, <3>2
    <3>5. u \in [0..m -> Nat]
      BY <1>1, <3>1, <3>2, <3>3, <3>4
    <3>6. u[0] = 0
      BY <2>4, <3>1, <3>2
    <3>7. ASSUME NEW i \in 1..m PROVE u[i] = u[i-1] + s[i].bytes
      <4>1. i \in 0..m /\ i - 1 \in 0..m /\ i - 1 # m /\ i \in Int /\ (i # m => i \in 1..m - 1)
        BY <3>1
      <4>2. u[i-1] = t[i-1]
        BY <4>1
      <4>3. u[i] = IF i = m THEN t[m-1] + s[m].bytes ELSE t[i]
        BY <4>1
      <4> HIDE DEF u
      <4> QED
        BY <3>2, <4>1, <4>2, <4>3
    <3>8. Adds(u, m)
      BY <3>5, <3>6, <3>7
    <3> HIDE DEF Adds
    <3> QED
      BY <2>2, <3>8
  <2> QED
    BY <2>3, <2>4
<1>3. PICK t : Adds(t, Len(s))
  <2>1. Len(s) <= Len(s)
    BY <1>1
  <2> HIDE DEF Adds
  <2> QED
    BY <1>1, <1>2, <2>1
<1> DEFINE Is(f) == f = [i \in 0..Len(s) |-> IF i = 0 THEN 0 ELSE f[i-1] + s[i].bytes]
<1>4. Is(t)
  <2>1. t = [i \in 0..Len(s) |-> t[i]]
    BY <1>3
  <2>2. \A i \in 0..Len(s) : t[i] = IF i = 0 THEN 0 ELSE t[i-1] + s[i].bytes
    <3>1. \A i \in 0..Len(s) : i # 0 => i \in 1..Len(s)
      BY <1>1
    <3> QED
      BY <1>3, <3>1
  <2>3. [i \in 0..Len(s) |-> t[i]] = [i \in 0..Len(s) |-> IF i = 0 THEN 0 ELSE t[i-1] + s[i].bytes]
    BY <2>2
  <2> QED
    BY <2>1, <2>3
<1>5. Totals(s) = CHOOSE f : Is(f)
  BY Zenon DEF Totals
<1> DEFINE f == Totals(s)
<1>6. Is(f)
  BY <1>4, <1>5
<1> HIDE DEF f
<1>7. f[0] = 0 /\ \A i \in 1..Len(s) : f[i] = f[i-1] + s[i].bytes
  <2>1. \A i \in 0..Len(s) : f[i] = IF i = 0 THEN 0 ELSE f[i-1] + s[i].bytes
    BY <1>6
  <2>2. 0 \in 0..Len(s) /\ \A i \in 1..Len(s) : i \in 0..Len(s) /\ i # 0
    BY <1>1
  <2> QED
    BY <2>1, <2>2
<1>8. DOMAIN f = 0..Len(s) /\ f = [i \in 0..Len(s) |-> f[i]]
  BY <1>6
<1>9. ASSUME NEW i \in 0..Len(s), f[i] \notin Nat PROVE FALSE
  <2> DEFINE U == {m \in Nat : m <= Len(s) /\ f[m] \notin Nat}
  <2>1. U \subseteq Nat /\ i \in U
    BY <1>1, <1>9
  <2>2. PICK m \in U : \A l \in U : m <= l
    <3> HIDE DEF U
    <3> QED
      BY <2>1, LeastNat
  <2>3. m # 0 /\ m \in 1..Len(s) /\ m - 1 \in Nat /\ m - 1 <= Len(s) /\ ~(m <= m - 1)
    BY <1>1, <1>7
  <2>4. f[m-1] \in Nat
    BY <2>2, <2>3
  <2> QED
    BY <1>1, <1>7, <2>3, <2>4
<1>10. f \in [0..Len(s) -> Nat]
  BY <1>8, <1>9
<1> QED
  BY <1>7, <1>10 DEF f

\* Lists that begin alike have the same totals as far as they do.
LEMMA TotalsAgree ==
  ASSUME NEW s \in Seq(SavedFiles), NEW r \in Seq(SavedFiles), NEW n \in Nat,
         n <= Len(s), n <= Len(r), \A i \in 1..n : s[i].bytes = r[i].bytes
  PROVE  Totals(s)[n] = Totals(r)[n]
<1> DEFINE a == Totals(s)  b == Totals(r)
           U == {m \in Nat : m <= n /\ a[m] # b[m]}
<1>1. /\ a[0] = 0 /\ \A i \in 1..Len(s) : a[i] = a[i-1] + s[i].bytes
      /\ b[0] = 0 /\ \A i \in 1..Len(r) : b[i] = b[i-1] + r[i].bytes
      /\ Len(s) \in Nat /\ Len(r) \in Nat
  BY TotalsAre, LenProperties
<1> HIDE DEF a, b
<1>2. ASSUME a[n] # b[n] PROVE FALSE
  <2>1. U \subseteq Nat /\ n \in U
    BY <1>2
  <2>2. PICK m \in U : \A l \in U : m <= l
    <3> HIDE DEF U
    <3> QED
      BY <2>1, LeastNat
  <2>3. m # 0 /\ m \in 1..n /\ m \in 1..Len(s) /\ m \in 1..Len(r)
        /\ m - 1 \in Nat /\ m - 1 <= n /\ ~(m <= m - 1)
    BY <1>1
  <2>4. a[m-1] = b[m-1]
    BY <2>2, <2>3
  <2> QED
    BY <1>1, <2>3, <2>4
<1> QED
  BY <1>2 DEF a, b

\* No file is larger than all of them.
LEMMA FileWithin ==
  ASSUME NEW s \in Seq(SavedFiles), NEW i \in 1..Len(s)
  PROVE  s[i].bytes \in Nat /\ s[i].bytes <= Totals(s)[Len(s)]
<1> DEFINE a == Totals(s)
           U == {m \in Nat : i <= m /\ m <= Len(s) /\ ~(s[i].bytes <= a[m])}
<1>1. /\ a \in [0..Len(s) -> Nat] /\ \A j \in 1..Len(s) : a[j] = a[j-1] + s[j].bytes
      /\ Len(s) \in Nat
  BY TotalsAre, LenProperties
<1>2. \A j \in 1..Len(s) : s[j].bytes \in Nat
  <2>1. \A j \in 1..Len(s) : s[j] \in SavedFiles
    BY ElementOfSeq
  <2> QED
    BY <2>1, DownloadAssumption DEF SavedFiles
<1> HIDE DEF a
<1>3. ASSUME ~(s[i].bytes <= a[Len(s)]) PROVE FALSE
  <2>1. U \subseteq Nat /\ Len(s) \in U
    BY <1>1, <1>3
  <2>2. PICK m \in U : \A l \in U : m <= l
    <3> HIDE DEF U
    <3> QED
      BY <2>1, LeastNat
  <2>3. m \in 1..Len(s) /\ m - 1 \in 0..Len(s) /\ m - 1 \in Nat /\ ~(m <= m - 1) /\ m - 1 <= Len(s)
    BY <1>1
  <2>4. a[m-1] \in Nat /\ a[m] = a[m-1] + s[m].bytes
    BY <1>1, <2>3
  <2>5. CASE m = i
    BY <1>2, <2>2, <2>4, <2>5
  <2>6. CASE m # i
    <3>1. i <= m - 1
      BY <2>3, <2>6
    <3>2. s[i].bytes <= a[m-1]
      BY <2>2, <2>3, <3>1
    <3> QED
      BY <1>2, <2>2, <2>3, <2>4, <3>2
  <2> QED
    BY <2>5, <2>6
<1> QED
  BY <1>2, <1>3 DEF a

-----------------------------------------------------------------------------
(* The parts of the invariant, download by download *)

LimitOK(d) == Occupied(d) <= Wanted[d].limit
WholeOK(d) ==
  answer[d] = "ok" =>
    /\ owner[Directory(d)] = d /\ saved[d] # <<>> /\ refs[d] = <<>>
    /\ \A i \in DOMAIN saved[d] :
         /\ saved[d][i].whole
         /\ i > 1 => saved[d][i].origin \in Wanted[d].allowed \cup {saved[d][1].origin}
    /\ Len(saved[d]) > 1 => Wanted[d].assets
GoneOK(d) ==
  /\ answer[d] = "error" /\ d \notin spoilt => owner[Directory(d)] # d /\ saved[d] = <<>>
  /\ saved[d] # <<>> => owner[Directory(d)] = d
DownloadOK(d) == LimitOK(d) /\ WholeOK(d) /\ GoneOK(d) /\ StageOK(d)

AllOK == \A d \in Downloads : DownloadOK(d)

\* The invariant is its type and the promises of every download by itself.
LEMMA DownloadParts == DownloadInd <=> DownloadTypeOK /\ AllOK
BY DEF AllOK, DownloadInd, WithinLimit, ReturnedWhole, FailedGone, DownloadOK, LimitOK, WholeOK, GoneOK

\* What the parts depend on.
LEMMA SameDownload ==
  ASSUME NEW d \in Downloads, DownloadOK(d),
         dstage'[d] = dstage[d], saved'[d] = saved[d], room'[d] = room[d], trusted'[d] = trusted[d],
         refs'[d] = refs[d], answer'[d] = answer[d], d \in spoilt' <=> d \in spoilt,
         owner'[Directory(d)] = d <=> owner[Directory(d)] = d
  PROVE  DownloadOK(d)'
<1>1. Occupied(d)' = Occupied(d)
  BY DEF Occupied
<1>2. LimitOK(d)'
  BY <1>1 DEF DownloadOK, LimitOK
<1>3. WholeOK(d)' /\ GoneOK(d)'
  BY DEF DownloadOK, WholeOK, GoneOK, Directory
<1>4. Fetching(d)' => BundleOK(d)'
  BY <1>1 DEF DownloadOK, StageOK, Fetching, BundleOK, Directory
<1>5. StageOK(d)'
  BY <1>4 DEF DownloadOK, StageOK, Fetching, Unmade, Directory
<1> QED
  BY <1>2, <1>3, <1>5 DEF DownloadOK

\* A step of one download: its directory becomes its own or nobody's, and
\* the others stay as they are.
LEMMA DownloadFrame ==
  ASSUME DownloadInd, NEW d \in Downloads, DownloadTypeOK', DownloadOK(d)',
         \A e \in Downloads \ {d} :
           /\ dstage'[e] = dstage[e] /\ saved'[e] = saved[e] /\ room'[e] = room[e]
           /\ trusted'[e] = trusted[e] /\ refs'[e] = refs[e] /\ answer'[e] = answer[e],
         spoilt' \in {spoilt, spoilt \cup {d}},
         \/ owner' = owner
         \/ /\ owner[Directory(d)] \in {d, NoOwner}
            /\ \E x \in {d, NoOwner} : owner' = [owner EXCEPT ![Directory(d)] = x]
  PROVE  DownloadInd'
<1>1. ASSUME NEW e \in Downloads \ {d} PROVE DownloadOK(e)'
  <2>1. DownloadOK(e) /\ DownloadTypeOK
    BY DownloadParts DEF AllOK
  <2>2. d # NoOwner /\ e # NoOwner
    BY DownloadAssumption DEF NoOwner
  <2>3. owner'[Directory(e)] = e <=> owner[Directory(e)] = e
    <3>1. CASE owner' = owner
      BY <3>1
    <3>2. CASE /\ owner[Directory(d)] \in {d, NoOwner}
               /\ \E x \in {d, NoOwner} : owner' = [owner EXCEPT ![Directory(d)] = x]
      <4>1. DOMAIN owner = Downloads \cup {"out"} /\ Directory(e) \in DOMAIN owner
        BY <2>1 DEF DownloadTypeOK, Directory
      <4>2. CASE Directory(e) = Directory(d)
        BY <2>2, <3>2, <4>1, <4>2
      <4>3. CASE Directory(e) # Directory(d)
        BY <3>2, <4>1, <4>3
      <4> QED
        BY <4>2, <4>3
    <3> QED
      BY <3>1, <3>2
  <2>4. e \in spoilt' <=> e \in spoilt
    OBVIOUS
  <2> QED
    BY <2>1, <2>3, <2>4, SameDownload
<1>2. AllOK'
  BY <1>1 DEF AllOK
<1> QED
  BY <1>2, DownloadParts, PTL

\* What a step finds.
LEMMA DownloadFacts ==
  ASSUME DownloadInd, NEW d \in Downloads
  PROVE  /\ DownloadTypeOK /\ DownloadOK(d) /\ LimitOK(d) /\ WholeOK(d) /\ GoneOK(d) /\ StageOK(d)
         /\ saved[d] \in Seq(SavedFiles) /\ Len(saved[d]) \in Nat /\ DOMAIN saved[d] = 1..Len(saved[d])
         /\ saved[d] # <<>> <=> Len(saved[d]) # 0
         /\ Directory(d) \in DOMAIN owner /\ d # NoOwner
         /\ Wanted[d].limit \in Nat /\ Wanted[d].allowed \subseteq Origins
         /\ room[d] \in Nat /\ Occupied(d) \in Nat
<1>1. DownloadTypeOK /\ DownloadOK(d)
  BY DownloadParts DEF AllOK
<1>2. saved[d] \in Seq(SavedFiles)
  BY <1>1 DEF DownloadTypeOK
<1>3. Len(saved[d]) \in Nat /\ DOMAIN saved[d] = 1..Len(saved[d]) /\ (saved[d] # <<>> <=> Len(saved[d]) # 0)
  BY <1>2, LenProperties, EmptySeq
<1>4. Occupied(d) \in Nat
  <2>1. Totals(saved[d]) \in [0..Len(saved[d]) -> Nat] /\ Len(saved[d]) \in 0..Len(saved[d])
    BY <1>2, <1>3, TotalsAre
  <2> QED
    BY <2>1 DEF Occupied
<1> QED
  BY <1>1, <1>2, <1>3, <1>4, DownloadAssumption DEF DownloadOK, DownloadTypeOK, Directory, NoOwner

\* A download that ends, or is about to, without its files.
LEMMA Abandons ==
  ASSUME DownloadInd, NEW d \in Downloads, Fetching(d), dstage'[d] = "discard", LimitOK(d)',
         UNCHANGED <<owner, answer>>
  PROVE  DownloadOK(d)'
<1>1. owner[Directory(d)] = d /\ answer[d] = "none"
  BY DownloadFacts DEF StageOK, BundleOK, Fetching
<1> QED
  BY <1>1 DEF DownloadOK, WholeOK, GoneOK, StageOK, Fetching, Directory

-----------------------------------------------------------------------------
(* The steps of a download *)

\* A directory is made where none was, or the download ends with an error.
LEMMA CreateStep ==
  ASSUME DownloadInd, NEW d \in Downloads, Create(d)
  PROVE  DownloadInd'
<1>1. /\ DownloadTypeOK /\ DownloadOK(d) /\ StageOK(d) /\ LimitOK(d) /\ Directory(d) \in DOMAIN owner
      /\ d # NoOwner /\ Wanted[d].limit \in Nat
  BY DownloadFacts
<1>2. /\ dstage[d] = "create" /\ UNCHANGED <<saved, room, trusted, refs, cancelled>>
      /\ owner[Directory(d)] # d /\ saved[d] = <<>> /\ refs[d] = <<>> /\ room[d] = Wanted[d].limit
      /\ trusted[d] = Wanted[d].allowed /\ answer[d] = "none"
  BY <1>1 DEF Create, StageOK, Unmade
<1>3. LimitOK(d)' /\ (Occupied(d) + room[d] <= Wanted[d].limit)'
  <2>1. saved'[d] = <<>> /\ <<>> \in Seq(SavedFiles) /\ Len(<<>>) = 0
    BY <1>2, EmptySeq
  <2>2. Occupied(d)' = 0
    BY <2>1, TotalsAre DEF Occupied
  <2> QED
    BY <1>1, <1>2, <2>2 DEF LimitOK
<1>4. CASE /\ dstage' = [dstage EXCEPT ![d] = "done"] /\ answer' = [answer EXCEPT ![d] = "error"]
           /\ UNCHANGED <<owner, trouble, spoilt>>
  <2>1. DownloadTypeOK' /\ dstage'[d] = "done" /\ answer'[d] = "error"
    BY <1>1, <1>2, <1>4 DEF DownloadTypeOK
  <2>2. DownloadOK(d)'
    BY <1>2, <1>3, <1>4, <2>1 DEF DownloadOK, WholeOK, GoneOK, StageOK, Fetching, Directory
  <2> QED
    BY <1>1, <1>2, <1>4, <2>1, <2>2, DownloadFrame DEF DownloadTypeOK
<1>5. CASE /\ owner[Directory(d)] = NoOwner /\ owner' = [owner EXCEPT ![Directory(d)] = d]
           /\ dstage' = [dstage EXCEPT ![d] = "ask"] /\ UNCHANGED <<answer, trouble, spoilt>>
  <2>1. DownloadTypeOK' /\ dstage'[d] = "ask" /\ owner'[Directory(d)] = d
    BY <1>1, <1>2, <1>5 DEF DownloadTypeOK
  <2>2. BundleOK(d)'
    <3>1. DOMAIN saved'[d] = {} /\ Len(saved'[d]) = 0
      BY <1>2
    <3> QED
      BY <1>2, <1>3, <2>1, <3>1 DEF BundleOK, Directory
  <2>3. DownloadOK(d)'
    BY <1>2, <1>3, <1>5, <2>1, <2>2 DEF DownloadOK, WholeOK, GoneOK, StageOK, Fetching, Directory
  <2> QED
    BY <1>1, <1>2, <1>5, <2>1, <2>3, DownloadFrame DEF DownloadTypeOK
<1>6. CASE /\ owner[Directory(d)] = NoOwner /\ owner' = [owner EXCEPT ![Directory(d)] = d]
           /\ trouble < MaxTrouble /\ trouble' = trouble + 1 /\ spoilt' = spoilt \cup {d}
           /\ dstage' = [dstage EXCEPT ![d] = "done"] /\ answer' = [answer EXCEPT ![d] = "error"]
  <2>1. DownloadTypeOK' /\ dstage'[d] = "done" /\ answer'[d] = "error" /\ d \in spoilt'
    BY <1>1, <1>2, <1>6, DownloadAssumption DEF DownloadTypeOK
  <2>2. DownloadOK(d)'
    BY <1>2, <1>3, <1>6, <2>1 DEF DownloadOK, WholeOK, GoneOK, StageOK, Fetching, Directory
  <2> QED
    BY <1>1, <1>2, <1>6, <2>1, <2>2, DownloadFrame DEF DownloadTypeOK
<1> QED
  BY <1>4, <1>5, <1>6 DEF Create, Proceeds, Replies, Spoils

\* A download that gives up on a response or on the assets it names.
LEMMA GivesUpStep ==
  ASSUME DownloadInd, NEW d \in Downloads, Fetching(d), GivesUp(d), UNCHANGED <<refs, cancelled>>,
         saved' \in [Downloads -> Seq(SavedFiles)], LimitOK(d)',
         \A e \in Downloads \ {d} : saved'[e] = saved[e]
  PROVE  DownloadInd'
<1>1. DownloadTypeOK
  BY DownloadFacts
<1>2. dstage' = [dstage EXCEPT ![d] = "discard"] /\ UNCHANGED <<owner, room, trusted, answer, trouble, spoilt>>
  BY DEF GivesUp, Proceeds
<1>3. DownloadTypeOK' /\ dstage'[d] = "discard" /\ \A e \in Downloads \ {d} : dstage'[e] = dstage[e]
  BY <1>1, <1>2 DEF DownloadTypeOK
<1>4. DownloadOK(d)'
  BY <1>2, <1>3, Abandons
<1> QED
  BY <1>2, <1>3, <1>4, DownloadFrame

\* Without a good answer the download gives up on the link or altogether.
LEMMA AskFailsStep ==
  ASSUME DownloadInd, NEW d \in Downloads, AskFails(d) \/ ScanFails(d)
  PROVE  DownloadInd'
<1>1. Fetching(d) /\ GivesUp(d) /\ UNCHANGED <<saved, refs, cancelled>>
  BY DEF AskFails, ScanFails, Fetching
<1>2. DownloadTypeOK /\ LimitOK(d)
  BY DownloadFacts
<1>3. LimitOK(d)' /\ saved' \in [Downloads -> Seq(SavedFiles)]
  BY <1>1, <1>2 DEF LimitOK, Occupied, DownloadTypeOK
<1> QED
  BY <1>1, <1>3, GivesUpStep

\* The answer opens a file, of no bytes yet, if it comes from an origin that is
\* trusted and there is room for one.
LEMMA AskStep ==
  ASSUME DownloadInd, NEW d \in Downloads, Ask(d)
  PROVE  DownloadInd'
<1> DEFINE s == saved[d]  n == Len(s)
<1>1. /\ DownloadTypeOK /\ DownloadOK(d) /\ StageOK(d) /\ s \in Seq(SavedFiles) /\ n \in Nat
      /\ DOMAIN s = 1..n /\ (s # <<>> <=> n # 0) /\ d # NoOwner /\ Directory(d) \in DOMAIN owner
      /\ Wanted[d].limit \in Nat /\ room[d] \in Nat /\ Occupied(d) \in Nat
  BY DownloadFacts
<1>2. PICK o \in Answerable(d) :
        saved' = [saved EXCEPT ![d] = Append(@, [bytes |-> 0, whole |-> FALSE, origin |-> o])]
  BY DEF Ask
<1> DEFINE file == [bytes |-> 0, whole |-> FALSE, origin |-> o]  r == Append(s, file)
<1>3. /\ dstage[d] = "ask" /\ dstage' = [dstage EXCEPT ![d] = "copy"]
      /\ refs' = [refs EXCEPT ![d] = IF @ = <<>> THEN <<>> ELSE Tail(@)]
      /\ UNCHANGED <<owner, room, trusted, cancelled, answer, trouble, spoilt>>
  BY DEF Ask, Proceeds
<1>4. BundleOK(d) /\ trusted[d] \subseteq Origins
  BY <1>1, <1>3 DEF StageOK, Fetching, DownloadTypeOK
<1>5. o \in Origins /\ (s # <<>> => o \in Wanted[d].allowed \cup {s[1].origin})
  BY <1>4 DEF Answerable, BundleOK
<1>6. file \in SavedFiles
  BY <1>5, DownloadAssumption DEF SavedFiles
<1>7. file.bytes = 0 /\ file.whole = FALSE /\ file.origin = o
  OBVIOUS
<1> HIDE DEF file
<1>8. /\ r \in Seq(SavedFiles) /\ Len(r) = n + 1 /\ r[n + 1] = file /\ \A i \in 1..n : r[i] = s[i]
  BY <1>1, <1>6, AppendProperties
<1>9. DOMAIN r = 1..(n + 1) /\ r # <<>>
  BY <1>1, <1>8, LenProperties, EmptySeq
<1>10. saved'[d] = r /\ \A e \in Downloads \ {d} : saved'[e] = saved[e]
  BY <1>1, <1>2 DEF DownloadTypeOK, file
<1> HIDE DEF r, s, n
<1>11. saved' \in [Downloads -> Seq(SavedFiles)]
  BY <1>1, <1>2, <1>8, <1>10 DEF DownloadTypeOK
<1>12. Totals(r)[n + 1] = Totals(s)[n]
  <2>1. Totals(r)[n] = Totals(s)[n]
    <3>1. n <= n /\ n <= n + 1 /\ \A i \in 1..n : r[i].bytes = s[i].bytes
      BY <1>1, <1>8
    <3> QED
      BY <1>1, <1>8, <3>1, TotalsAgree DEF n
  <2>2. Totals(s)[n] \in Nat
    BY <1>1 DEF Occupied, s, n
  <2>3. n + 1 \in 1..Len(r) /\ (n + 1) - 1 = n
    BY <1>1, <1>8
  <2>4. Totals(r)[n + 1] = Totals(r)[(n + 1) - 1] + r[n + 1].bytes
    BY <1>8, <2>3, TotalsAre
  <2> QED
    BY <1>7, <1>8, <2>1, <2>2, <2>3, <2>4
<1>13. Occupied(d)' = Occupied(d)
  BY <1>8, <1>10, <1>12 DEF Occupied, s, n
<1>14. /\ dstage'[d] = "copy" /\ \A e \in Downloads \ {d} : dstage'[e] = dstage[e] /\ refs'[e] = refs[e]
       /\ refs[d] = <<>> => refs'[d] = <<>>
  BY <1>1, <1>3 DEF DownloadTypeOK
<1>15. DownloadTypeOK'
  BY <1>1, <1>3, <1>11 DEF DownloadTypeOK
<1>16. n # 0 => r[1] = s[1] /\ 1 \in 1..n
  BY <1>1, <1>8
<1>17. BundleOK(d)'
  <2>1. owner'[Directory(d)] = d /\ Occupied(d)' + room'[d] <= Wanted[d].limit
    BY <1>3, <1>4, <1>13 DEF BundleOK
  <2>2. trusted'[d] \subseteq Wanted[d].allowed \cup {r[1].origin}
    BY <1>1, <1>3, <1>4, <1>16 DEF BundleOK, s
  <2>3. ASSUME NEW i \in 1..(n + 1)
        PROVE  /\ i > 1 => r[i].origin \in Wanted[d].allowed \cup {r[1].origin}
               /\ r[i].whole \/ i = n + 1
    <3>1. CASE i \in 1..n
      <4>1. n # 0 /\ r[i] = s[i] /\ r[1] = s[1]
        BY <1>1, <1>8, <1>16, <3>1
      <4>2. /\ i > 1 => s[i].origin \in Wanted[d].allowed \cup {s[1].origin}
            /\ s[i].whole
        BY <1>1, <1>3, <1>4, <3>1 DEF BundleOK, s
      <4> QED
        BY <4>1, <4>2
    <3>2. CASE i = n + 1
      <4>1. i > 1 => n # 0
        BY <1>1, <3>2
      <4> QED
        BY <1>1, <1>5, <1>7, <1>8, <1>16, <3>2, <4>1
    <3> QED
      BY <1>1, <3>1, <3>2
  <2>4. n + 1 > 1 => Wanted[d].assets
    <3>1. n + 1 > 1 => s # <<>>
      BY <1>1
    <3> QED
      BY <1>1, <1>3, <3>1 DEF StageOK, s
  <2> QED
    BY <1>8, <1>9, <1>10, <1>14, <2>1, <2>2, <2>3, <2>4 DEF BundleOK, Directory
<1>18. n + 1 = 1 => refs'[d] = <<>>
  <2>1. n + 1 = 1 => s = <<>>
    BY <1>1
  <2> QED
    BY <1>1, <1>3, <1>14, <2>1 DEF StageOK, s
<1>19. answer'[d] = "none"
  BY <1>1, <1>3 DEF StageOK
<1>20. StageOK(d)'
  BY <1>7, <1>8, <1>9, <1>10, <1>14, <1>17, <1>18, <1>19 DEF StageOK
<1>21. LimitOK(d)' /\ WholeOK(d)' /\ GoneOK(d)'
  <2>1. LimitOK(d)' /\ owner'[Directory(d)] = d
    BY <1>1, <1>3, <1>4, <1>13 DEF LimitOK, DownloadOK, BundleOK
  <2> QED
    BY <1>19, <2>1 DEF WholeOK, GoneOK, Directory
<1>22. DownloadOK(d)'
  BY <1>20, <1>21 DEF DownloadOK
<1> QED
  BY <1>3, <1>10, <1>14, <1>15, <1>22, DownloadFrame

\* The last file's bytes are counted when it has been copied.
LEMMA StoredTotals ==
  ASSUME NEW s \in Seq(SavedFiles), s # <<>>, s[Len(s)].bytes = 0, NEW f \in SavedFiles
  PROVE  LET r == [s EXCEPT ![Len(s)] = f]
         IN /\ r \in Seq(SavedFiles) /\ Len(r) = Len(s) /\ DOMAIN r = DOMAIN s /\ r[Len(s)] = f
            /\ \A i \in DOMAIN s : i # Len(s) => r[i] = s[i]
            /\ Totals(r)[Len(r)] = Totals(s)[Len(s)] + f.bytes
<1> DEFINE n == Len(s)  r == [s EXCEPT ![n] = f]
<1>1. n \in Nat /\ n # 0 /\ n \in 1..n /\ DOMAIN s = 1..n
  BY LenProperties, EmptySeq
<1>2. r \in Seq(SavedFiles) /\ Len(r) = n /\ \A j \in 1..n : r[j] = IF j = n THEN f ELSE s[j]
  BY <1>1, ExceptSeq
<1>3. DOMAIN r = 1..n
  BY <1>2, LenProperties
<1> HIDE DEF n, r
<1>4. n - 1 \in Nat /\ n - 1 <= n /\ \A i \in 1..(n - 1) : i \in 1..n /\ i # n
  BY <1>1
<1>5. Totals(r)[n - 1] = Totals(s)[n - 1]
  <2>1. \A i \in 1..(n - 1) : s[i].bytes = r[i].bytes
    BY <1>2, <1>4
  <2>2. Len(s) = n
    BY DEF n
  <2> QED
    BY <1>2, <1>4, <2>1, <2>2, TotalsAgree
<1>6. Totals(r)[n] = Totals(r)[n - 1] + f.bytes
  BY <1>1, <1>2, TotalsAre
<1>7. Totals(s)[n] = Totals(s)[n - 1] + 0
  BY <1>1, TotalsAre DEF n
<1>8. Totals(s)[n - 1] \in Nat /\ f.bytes \in Nat
  <2>1. n - 1 \in 0..n
    BY <1>1, <1>4
  <2>4. Totals(s) \in [0..n -> Nat]
    BY TotalsAre DEF n
  <2>2. \A k \in 0..MaxBody : k \in Nat
    BY DownloadAssumption
  <2>3. f.bytes \in 0..MaxBody
    BY DEF SavedFiles
  <2> QED
    BY <2>1, <2>2, <2>3, <2>4
<1>9. Totals(r)[n] = Totals(s)[n] + f.bytes
  BY <1>5, <1>6, <1>7, <1>8
<1> QED
  BY <1>1, <1>2, <1>3, <1>9 DEF n, r

\* What either end of a copy leaves.
LEMMA CopyFacts ==
  ASSUME DownloadInd, NEW d \in Downloads, dstage[d] = "copy", NEW n \in 0..MaxBody, n <= room[d],
         NEW whole \in BOOLEAN, StoredFile(d, n, whole)
  PROVE  LET s == saved[d]  r == saved'[d]
         IN /\ saved' \in [Downloads -> Seq(SavedFiles)] /\ \A e \in Downloads \ {d} : saved'[e] = saved[e]
            /\ Len(r) = Len(s) /\ DOMAIN r = DOMAIN s /\ r # <<>> /\ s # <<>>
            /\ r[Len(s)].whole = whole /\ r[Len(s)].origin = s[Len(s)].origin
            /\ \A i \in DOMAIN s : i # Len(s) => r[i] = s[i]
            /\ Occupied(d)' = Occupied(d) + n /\ Occupied(d)' <= Wanted[d].limit
            /\ n \in Nat
<1> DEFINE s == saved[d]  f == [s[Len(s)] EXCEPT !.bytes = n, !.whole = whole]
           r == [s EXCEPT ![Len(s)] = f]
<1>1. /\ DownloadTypeOK /\ StageOK(d) /\ s \in Seq(SavedFiles) /\ Len(s) \in Nat
      /\ DOMAIN s = 1..Len(s) /\ (s # <<>> <=> Len(s) # 0)
      /\ Wanted[d].limit \in Nat /\ room[d] \in Nat /\ Occupied(d) \in Nat
  BY DownloadFacts
<1>2. s # <<>> /\ s[Len(s)].bytes = 0 /\ BundleOK(d)
  BY <1>1 DEF StageOK, Fetching
<1>3. Len(s) \in 1..Len(s) /\ s[Len(s)] \in SavedFiles
  BY <1>1, <1>2, ElementOfSeq
<1>4. f \in SavedFiles /\ f.bytes = n /\ f.whole = whole /\ f.origin = s[Len(s)].origin
  BY <1>3 DEF SavedFiles
<1>5. saved' = [saved EXCEPT ![d] = r]
  BY <1>1, <1>3 DEF StoredFile, DownloadTypeOK
<1> HIDE DEF f, s
<1>6. /\ r \in Seq(SavedFiles) /\ Len(r) = Len(s) /\ DOMAIN r = DOMAIN s /\ r[Len(s)] = f
      /\ \A i \in DOMAIN s : i # Len(s) => r[i] = s[i]
      /\ Totals(r)[Len(r)] = Totals(s)[Len(s)] + f.bytes
  BY <1>1, <1>2, <1>4, StoredTotals
<1> HIDE DEF r
<1>7. saved'[d] = r /\ \A e \in Downloads \ {d} : saved'[e] = saved[e]
  BY <1>1, <1>5 DEF DownloadTypeOK
<1>8. saved' \in [Downloads -> Seq(SavedFiles)]
  BY <1>1, <1>5, <1>6 DEF DownloadTypeOK
<1>9. Occupied(d)' = Occupied(d) + n
  BY <1>4, <1>6, <1>7 DEF Occupied, s
<1>10. n \in Nat /\ Occupied(d) + n <= Wanted[d].limit
  BY <1>1, <1>2, DownloadAssumption DEF BundleOK
<1>11. r # <<>>
  BY <1>1, <1>2, <1>6, EmptySeq
<1> QED
  BY <1>2, <1>4, <1>6, <1>7, <1>8, <1>9, <1>10, <1>11 DEF s

\* A copy that breaks off, or runs out of room, leaves what was written to be removed.
LEMMA CopyFailsStep ==
  ASSUME DownloadInd, NEW d \in Downloads, CopyFails(d)
  PROVE  DownloadInd'
<1>1. dstage[d] = "copy" /\ GivesUp(d) /\ UNCHANGED <<refs, cancelled>> /\ Fetching(d)
  BY DEF CopyFails, Fetching
<1>2. PICK n \in 0..MaxBody : n <= room[d] /\ StoredFile(d, n, FALSE)
  BY DEF CopyFails
<1>3. /\ saved' \in [Downloads -> Seq(SavedFiles)] /\ \A e \in Downloads \ {d} : saved'[e] = saved[e]
      /\ Occupied(d)' <= Wanted[d].limit
  BY <1>1, <1>2, CopyFacts
<1> QED
  BY <1>1, <1>3, GivesUpStep DEF LimitOK

\* A copy that ends takes its bytes from the room that is left.
LEMMA CopyStep ==
  ASSUME DownloadInd, NEW d \in Downloads, Copy(d)
  PROVE  DownloadInd'
<1> DEFINE s == saved[d]  r == saved'[d]
<1>1. /\ DownloadTypeOK /\ DownloadOK(d) /\ StageOK(d) /\ Len(s) \in Nat
      /\ DOMAIN s = 1..Len(s) /\ (s # <<>> <=> Len(s) # 0) /\ d # NoOwner /\ Directory(d) \in DOMAIN owner
      /\ Wanted[d].limit \in Nat /\ room[d] \in Nat /\ Occupied(d) \in Nat
  BY DownloadFacts
<1>2. PICK n \in 0..MaxBody : n <= room[d] /\ StoredFile(d, n, TRUE) /\ Copied(d, n)
  BY DEF Copy
<1>3. /\ dstage[d] = "copy"
      /\ dstage' = [dstage EXCEPT ![d] = IF Len(s) = 1 THEN "scan" ELSE "next"]
      /\ room' = [room EXCEPT ![d] = @ - n]
      /\ UNCHANGED <<owner, trusted, refs, cancelled, answer, trouble, spoilt>>
  BY <1>2 DEF Copy, Proceeds, Copied
<1>4. /\ saved' \in [Downloads -> Seq(SavedFiles)] /\ \A e \in Downloads \ {d} : saved'[e] = saved[e]
      /\ Len(r) = Len(s) /\ DOMAIN r = DOMAIN s /\ r # <<>> /\ s # <<>>
      /\ r[Len(s)].whole = TRUE /\ r[Len(s)].origin = s[Len(s)].origin
      /\ \A i \in DOMAIN s : i # Len(s) => r[i] = s[i]
      /\ Occupied(d)' = Occupied(d) + n /\ Occupied(d)' <= Wanted[d].limit
      /\ n \in Nat
  BY <1>2, <1>3, CopyFacts
<1> HIDE DEF r, s
<1>5. /\ dstage'[d] = IF Len(s) = 1 THEN "scan" ELSE "next"
      /\ room'[d] = room[d] - n /\ room'[d] \in Nat
      /\ \A e \in Downloads \ {d} : dstage'[e] = dstage[e] /\ room'[e] = room[e]
  BY <1>1, <1>2, <1>3, <1>4 DEF DownloadTypeOK
<1>6. DownloadTypeOK'
  <2>1. room' \in [Downloads -> Nat] /\ dstage' \in [Downloads -> {"create", "ask", "copy", "scan", "next", "finish", "retain",
                               "discard", "remove", "done"}]
    BY <1>1, <1>3, <1>5 DEF DownloadTypeOK
  <2> QED
    BY <1>1, <1>3, <1>4, <2>1 DEF DownloadTypeOK
<1>7. BundleOK(d) /\ (Len(s) = 1 => refs[d] = <<>>) /\ answer[d] = "none"
  BY <1>1, <1>3 DEF StageOK, Fetching, s
<1>8. r[1].origin = s[1].origin
  <2>1. 1 \in DOMAIN s
    BY <1>1, <1>4
  <2> QED
    BY <1>4, <2>1
<1>9. \A i \in DOMAIN s : r[i].origin = s[i].origin /\ r[i].whole
  BY <1>3, <1>4, <1>7 DEF BundleOK, s
<1>10. BundleOK(d)'
  <2>1. owner'[Directory(d)] = d /\ trusted'[d] \subseteq Wanted[d].allowed \cup {r[1].origin}
    BY <1>3, <1>4, <1>7, <1>8 DEF BundleOK, s
  <2>2. Occupied(d)' + room'[d] <= Wanted[d].limit
    BY <1>1, <1>4, <1>5, <1>7 DEF BundleOK
  <2>3. \A i \in DOMAIN r : i > 1 => r[i].origin \in Wanted[d].allowed \cup {r[1].origin}
    BY <1>4, <1>7, <1>8, <1>9 DEF BundleOK, s
  <2> QED
    BY <1>4, <1>7, <1>9, <2>1, <2>2, <2>3 DEF BundleOK, Directory, r, s
<1>11. StageOK(d)'
  <2>0. Len(s) > 1 => Wanted[d].assets
    BY <1>7 DEF BundleOK, s
  <2>1. Len(s) # 1 => Wanted[d].assets
    BY <1>1, <1>4, <2>0
  <2> QED
    BY <1>3, <1>4, <1>5, <1>7, <1>10, <2>1 DEF StageOK, r
<1>12. DownloadOK(d)'
  BY <1>3, <1>4, <1>7, <1>10, <1>11 DEF DownloadOK, LimitOK, WholeOK, GoneOK, BundleOK, Directory
<1> QED
  BY <1>3, <1>4, <1>5, <1>6, <1>12, DownloadFrame

\* The links of a bundle are found, or the download gives up on it.
LEMMA ScanStep ==
  ASSUME DownloadInd, NEW d \in Downloads, Scan(d)
  PROVE  DownloadInd'
<1>1. /\ DownloadTypeOK /\ DownloadOK(d) /\ StageOK(d) /\ saved[d] \in Seq(SavedFiles) /\ Len(saved[d]) \in Nat
      /\ DOMAIN saved[d] = 1..Len(saved[d]) /\ (saved[d] # <<>> <=> Len(saved[d]) # 0)
  BY DownloadFacts
<1>2. /\ dstage[d] = "scan" /\ UNCHANGED <<owner, saved, room, cancelled, answer, trouble, spoilt>>
      /\ Len(saved[d]) = 1 /\ refs[d] = <<>> /\ BundleOK(d) /\ answer[d] = "none" /\ saved[d] # <<>>
  BY <1>1 DEF Scan, StageOK, Fetching
<1>3. saved[d][1].origin \in Origins
  <2>1. saved[d][1] \in SavedFiles
    BY <1>1, <1>2, ElementOfSeq
  <2> QED
    BY <2>1 DEF SavedFiles
<1>4. Occupied(d)' = Occupied(d)
  BY <1>2 DEF Occupied
<1>5. ASSUME NEW to \in {"finish", "next"}, dstage' = [dstage EXCEPT ![d] = to], DOMAIN refs' = Downloads,
             \A e \in Downloads \ {d} : refs'[e] = refs[e] /\ trusted'[e] = trusted[e],
             DOMAIN trusted' = Downloads,
             trusted'[d] \subseteq trusted[d] \cup {saved[d][1].origin},
             to = "finish" => refs'[d] = <<>>, to = "next" => Wanted[d].assets
      PROVE  DownloadInd'
  <2>1. dstage'[d] = to /\ \A e \in Downloads \ {d} : dstage'[e] = dstage[e]
    BY <1>1, <1>5 DEF DownloadTypeOK
  <2>2. DownloadTypeOK'
    <3>1. \A e \in Downloads : trusted'[e] \subseteq Origins
      BY <1>1, <1>3, <1>5 DEF DownloadTypeOK
    <3> QED
      BY <1>1, <1>2, <1>5, <3>1 DEF DownloadTypeOK
  <2>3. BundleOK(d)'
    <3>1. trusted'[d] \subseteq Wanted[d].allowed \cup {saved[d][1].origin}
      BY <1>2, <1>5 DEF BundleOK
    <3>2. saved' = saved /\ owner' = owner /\ room' = room
      BY <1>2
    <3> QED
      BY <1>2, <1>4, <3>1, <3>2 DEF BundleOK, Directory
  <2>4. StageOK(d)'
    BY <1>2, <1>5, <2>1, <2>3 DEF StageOK
  <2>5. DownloadOK(d)'
    BY <1>1, <1>2, <1>4, <2>4 DEF DownloadOK, LimitOK, WholeOK, GoneOK, BundleOK, Directory
  <2> QED
    BY <1>2, <1>5, <2>1, <2>2, <2>5, DownloadFrame
<1>6. CASE ~Wanted[d].assets
  <2>1. dstage' = [dstage EXCEPT ![d] = "finish"] /\ UNCHANGED <<trusted, refs>>
    BY <1>6 DEF Scan, Proceeds
  <2> QED
    BY <1>1, <1>2, <1>5, <2>1 DEF DownloadTypeOK
<1>7. CASE Wanted[d].assets
  <2>1. /\ trusted' = [trusted EXCEPT ![d] = @ \cup {saved[d][1].origin}]
        /\ \E list : refs' = [refs EXCEPT ![d] = list]
        /\ dstage' = [dstage EXCEPT ![d] = "next"]
    BY <1>7 DEF Scan, Proceeds
  <2> QED
    BY <1>1, <1>2, <1>5, <1>7, <2>1 DEF DownloadTypeOK
<1> QED
  BY <1>6, <1>7

\* A step to another stage that leaves everything else alone.
LEMMA NextAssetStep ==
  ASSUME DownloadInd, NEW d \in Downloads, NextAsset(d) \/ Checks(d)
  PROVE  DownloadInd'
<1>1. DownloadTypeOK /\ DownloadOK(d) /\ StageOK(d)
  BY DownloadFacts
<1>2. UNCHANGED <<owner, saved, room, trusted, refs, cancelled, answer, trouble, spoilt>>
  BY DEF NextAsset, Checks
<1>3. PICK to \in {"finish", "ask", "discard", "retain"} :
        /\ dstage' = [dstage EXCEPT ![d] = to]
        /\ to \in {"finish", "retain"} => refs[d] = <<>>
        /\ dstage[d] \in {"next", "finish"} /\ (to = "ask" => dstage[d] = "next")
  BY <1>1 DEF NextAsset, Checks, Proceeds, StageOK
<1>4. dstage'[d] = to /\ \A e \in Downloads \ {d} : dstage'[e] = dstage[e]
  BY <1>1, <1>3 DEF DownloadTypeOK
<1>5. DownloadTypeOK'
  BY <1>1, <1>2, <1>3 DEF DownloadTypeOK
<1>6. BundleOK(d) /\ saved[d] # <<>> /\ answer[d] = "none" /\ (dstage[d] = "next" => Wanted[d].assets)
  BY <1>1, <1>3 DEF StageOK, Fetching
<1>7. Occupied(d)' = Occupied(d)
  BY <1>2 DEF Occupied
<1>8. BundleOK(d)'
  BY <1>2, <1>3, <1>6, <1>7 DEF BundleOK, Directory
<1>9. StageOK(d)'
  BY <1>2, <1>3, <1>4, <1>6, <1>8 DEF StageOK, BundleOK, Directory
<1>10. DownloadOK(d)'
  BY <1>1, <1>2, <1>6, <1>7, <1>9 DEF DownloadOK, LimitOK, WholeOK, GoneOK, BundleOK, Directory
<1> QED
  BY <1>2, <1>4, <1>5, <1>10, DownloadFrame

\* What is returned is whole, and the directory stays with its download.
LEMMA RetainStep ==
  ASSUME DownloadInd, NEW d \in Downloads, Retain(d)
  PROVE  DownloadInd'
<1>1. DownloadTypeOK /\ DownloadOK(d) /\ StageOK(d)
  BY DownloadFacts
<1>2. /\ dstage[d] = "retain" /\ dstage' = [dstage EXCEPT ![d] = "done"]
      /\ UNCHANGED <<owner, saved, room, trusted, refs, cancelled>>
  BY DEF Retain, Proceeds
<1>3. PICK a \in {"ok", "error"} :
        /\ answer' = [answer EXCEPT ![d] = a] /\ trouble' \in 0..MaxTrouble
        /\ spoilt' \in {spoilt, spoilt \cup {d}} /\ (a = "error" => d \in spoilt')
  <2>1. CASE Replies(d, "ok") /\ UNCHANGED <<trouble, spoilt>>
    BY <1>1, <2>1 DEF Replies, DownloadTypeOK
  <2>2. CASE Replies(d, "error") /\ Spoils(d)
    BY <1>1, <2>2, DownloadAssumption DEF Replies, Spoils, DownloadTypeOK
  <2> QED
    BY <2>1, <2>2 DEF Retain
<1>4. /\ dstage'[d] = "done" /\ answer'[d] = a
      /\ \A e \in Downloads \ {d} : dstage'[e] = dstage[e] /\ answer'[e] = answer[e]
  BY <1>1, <1>2, <1>3 DEF DownloadTypeOK
<1>5. DownloadTypeOK'
  BY <1>1, <1>2, <1>3 DEF DownloadTypeOK
<1>6. BundleOK(d) /\ saved[d] # <<>> /\ refs[d] = <<>>
  BY <1>1, <1>2 DEF StageOK, Fetching
<1>7. Occupied(d)' = Occupied(d)
  BY <1>2 DEF Occupied
<1>8. LimitOK(d)' /\ WholeOK(d)' /\ GoneOK(d)'
  <2>1. \A i \in DOMAIN saved[d] : saved[d][i].whole
    BY <1>2, <1>6 DEF BundleOK
  <2> QED
    BY <1>1, <1>2, <1>3, <1>4, <1>6, <1>7, <2>1 DEF DownloadOK, LimitOK, WholeOK, GoneOK, BundleOK, Directory
<1>9. DownloadOK(d)'
  BY <1>3, <1>4, <1>8 DEF DownloadOK, StageOK, Fetching
<1> QED
  BY <1>2, <1>3, <1>4, <1>5, <1>9, DownloadFrame

\* What is discarded goes, or stays on disk and is on record as spoilt.
LEMMA DiscardStep ==
  ASSUME DownloadInd, NEW d \in Downloads, Discard(d)
  PROVE  DownloadInd'
<1>1. /\ DownloadTypeOK /\ DownloadOK(d) /\ StageOK(d) /\ LimitOK(d) /\ saved[d] \in Seq(SavedFiles)
      /\ Len(saved[d]) \in Nat /\ DOMAIN saved[d] = 1..Len(saved[d])
      /\ Occupied(d) \in Nat /\ Wanted[d].limit \in Nat
  BY DownloadFacts
<1>2. /\ dstage[d] = "discard" /\ dstage' = [dstage EXCEPT ![d] = "remove"]
      /\ UNCHANGED <<owner, room, trusted, refs, cancelled, answer>>
      /\ owner[Directory(d)] = d /\ answer[d] = "none"
  BY <1>1 DEF Discard, Proceeds, StageOK
<1>3. dstage'[d] = "remove" /\ \A e \in Downloads \ {d} : dstage'[e] = dstage[e]
  BY <1>1, <1>2 DEF DownloadTypeOK
<1>4. ASSUME NEW r \in Seq(SavedFiles), saved' = [saved EXCEPT ![d] = r],
             Totals(r)[Len(r)] <= Wanted[d].limit,
             trouble' \in 0..MaxTrouble, spoilt' \in {spoilt, spoilt \cup {d}}, r = <<>> \/ d \in spoilt'
      PROVE  DownloadInd'
  <2>1. saved'[d] = r /\ \A e \in Downloads \ {d} : saved'[e] = saved[e]
    BY <1>1, <1>4 DEF DownloadTypeOK
  <2>2. DownloadTypeOK'
    BY <1>1, <1>2, <1>4 DEF DownloadTypeOK
  <2>3. Occupied(d)' <= Wanted[d].limit
    BY <1>4, <2>1 DEF Occupied
  <2>4. DownloadOK(d)'
    BY <1>2, <1>3, <1>4, <2>1, <2>3 DEF DownloadOK, LimitOK, WholeOK, GoneOK, StageOK, Fetching, Directory
  <2> QED
    BY <1>2, <1>3, <1>4, <2>1, <2>2, <2>4, DownloadFrame
<1>5. CASE saved' = [saved EXCEPT ![d] = <<>>] /\ UNCHANGED <<trouble, spoilt>>
  <2> DEFINE none == <<>>
  <2>1. none \in Seq(SavedFiles) /\ Len(none) = 0
    BY EmptySeq
  <2>2. Totals(none)[Len(none)] <= Wanted[d].limit
    <3> HIDE DEF none
    <3>1. Totals(none)[0] = 0
      BY <2>1, TotalsAre
    <3> QED
      BY <1>1, <2>1, <3>1
  <2> QED
    BY <1>1, <1>4, <1>5, <2>1, <2>2 DEF DownloadTypeOK
<1>6. CASE Spoils(d) /\ \E i \in DOMAIN saved[d] : saved' = [saved EXCEPT ![d] = <<saved[d][i]>>]
  <2>1. PICK i \in 1..Len(saved[d]) : saved' = [saved EXCEPT ![d] = <<saved[d][i]>>]
    BY <1>1, <1>6
  <2> DEFINE f == saved[d][i]  r == <<f>>
  <2>2. f \in SavedFiles /\ f.bytes \in Nat /\ f.bytes <= Occupied(d)
    BY <1>1, ElementOfSeq, FileWithin DEF Occupied
  <2> HIDE DEF f
  <2>3. r \in Seq(SavedFiles) /\ Len(r) = 1 /\ r[1] = f
    BY <2>2
  <2> HIDE DEF r
  <2>4. Totals(r)[1] = f.bytes
    <3>1. 1 \in 1..Len(r) /\ 1 - 1 = 0
      BY <2>3
    <3>2. Totals(r)[0] = 0 /\ Totals(r)[1] = Totals(r)[1 - 1] + r[1].bytes
      BY <2>3, <3>1, TotalsAre
    <3> QED
      BY <2>2, <2>3, <3>1, <3>2
  <2>5. Totals(r)[Len(r)] <= Wanted[d].limit
    BY <1>1, <2>2, <2>3, <2>4 DEF LimitOK
  <2>6. trouble' \in 0..MaxTrouble /\ spoilt' = spoilt \cup {d}
    BY <1>1, <1>6, DownloadAssumption DEF Spoils, DownloadTypeOK
  <2> QED
    BY <1>4, <2>1, <2>3, <2>5, <2>6 DEF r, f
<1> QED
  BY <1>5, <1>6 DEF Discard

\* The directory of a failed download goes, unless it cannot be removed.
LEMMA RemoveStep ==
  ASSUME DownloadInd, NEW d \in Downloads, RemoveDirectory(d)
  PROVE  DownloadInd'
<1>1. /\ DownloadTypeOK /\ DownloadOK(d) /\ StageOK(d) /\ LimitOK(d) /\ d # NoOwner
      /\ Directory(d) \in DOMAIN owner
  BY DownloadFacts
<1>2. /\ dstage[d] = "remove" /\ dstage' = [dstage EXCEPT ![d] = "done"]
      /\ answer' = [answer EXCEPT ![d] = "error"] /\ UNCHANGED <<saved, room, trusted, refs, cancelled>>
      /\ owner[Directory(d)] = d /\ (d \notin spoilt => saved[d] = <<>>)
  BY <1>1 DEF RemoveDirectory, Proceeds, Replies, StageOK
<1>3. /\ dstage'[d] = "done" /\ answer'[d] = "error"
      /\ \A e \in Downloads \ {d} : dstage'[e] = dstage[e] /\ answer'[e] = answer[e]
  BY <1>1, <1>2 DEF DownloadTypeOK
<1>4. LimitOK(d)'
  BY <1>1, <1>2 DEF LimitOK, Occupied
<1>5. CASE saved[d] # <<>> /\ UNCHANGED <<owner, trouble, spoilt>>
  <2>1. DownloadTypeOK'
    BY <1>1, <1>2, <1>5 DEF DownloadTypeOK
  <2>2. DownloadOK(d)'
    BY <1>2, <1>3, <1>4, <1>5 DEF DownloadOK, WholeOK, GoneOK, StageOK, Fetching, Directory
  <2> QED
    BY <1>2, <1>3, <1>5, <2>1, <2>2, DownloadFrame
<1>6. CASE saved[d] = <<>> /\ owner' = [owner EXCEPT ![Directory(d)] = NoOwner] /\ UNCHANGED <<trouble, spoilt>>
  <2>1. DownloadTypeOK' /\ owner'[Directory(d)] = NoOwner
    BY <1>1, <1>2, <1>6 DEF DownloadTypeOK
  <2>2. DownloadOK(d)'
    BY <1>1, <1>2, <1>3, <1>4, <1>6, <2>1 DEF DownloadOK, WholeOK, GoneOK, StageOK, Fetching, Directory
  <2> QED
    BY <1>2, <1>3, <1>6, <2>1, <2>2, DownloadFrame
<1>7. CASE Spoils(d) /\ UNCHANGED owner
  <2>1. DownloadTypeOK' /\ d \in spoilt' /\ spoilt' = spoilt \cup {d}
    BY <1>1, <1>2, <1>7, DownloadAssumption DEF DownloadTypeOK, Spoils
  <2>2. DownloadOK(d)'
    BY <1>2, <1>3, <1>4, <1>7, <2>1 DEF DownloadOK, WholeOK, GoneOK, StageOK, Fetching, Directory
  <2> QED
    BY <1>2, <1>3, <1>7, <2>1, <2>2, DownloadFrame
<1> QED
  BY <1>5, <1>6, <1>7 DEF RemoveDirectory

\* A caller that gives up changes nothing yet on disk.
LEMMA CancelStep ==
  ASSUME DownloadInd, NEW d \in Downloads, Cancel(d)
  PROVE  DownloadInd'
<1>1. DownloadTypeOK /\ DownloadOK(d)
  BY DownloadFacts
<1>2. /\ DOMAIN cancelled' = DOMAIN cancelled
      /\ UNCHANGED <<dstage, owner, saved, room, trusted, refs, answer, trouble, spoilt>>
  BY DEF Cancel
<1>3. DownloadTypeOK'
  BY <1>1, <1>2 DEF DownloadTypeOK
<1>4. DownloadOK(d)'
  BY <1>1, <1>2, SameDownload
<1> QED
  BY <1>2, <1>3, <1>4, DownloadFrame

\* A process that dies leaves its files, and never answers.
LEMMA KilledStep ==
  ASSUME DownloadInd, NEW d \in Downloads, Killed(d)
  PROVE  DownloadInd'
<1>1. DownloadTypeOK /\ DownloadOK(d) /\ StageOK(d)
  BY DownloadFacts
<1>2. /\ dstage[d] # "done" /\ dstage' = [dstage EXCEPT ![d] = "done"]
      /\ UNCHANGED <<owner, saved, room, trusted, refs, cancelled, answer>>
      /\ trouble' \in 0..MaxTrouble /\ spoilt' = spoilt \cup {d} /\ d \in spoilt' /\ answer[d] = "none"
  BY <1>1, DownloadAssumption DEF Killed, Proceeds, Spoils, DownloadTypeOK, StageOK
<1>3. dstage'[d] = "done" /\ \A e \in Downloads \ {d} : dstage'[e] = dstage[e]
  BY <1>1, <1>2 DEF DownloadTypeOK
<1>4. DownloadTypeOK'
  BY <1>1, <1>2 DEF DownloadTypeOK
<1>5. LimitOK(d)'
  BY <1>1, <1>2 DEF DownloadOK, LimitOK, Occupied
<1>6. DownloadOK(d)'
  BY <1>1, <1>2, <1>3, <1>5 DEF DownloadOK, WholeOK, GoneOK, StageOK, Fetching, Directory
<1> QED
  BY <1>2, <1>3, <1>4, <1>6, DownloadFrame

-----------------------------------------------------------------------------
\* At first no download has begun.
LEMMA DownloadsStart == DownloadsInit => DownloadInd
<1> SUFFICES ASSUME DownloadsInit PROVE DownloadInd
  OBVIOUS
<1>1. <<>> \in Seq(SavedFiles) /\ Len(<<>>) = 0
  BY EmptySeq
<1>2. DownloadTypeOK
  BY <1>1, DownloadAssumption DEF DownloadsInit, DownloadTypeOK, NoOwner
<1>3. ASSUME NEW d \in Downloads PROVE DownloadOK(d)
  <2>1. /\ dstage[d] = "create" /\ saved[d] = <<>> /\ refs[d] = <<>> /\ room[d] = Wanted[d].limit
        /\ trusted[d] = Wanted[d].allowed /\ answer[d] = "none" /\ Wanted[d].limit \in Nat
        /\ owner[Directory(d)] = NoOwner /\ d # NoOwner
    BY DownloadAssumption DEF DownloadsInit, Directory, NoOwner
  <2>2. Occupied(d) = 0
    BY <1>1, <2>1, TotalsAre DEF Occupied
  <2> QED
    BY <2>1, <2>2 DEF DownloadOK, LimitOK, WholeOK, GoneOK, StageOK, Unmade, Fetching
<1>4. AllOK
  BY <1>3 DEF AllOK
<1> QED
  BY <1>2, <1>4, DownloadParts

\* Each step of each download.
LEMMA DownloadsStep == DownloadInd /\ [DownloadsNext]_downloadVars => DownloadInd'
<1> SUFFICES ASSUME DownloadInd, [DownloadsNext]_downloadVars PROVE DownloadInd'
  OBVIOUS
<1>1. CASE DownloadsNext
  BY <1>1, CreateStep, AskStep, AskFailsStep, CopyStep, CopyFailsStep, ScanStep, NextAssetStep, RetainStep,
     DiscardStep, RemoveStep, CancelStep, KilledStep DEF DownloadsNext
<1>2. CASE UNCHANGED downloadVars
  <2>0. UNCHANGED <<dstage, owner, saved, room, trusted>> /\ UNCHANGED <<refs, cancelled, answer, trouble, spoilt>>
    BY <1>2 DEF downloadVars
  <2>1. DownloadTypeOK'
    BY <2>0, DownloadParts DEF DownloadTypeOK
  <2>2. AllOK'
    BY <2>0, DownloadParts, SameDownload DEF AllOK
  <2> QED
    BY <2>1, <2>2, DownloadParts, PTL
<1> QED
  BY <1>1, <1>2

\* Whatever is served, refused, cut off, cancelled or killed, a download
\* keeps within its limit on disk at every moment, returns only whole files
\* of its own directory and of the origins asked for, and leaves nothing
\* behind when it fails and could remove what it had written (download.go,
\* download_assets.go, platform/download_directory.go).
THEOREM DownloadSafety == DownloadsSpec => []DownloadInd
<1> QED
  BY DownloadsStart, DownloadsStep, PTL DEF DownloadsSpec
=============================================================================

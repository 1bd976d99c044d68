----------------------------- MODULE PageProofs -----------------------------
(***************************************************************************)
(* Proofs about what is made of a page once it is acquired: its read       *)
(* (PageRead), the decisions a model takes about it (Decisions) and the    *)
(* selection of the chunks of its answer (Packing).                        *)
(***************************************************************************)
EXTENDS PageRead, Decisions, Packing, ListLemmas

-----------------------------------------------------------------------------
(***************************************************************************)
(* Proofs about PageRead: whatever a page names, its site lists, the       *)
(* robots policy forbids and the deadline leaves time for, PageInd holds.  *)
(*                                                                         *)
(* PageInd carries, beside the promises of a read, the modes a stage asks  *)
(* for (ModesInv), that the candidates of a batch are new and allowed      *)
(* (BatchInv), that the pages in hand were fetched and end at the third    *)
(* (FramesInv), and which stages of the trace are not complete             *)
(* (StagesInv).                                                            *)
(***************************************************************************)

Stages == {"acquire", "agent_readable", "reduce", "render", "segment", "pack"}
Batches == {"declared", "guessed", "listed"}

\* There is a source of the foremost priority in any set of some.
LEMMA FirstIn ==
  ASSUME NEW S \in SUBSET Sources, S # {}
  PROVE  First(S) \in S
<1> DEFINE T == {Priority[c] : c \in S}
<1>1. T \in SUBSET Nat /\ T # {}
  BY PageConstants
<1>2. PICK n \in T : \A m \in T : n <= m
  <2> HIDE DEF T
  <2> QED
    BY <1>1, LeastNat
<1>3. PICK c \in S : n = Priority[c]
  OBVIOUS
<1>4. \A other \in S : Priority[c] <= Priority[other]
  BY <1>2, <1>3
<1> QED
  BY <1>4 DEF First

\* A batch is made of the sources there are.
LEMMA BatchWithin ==
  ASSUME NEW S \in SUBSET Sources
  PROVE  Foremost(S) \subseteq S /\ Balanced(S) \subseteq S
<1>1. Foremost(S) \subseteq S
  BY DEF Foremost
<1>2. ASSUME NEW kind, NEW batch \in SUBSET S
      PROVE  Ensured(kind, batch, S) \subseteq S
  <2> DEFINE such == {c \in S : KindOf[c] = kind}
             others == {c \in batch : KindOf[c] \notin {"catalog", "service"}}
  <2>1. Ensured(kind, batch, S) =
          IF such = {} \/ such \cap batch # {} \/ others = {} THEN batch
          ELSE (batch \ {Hindmost(others)}) \cup {First(such)}
    BY DEF Ensured
  <2>2. such # {} => First(such) \in such
    <3>1. such \in SUBSET Sources
      OBVIOUS
    <3> HIDE DEF such
    <3> QED
      BY <3>1, FirstIn
  <2> QED
    BY <2>1, <2>2
<1> QED
  BY <1>1, <1>2 DEF Balanced

\* The links that are followed are sources, and below the second page there
\* are none.
LEMMA FollowsWithin ==
  ASSUME NEW at \in Sources, NEW kind, NEW depth, NEW links \in Follows(at, kind, depth)
  PROVE  links \in SUBSET Sources /\ (depth >= 2 => links = {})
<1>1. LinksOf[at] \subseteq Sources
  BY PageConstants
<1>2. Foremost(LinksOf[at]) \subseteq LinksOf[at]
  BY <1>1, BatchWithin
<1> QED
  BY <1>1, <1>2 DEF Follows

-----------------------------------------------------------------------------
(* What a step leaves alone *)

\* A step outside the batches keeps what is known of the probes.
LEMMA ProbesFrame ==
  ASSUME PageInd, UNCHANGED <<ask, probeVars>>, rstep' \notin Batches,
         rstep' \in {"acquire", "resolve"} => rstep \in {"acquire", "resolve"},
         page'.at \in {Seed, page.at} \cup ToSet(accepted)
  PROVE  RobotsInv' /\ SourceInv' /\ ProbeInv' /\ BatchInv' /\ FramesInv'
<1>1. /\ RobotsInv /\ SourceInv /\ ProbeInv /\ BatchInv /\ FramesInv
      /\ UNCHANGED <<ask, pending, offered, frames, accepted, robots, listed>>
      /\ UNCHANGED <<probed, followed, guessing>>
  BY DEF PageInd, probeVars
<1>2. RobotsInv'
  BY <1>1 DEF RobotsInv
<1>3. SourceInv'
  BY <1>1 DEF SourceInv
<1>4. ProbeInv'
  BY <1>1 DEF ProbeInv
<1>5. BatchInv'
  <2>1. rstep' # "declared" /\ (rstep' \in {"acquire", "resolve"} => rstep \in {"acquire", "resolve"})
    BY DEF Batches
  <2>2. rstep = "declared" => robots = NoRobots
    BY <1>1 DEF BatchInv
  <2> QED
    BY <1>1, <2>1, <2>2 DEF BatchInv
<1>6. FramesInv'
  BY <1>1 DEF FramesInv
<1> QED
  BY <1>2, <1>3, <1>4, <1>5, <1>6

\* A step within the batches leaves the page and the trace alone.
LEMMA BatchFrame ==
  ASSUME PageInd, InBatch, rstep' \in Batches, UNCHANGED <<ask, page, dom, guessing, trace, failure>>,
         rstep' # rstep => guessing
  PROVE  SamePageInv' /\ RenderInv' /\ TraceInv' /\ ModesInv' /\ StagesInv'
<1>1. SamePageInv /\ RenderInv /\ TraceInv /\ ModesInv /\ StagesInv /\ rstep \in Batches
  BY DEF PageInd, InBatch, Batches
<1>2. SamePageInv'
  BY DEF SamePageInv, Batches, Reducing, Building
<1>3. RenderInv'
  BY <1>1 DEF RenderInv, Batches, Building
<1>4. TraceInv'
  BY <1>1 DEF TraceInv, Batches, Building
<1>5. ModesInv'
  BY <1>1 DEF ModesInv, InBatch, Batches
<1>6. StagesInv'
  BY <1>1 DEF StagesInv, InBatch, Batches
<1> QED
  BY <1>2, <1>3, <1>4, <1>5, <1>6

-----------------------------------------------------------------------------
(* The trace *)

\* A stage that is not active is entered at the end of the trace.
LEMMA Entered ==
  ASSUME PageTypeOK, NEW stage \in Stages, NEW done \in BOOLEAN, NEW next, NEW cause,
         ~Begun(stage), Records(stage, done, next, cause)
  PROVE  /\ rstep' = next /\ failure' = cause /\ trace' \in Seq(Entries)
         /\ DOMAIN trace = 1..Len(trace) /\ DOMAIN trace' = 1..(Len(trace) + 1)
         /\ Len(trace) \in Nat /\ Len(trace') = Len(trace) + 1
         /\ \A i \in 1..Len(trace) : trace'[i] = trace[i]
         /\ trace'[Len(trace) + 1] = Entry(stage, done)
<1> DEFINE e == Entry(stage, done)
<1>1. rstep' = next /\ failure' = cause /\ trace' = Append(trace, e)
  BY DEF Records
<1>2. e \in Entries
  BY DEF Entry, Entries, Stages
<1>3. trace \in Seq(Entries)
  BY DEF PageTypeOK
<1> HIDE DEF e
<1>4. /\ Append(trace, e) \in Seq(Entries) /\ Len(Append(trace, e)) = Len(trace) + 1
      /\ \A i \in 1..Len(trace) : Append(trace, e)[i] = trace[i]
      /\ Append(trace, e)[Len(trace) + 1] = e
  BY <1>2, <1>3, AppendProperties
<1>5. Len(trace) \in Nat /\ DOMAIN trace = 1..Len(trace)
  BY <1>3, LenProperties
<1>6. DOMAIN trace' = 1..Len(trace')
  BY <1>1, <1>4, LenProperties
<1> QED
  BY <1>1, <1>4, <1>5, <1>6 DEF e

\* What a step outside the batches may enter: a stage that is complete or the
\* one that the read fails with, and the reduction of a render in mode auto.
MayEnter(stage, done, next, cause) ==
  /\ rstep \notin Batches \cup {"failed"} /\ UNCHANGED ask
  /\ stage \in Stages /\ done \in BOOLEAN
  /\ next \in {"resolve", "render", "rereduce", "segment", "pack", "served", "failed"}
  /\ cause \in {"none", "fetch", "reduce", "render", "segment", "pack"}
  /\ (next = "failed") <=> (cause # "none")
  /\ stage = "reduce" => rstep \notin Building
  /\ rstep \in Building => page' = page /\ next \notin {"resolve", "render", "rereduce"}
  /\ next = "rereduce" => stage = "render"
  /\ \/ done \/ next = "failed"
     \/ /\ stage = "reduce" /\ rstep = "rereduce" /\ next = "segment"
        /\ ask.render = "auto" /\ ~page'.rendered

\* Outside the batches a stage is entered once, or again once it is complete.
LEMMA StageEntered ==
  ASSUME PageInd, NEW stage, NEW done, NEW next, NEW cause,
         MayEnter(stage, done, next, cause), Records(stage, done, next, cause)
  PROVE  /\ rstep' = next /\ failure' = cause /\ trace' \in Seq(Entries)
         /\ TraceInv' /\ StagesInv'
<1> /\ rstep \notin Batches \cup {"failed"} /\ UNCHANGED ask
    /\ stage \in Stages /\ done \in BOOLEAN
    /\ next \in {"resolve", "render", "rereduce", "segment", "pack", "served", "failed"}
    /\ cause \in {"none", "fetch", "reduce", "render", "segment", "pack"}
    /\ (next = "failed") <=> (cause # "none")
    /\ stage = "reduce" => rstep \notin Building
    /\ rstep \in Building => page' = page /\ next \notin {"resolve", "render", "rereduce"}
    /\ next = "rereduce" => stage = "render"
    /\ \/ done \/ next = "failed"
       \/ /\ stage = "reduce" /\ rstep = "rereduce" /\ next = "segment"
          /\ ask.render = "auto" /\ ~page'.rendered
  BY DEF MayEnter
<1>1. /\ PageTypeOK /\ TraceInv /\ StagesInv /\ ~InBatch
  BY DEF PageInd, InBatch, Batches
<1>2. \A i \in DOMAIN trace : ~trace[i].done =>
        /\ rstep \in Building /\ trace[i].stage = "reduce" /\ i > 1 /\ ask.render = "auto"
        /\ trace[i - 1].stage = "render" /\ ~page.rendered
  BY <1>1 DEF StagesInv, TraceInv
<1>3. ~Begun(stage)
  BY <1>2 DEF Begun
<1> DEFINE n == Len(trace)
<1>4. /\ rstep' = next /\ failure' = cause /\ trace' \in Seq(Entries)
      /\ DOMAIN trace = 1..n /\ DOMAIN trace' = 1..(n + 1) /\ n \in Nat /\ Len(trace') = n + 1
      /\ \A i \in 1..n : trace'[i] = trace[i]
      /\ trace'[n + 1] = Entry(stage, done)
  BY <1>1, <1>3, Entered
<1> HIDE DEF n
<1>5. next # "failed" => \A i \in DOMAIN trace' : ~trace'[i].done =>
        /\ next \in Building /\ trace'[i].stage = "reduce" /\ i > 1 /\ ask.render = "auto"
        /\ trace'[i - 1].stage = "render" /\ ~page'.rendered
  <2> SUFFICES ASSUME next # "failed", NEW i \in 1..(n + 1), ~trace'[i].done
               PROVE  /\ next \in Building /\ trace'[i].stage = "reduce" /\ i > 1 /\ ask.render = "auto"
                      /\ trace'[i - 1].stage = "render" /\ ~page'.rendered
    BY <1>4
  <2>1. CASE i \in 1..n
    <3>1. /\ rstep \in Building /\ trace[i].stage = "reduce" /\ i > 1 /\ ask.render = "auto"
          /\ trace[i - 1].stage = "render" /\ ~page.rendered
      BY <1>2, <1>4, <2>1
    <3>2. i - 1 \in 1..n
      BY <1>4, <2>1, <3>1
    <3>3. next \in Building
      BY <3>1 DEF Building
    <3> QED
      BY <1>4, <2>1, <3>1, <3>2, <3>3
  <2>2. CASE i = n + 1
    <3>1. ~done
      BY <1>4, <2>2 DEF Entry
    <3>2. /\ stage = "reduce" /\ rstep = "rereduce" /\ next = "segment"
          /\ ask.render = "auto" /\ ~page'.rendered
      BY <3>1
    <3>3. trace # <<>> /\ trace[n].stage = "render"
      BY <1>1, <3>2 DEF StagesInv, n
    <3>4. n # 0
      BY <1>1, <3>3, EmptySeq DEF PageTypeOK, n
    <3>5. n \in 1..n /\ i > 1 /\ i - 1 = n
      BY <1>4, <2>2, <3>4
    <3>6. trace'[i].stage = "reduce"
      BY <1>4, <2>2, <3>2 DEF Entry
    <3> QED
      BY <1>4, <3>2, <3>3, <3>5, <3>6 DEF Building
  <2> QED
    BY <1>4, <2>1, <2>2
<1>6. TraceInv'
  <2>1. failure' # "recorder" /\ (rstep' = "failed" <=> failure' # "none")
    BY <1>4
  <2>2. rstep' \in Building => next # "failed"
    BY <1>4 DEF Building
  <2> QED
    BY <1>4, <1>5, <2>1, <2>2 DEF TraceInv
<1>7. StagesInv'
  <2>1. ~InBatch'
    BY <1>4 DEF InBatch
  <2>2. rstep' = "rereduce" => trace' # <<>> /\ trace'[Len(trace')].stage = "render"
    <3> SUFFICES ASSUME next = "rereduce" PROVE trace' # <<>> /\ trace'[n + 1].stage = "render"
      BY <1>4
    <3>1. trace'[n + 1].stage = "render"
      BY <1>4 DEF Entry
    <3>2. Len(trace') # 0
      BY <1>4
    <3> QED
      BY <3>1, <3>2, EmptySeq
  <2> QED
    BY <1>4, <1>5, <2>1, <2>2 DEF StagesInv
<1> QED
  BY <1>4, <1>6, <1>7

-----------------------------------------------------------------------------
(* Steps outside the batches *)

\* What is left to show of a step that leaves the probes alone.
LEMMA OutsideStep ==
  ASSUME PageInd, UNCHANGED <<ask, probeVars>>, rstep' \in Steps \ (Batches \cup {"acquire"}),
         rstep' = "resolve" => rstep = "acquire",
         page' \in [at : Sources \cup {Seed}, html : BOOLEAN, rendered : BOOLEAN],
         page'.at \in {Seed, page.at} \cup ToSet(accepted),
         spare' \in Spare, trace' \in Seq(Entries),
         failure' \in {"none", "recorder", "fetch", "reduce", "render", "segment", "pack"},
         TraceInv', StagesInv', SamePageInv', RenderInv',
         rstep' = "rereduce" => ask.render # "off" /\ ~page'.rendered
  PROVE  PageInd'
<1>1. RobotsInv' /\ SourceInv' /\ ProbeInv' /\ BatchInv' /\ FramesInv'
  BY ProbesFrame
<1>2. PageTypeOK'
  BY DEF PageInd, PageTypeOK, probeVars
<1>3. ModesInv'
  <2>1. ~InBatch' /\ rstep' \notin {"guessed", "listed"}
    BY DEF InBatch, Batches
  <2>2. guessing' = guessing /\ (guessing => ask.agent = "auto")
    BY DEF PageInd, ModesInv, probeVars
  <2> QED
    BY <2>1, <2>2 DEF ModesInv
<1> QED
  BY <1>1, <1>2, <1>3 DEF PageInd

\* What time is left after a call is time.
LEMMA TimePasses ==
  ASSUME PageTypeOK
  PROVE  /\ spare \in Spare /\ failure \in {"none", "recorder", "fetch", "reduce", "render", "segment", "pack"}
         /\ page \in [at : Sources \cup {Seed}, html : BOOLEAN, rendered : BOOLEAN]
         /\ trace \in Seq(Entries) /\ ask.render \in {"auto", "off", "required"}
BY DEF PageTypeOK

\* The page is acquired, or the read fails.
LEMMA AcquiredStep ==
  ASSUME PageInd, Acquired \/ NotAcquired
  PROVE  PageInd'
<1>1. PageTypeOK /\ RenderInv /\ (failure = "none" <=> rstep # "failed")
  BY DEF PageInd, TraceInv
<1>2. /\ rstep = "acquire" /\ spare' \in Spare /\ UNCHANGED <<ask, dom, probeVars>>
  BY DEF Acquired, NotAcquired
<1>3. CASE Acquired
  <2>1. PICK html \in BOOLEAN : page' = PageOf(Seed, html)
    BY <1>3 DEF Acquired
  <2>2. Records("acquire", TRUE, "resolve", "none")
    BY <1>1, <1>2, <1>3 DEF Acquired
  <2>3. rstep' = "resolve" /\ failure' = "none" /\ trace' \in Seq(Entries) /\ TraceInv' /\ StagesInv'
    <3>1. MayEnter("acquire", TRUE, "resolve", "none")
      BY <1>2, <2>2 DEF MayEnter, Stages, Batches, Building
    <3> QED
      BY <1>2, <2>2, <3>1, StageEntered
  <2>4. SamePageInv' /\ RenderInv'
    BY <2>1, <2>3 DEF SamePageInv, RenderInv, Reducing, Building, PageOf
  <2>5. page' \in [at : Sources \cup {Seed}, html : BOOLEAN, rendered : BOOLEAN] /\ page'.at = Seed
    BY <2>1 DEF PageOf
  <2> QED
    BY <1>2, <2>3, <2>4, <2>5, OutsideStep DEF Steps, Batches
<1>4. CASE NotAcquired
  <2>1. Records("acquire", FALSE, "failed", "fetch") /\ page' = page
    BY <1>4 DEF NotAcquired
  <2>3. rstep' = "failed" /\ failure' = "fetch" /\ trace' \in Seq(Entries) /\ TraceInv' /\ StagesInv'
    <3>1. MayEnter("acquire", FALSE, "failed", "fetch")
      BY <1>2, <2>1 DEF MayEnter, Stages, Batches, Building
    <3> QED
      BY <1>2, <2>1, <3>1, StageEntered
  <2>4. SamePageInv' /\ RenderInv'
    BY <1>1, <1>2, <2>1, <2>3 DEF SamePageInv, RenderInv, Reducing, Building
  <2> QED
    BY <1>1, <1>2, <2>1, <2>3, <2>4, OutsideStep, TimePasses DEF Steps, Batches
<1> QED
  BY <1>3, <1>4

\* Sources are not looked for.
LEMMA SkipResolveStep ==
  ASSUME PageInd, SkipResolve
  PROVE  PageInd'
<1>1. PageTypeOK /\ RenderInv /\ TraceInv /\ StagesInv
  BY DEF PageInd
<1>2. /\ rstep = "resolve" /\ rstep' = "reduce"
      /\ UNCHANGED <<ask, spare, page, dom, probeVars, trace, failure>>
  BY DEF SkipResolve
<1>3. SamePageInv' /\ RenderInv'
  <2>1. rstep' \notin Building
    BY <1>2 DEF Building
  <2> QED
    BY <1>1, <1>2, <2>1 DEF RenderInv, SamePageInv, Reducing
<1>4. TraceInv'
  BY <1>1, <1>2 DEF TraceInv, Building
<1>5. StagesInv'
  BY <1>1, <1>2 DEF StagesInv, InBatch, Building
<1> QED
  BY <1>1, <1>2, <1>3, <1>4, <1>5, OutsideStep, TimePasses DEF Steps, Batches

\* The page in hand is reduced, or the read fails.
LEMMA ReducedStep ==
  ASSUME PageInd, Reduced \/ NotReduced
  PROVE  PageInd'
<1>1. PageTypeOK /\ RenderInv /\ (failure = "none" <=> rstep # "failed")
  BY DEF PageInd, TraceInv
<1>2. rstep = "reduce" /\ UNCHANGED <<ask, spare, page, probeVars>>
  BY DEF Reduced, NotReduced
<1>3. CASE Reduced
  <2>1. Records("reduce", TRUE, "render", "none") /\ dom' = page
    BY <1>1, <1>2, <1>3 DEF Reduced
  <2>2. rstep' = "render" /\ failure' = "none" /\ trace' \in Seq(Entries) /\ TraceInv' /\ StagesInv'
    <3>1. MayEnter("reduce", TRUE, "render", "none")
      BY <1>2, <2>1 DEF MayEnter, Stages, Batches, Building
    <3> QED
      BY <1>2, <2>1, <3>1, StageEntered
  <2>3. SamePageInv' /\ RenderInv'
    BY <1>1, <1>2, <2>1, <2>2 DEF SamePageInv, RenderInv, Building
  <2> QED
    BY <1>1, <1>2, <2>2, <2>3, OutsideStep, TimePasses DEF Steps, Batches
<1>4. CASE NotReduced
  <2>1. Records("reduce", FALSE, "failed", "reduce")
    BY <1>4 DEF NotReduced
  <2>2. rstep' = "failed" /\ failure' = "reduce" /\ trace' \in Seq(Entries) /\ TraceInv' /\ StagesInv'
    <3>1. MayEnter("reduce", FALSE, "failed", "reduce")
      BY <1>2, <2>1 DEF MayEnter, Stages, Batches, Building
    <3> QED
      BY <1>2, <2>1, <3>1, StageEntered
  <2>3. SamePageInv' /\ RenderInv'
    BY <1>1, <1>2, <2>2 DEF SamePageInv, RenderInv, Reducing, Building
  <2> QED
    BY <1>1, <1>2, <2>2, <2>3, OutsideStep, TimePasses DEF Steps, Batches
<1> QED
  BY <1>3, <1>4

\* Nothing is rendered, or in vain; only a render that was not required is
\* passed over.
LEMMA NotRenderedStep ==
  ASSUME PageInd, SkipRender \/ RenderFails
  PROVE  PageInd'
<1>1. /\ PageTypeOK /\ SamePageInv /\ RenderInv /\ TraceInv /\ StagesInv
      /\ (failure = "none" <=> rstep # "failed")
  BY DEF PageInd, TraceInv
<1>2. rstep = "render" /\ UNCHANGED <<ask, page, dom, probeVars>>
  BY DEF SkipRender, RenderFails
<1>3. spare' \in Spare
  BY <1>1, TimePasses DEF SkipRender, RenderFails
<1>4. SamePageInv'
  BY <1>1, <1>2 DEF SamePageInv, Reducing
<1>5. ASSUME rstep' \notin Building \/ ask.render # "required" PROVE RenderInv'
  BY <1>1, <1>2, <1>5 DEF RenderInv
<1>6. CASE SkipRender
  <2>1. rstep' = "segment" /\ ask.render # "required" /\ UNCHANGED <<trace, failure>>
    BY <1>6 DEF SkipRender
  <2>2. \A i \in DOMAIN trace : trace[i].done
    BY <1>1, <1>2 DEF StagesInv, InBatch, Building
  <2>3. TraceInv' /\ StagesInv'
    BY <1>1, <1>2, <2>1, <2>2 DEF TraceInv, StagesInv
  <2> QED
    BY <1>1, <1>2, <1>3, <1>4, <1>5, <2>1, <2>3, OutsideStep, TimePasses DEF Steps, Batches
<1>7. CASE RenderFails /\ ask.render = "required"
  <2>1. Records("render", TRUE, "failed", "render")
    BY <1>7 DEF RenderFails
  <2>2. rstep' = "failed" /\ failure' = "render" /\ trace' \in Seq(Entries) /\ TraceInv' /\ StagesInv'
    <3>1. MayEnter("render", TRUE, "failed", "render")
      BY <1>2, <2>1 DEF MayEnter, Stages, Batches, Building
    <3> QED
      BY <1>2, <2>1, <3>1, StageEntered
  <2> QED
    BY <1>1, <1>2, <1>3, <1>4, <1>5, <2>2, OutsideStep, TimePasses DEF Steps, Batches, Building
<1>8. CASE RenderFails /\ ask.render # "required"
  <2>1. Records("render", TRUE, "segment", "none")
    BY <1>1, <1>2, <1>8 DEF RenderFails
  <2>2. rstep' = "segment" /\ failure' = "none" /\ trace' \in Seq(Entries) /\ TraceInv' /\ StagesInv'
    <3>1. MayEnter("render", TRUE, "segment", "none")
      BY <1>2, <2>1 DEF MayEnter, Stages, Batches, Building
    <3> QED
      BY <1>2, <2>1, <3>1, StageEntered
  <2> QED
    BY <1>1, <1>2, <1>3, <1>4, <1>5, <1>8, <2>2, OutsideStep, TimePasses DEF Steps, Batches
<1> QED
  BY <1>6, <1>7, <1>8

\* A render is over; the page in hand stays until it is reduced.
LEMMA RenderedStep ==
  ASSUME PageInd, Rendered
  PROVE  PageInd'
<1>1. PageTypeOK /\ SamePageInv /\ RenderInv /\ (failure = "none" <=> rstep # "failed")
  BY DEF PageInd, TraceInv
<1>2. /\ rstep = "render" /\ spare' \in Spare /\ ask.render # "off" /\ ~page.rendered
      /\ UNCHANGED <<ask, page, dom, probeVars>>
  BY DEF Rendered, MayRender
<1>3. Records("render", TRUE, "rereduce", "none")
  BY <1>1, <1>2 DEF Rendered
<1>4. rstep' = "rereduce" /\ failure' = "none" /\ trace' \in Seq(Entries) /\ TraceInv' /\ StagesInv'
  <2>1. MayEnter("render", TRUE, "rereduce", "none")
    BY <1>2, <1>3 DEF MayEnter, Stages, Batches, Building
  <2> QED
    BY <1>2, <1>3, <2>1, StageEntered
<1>5. SamePageInv' /\ RenderInv'
  BY <1>1, <1>2, <1>4 DEF SamePageInv, RenderInv, Reducing, Building
<1> QED
  BY <1>1, <1>2, <1>4, <1>5, OutsideStep, TimePasses DEF Steps, Batches

\* The rendered page takes the place of the other with its document.
LEMMA RenderedReducedStep ==
  ASSUME PageInd, RenderedReduced
  PROVE  PageInd'
<1>1. PageTypeOK /\ RenderInv /\ ModesInv /\ (failure = "none" <=> rstep # "failed")
  BY DEF PageInd, TraceInv
<1>2. /\ rstep = "rereduce" /\ page' = RenderedPage /\ dom' = RenderedPage
      /\ UNCHANGED <<ask, spare, probeVars>>
  BY DEF RenderedReduced
<1>3. Records("reduce", TRUE, "segment", "none")
  BY <1>1, <1>2 DEF RenderedReduced
<1>4. rstep' = "segment" /\ failure' = "none" /\ trace' \in Seq(Entries) /\ TraceInv' /\ StagesInv'
  <2>1. MayEnter("reduce", TRUE, "segment", "none")
    BY <1>2, <1>3 DEF MayEnter, Stages, Batches, Building
  <2> QED
    BY <1>2, <1>3, <2>1, StageEntered
<1>5. /\ page' \in [at : Sources \cup {Seed}, html : BOOLEAN, rendered : BOOLEAN]
      /\ page'.at = page.at /\ page'.rendered
  BY <1>1, <1>2 DEF RenderedPage, PageTypeOK
<1>6. SamePageInv' /\ RenderInv'
  BY <1>1, <1>2, <1>4, <1>5 DEF SamePageInv, RenderInv, ModesInv
<1> QED
  BY <1>1, <1>2, <1>4, <1>5, <1>6, OutsideStep, TimePasses DEF Steps, Batches

\* Without its document the rendered page is dropped, or the read fails.
LEMMA RenderedNotReducedStep ==
  ASSUME PageInd, RenderedNotReduced
  PROVE  PageInd'
<1>1. /\ PageTypeOK /\ SamePageInv /\ RenderInv /\ ModesInv
      /\ (failure = "none" <=> rstep # "failed")
  BY DEF PageInd, TraceInv
<1>2. rstep = "rereduce" /\ UNCHANGED <<ask, spare, page, dom, probeVars>>
  BY DEF RenderedNotReduced
<1>3. CASE ask.render = "required"
  <2>1. Records("reduce", FALSE, "failed", "reduce")
    BY <1>3 DEF RenderedNotReduced
  <2>2. rstep' = "failed" /\ failure' = "reduce" /\ trace' \in Seq(Entries) /\ TraceInv' /\ StagesInv'
    <3>1. MayEnter("reduce", FALSE, "failed", "reduce")
      BY <1>2, <2>1 DEF MayEnter, Stages, Batches, Building
    <3> QED
      BY <1>2, <2>1, <3>1, StageEntered
  <2>3. SamePageInv' /\ RenderInv'
    BY <1>1, <1>2, <2>2 DEF SamePageInv, RenderInv, Reducing, Building
  <2> QED
    BY <1>1, <1>2, <2>2, <2>3, OutsideStep, TimePasses DEF Steps, Batches
<1>4. CASE ask.render # "required"
  <2>1. Records("reduce", FALSE, "segment", "none")
    BY <1>1, <1>2, <1>4 DEF RenderedNotReduced
  <2>2. ask.render = "auto"
    BY <1>1, <1>2, <1>4, TimePasses DEF ModesInv
  <2>3. ~page.rendered
    BY <1>1, <1>2 DEF ModesInv
  <2>4. rstep' = "segment" /\ failure' = "none" /\ trace' \in Seq(Entries) /\ TraceInv' /\ StagesInv'
    <3>1. MayEnter("reduce", FALSE, "segment", "none")
      BY <1>2, <2>1, <2>2, <2>3 DEF MayEnter, Stages, Batches, Building
    <3> QED
      BY <1>2, <2>1, <2>2, <2>3, <3>1, StageEntered
  <2>5. SamePageInv' /\ RenderInv'
    BY <1>1, <1>2, <1>4, <2>4 DEF SamePageInv, RenderInv, Reducing
  <2> QED
    BY <1>1, <1>2, <2>4, <2>5, OutsideStep, TimePasses DEF Steps, Batches
<1> QED
  BY <1>3, <1>4

\* The document is cut into passages, or the read fails.
LEMMA SegmentedStep ==
  ASSUME PageInd, Segmented \/ Packed
  PROVE  PageInd'
<1>1. /\ PageTypeOK /\ SamePageInv /\ RenderInv /\ (failure = "none" <=> rstep # "failed")
  BY DEF PageInd, TraceInv
<1>2. /\ rstep \in {"segment", "pack"} /\ UNCHANGED <<ask, page, dom, probeVars>>
      /\ spare' \in Spare
  BY <1>1, TimePasses DEF Segmented, Packed
<1>3. \/ Records("segment", TRUE, "pack", "none") \/ Records("segment", FALSE, "failed", "segment")
      \/ Records("pack", TRUE, "served", "none") \/ Records("pack", FALSE, "failed", "pack")
  BY <1>1 DEF Segmented, Packed
<1>4. /\ rstep' \in {"pack", "served", "failed"} /\ failure' \in {"none", "segment", "pack"}
      /\ trace' \in Seq(Entries) /\ TraceInv' /\ StagesInv'
  <2>1. rstep \in Building /\ rstep \notin Batches \cup {"failed"}
    BY <1>2 DEF Building, Batches
  <2>2. CASE Records("segment", TRUE, "pack", "none")
    <3>1. MayEnter("segment", TRUE, "pack", "none")
      BY <1>2, <2>1, <2>2 DEF MayEnter, Stages, Batches, Building
    <3> QED
      BY <1>2, <2>1, <2>2, <3>1, StageEntered
  <2>3. CASE Records("segment", FALSE, "failed", "segment")
    <3>1. MayEnter("segment", FALSE, "failed", "segment")
      BY <1>2, <2>1, <2>3 DEF MayEnter, Stages, Batches, Building
    <3> QED
      BY <1>2, <2>1, <2>3, <3>1, StageEntered
  <2>4. CASE Records("pack", TRUE, "served", "none")
    <3>1. MayEnter("pack", TRUE, "served", "none")
      BY <1>2, <2>1, <2>4 DEF MayEnter, Stages, Batches, Building
    <3> QED
      BY <1>2, <2>1, <2>4, <3>1, StageEntered
  <2>5. CASE Records("pack", FALSE, "failed", "pack")
    <3>1. MayEnter("pack", FALSE, "failed", "pack")
      BY <1>2, <2>1, <2>5 DEF MayEnter, Stages, Batches, Building
    <3> QED
      BY <1>2, <2>1, <2>5, <3>1, StageEntered
  <2> QED
    BY <1>3, <2>2, <2>3, <2>4, <2>5
<1>5. SamePageInv' /\ RenderInv'
  BY <1>1, <1>2, <1>4 DEF SamePageInv, RenderInv, Reducing, Building
<1> QED
  BY <1>1, <1>2, <1>4, <1>5, OutsideStep, TimePasses DEF Steps, Batches

-----------------------------------------------------------------------------
(* Steps within the batches *)

\* Pages in hand, of sources that are known.
FramesOK(fs, known) ==
  /\ fs \in Seq(Frames) /\ Len(fs) <= 3
  /\ \A i \in 1..Len(fs) : fs[i].at \in known /\ (i > 2 => fs[i].links = {})

\* A page of a known source is read next.
LEMMA PageOpened ==
  ASSUME NEW fs, NEW known, FramesOK(fs, known), Len(fs) <= 2,
         NEW at \in Sources, at \in known, NEW kind \in {"variant", "catalog", "service", "llms"},
         NEW links \in SUBSET Sources, Len(fs) >= 2 => links = {}
  PROVE  FramesOK(Append(fs, [at |-> at, kind |-> kind, links |-> links]), known)
<1> DEFINE f == [at |-> at, kind |-> kind, links |-> links]  n == Len(fs)
<1>1. f \in Frames /\ f.at = at /\ f.links = links
  BY DEF Frames
<1>2. fs \in Seq(Frames) /\ \A i \in 1..n : fs[i].at \in known /\ (i > 2 => fs[i].links = {})
  BY DEF FramesOK
<1>3. n \in Nat /\ n <= 2
  BY <1>2, LenProperties
<1> HIDE DEF f
<1>4. /\ Append(fs, f) \in Seq(Frames) /\ Len(Append(fs, f)) = n + 1
      /\ \A i \in 1..n : Append(fs, f)[i] = fs[i]
      /\ Append(fs, f)[n + 1] = f
  BY <1>1, <1>2, AppendProperties
<1>7. n >= 2 => links = {}
  OBVIOUS
<1> HIDE DEF n
<1>5. ASSUME NEW i \in 1..(n + 1)
      PROVE  Append(fs, f)[i].at \in known /\ (i > 2 => Append(fs, f)[i].links = {})
  <2>1. CASE i \in 1..n
    BY <1>2, <1>4, <2>1
  <2>2. CASE i = n + 1
    <3>1. i > 2 => links = {}
      BY <1>3, <1>7, <2>2
    <3>2. Append(fs, f)[i] = f
      BY <1>4, <2>2
    <3>3. f.at \in known /\ (i > 2 => f.links = {})
      BY <1>1, <3>1
    <3> QED
      BY <3>2, <3>3
  <2>3. i \in 1..n \/ i = n + 1
    BY <1>3
  <2> QED
    BY <2>1, <2>2, <2>3
<1>6. n + 1 <= 3
  BY <1>3
<1> QED
  BY <1>4, <1>5, <1>6 DEF FramesOK, f

\* Links of the last page are used up.
LEMMA LinksUsed ==
  ASSUME NEW fs, NEW known, FramesOK(fs, known), fs # <<>>,
         NEW links, links \subseteq fs[Len(fs)].links
  PROVE  /\ FramesOK([fs EXCEPT ![Len(fs)].links = links], known)
         /\ Len([fs EXCEPT ![Len(fs)].links = links]) = Len(fs)
<1> DEFINE n == Len(fs)  f == [fs[n] EXCEPT !.links = links]  g == [fs EXCEPT ![n] = f]
<1>1. /\ fs \in Seq(Frames) /\ n <= 3
      /\ \A i \in 1..n : fs[i].at \in known /\ (i > 2 => fs[i].links = {})
  BY DEF FramesOK
<1>2. n \in Nat /\ n # 0
  BY <1>1, EmptySeq, LenProperties
<1>3. n \in 1..n
  BY <1>2
<1>4. fs[n] \in Frames
  BY <1>1, <1>3, ElementOfSeq
<1>5. f \in Frames /\ f.at = fs[n].at /\ f.links = links
  BY <1>4 DEF Frames
<1>6. [fs EXCEPT ![Len(fs)].links = links] = g
  OBVIOUS
<1> HIDE DEF f, n
<1>7. g \in Seq(Frames) /\ Len(g) = n /\ \A j \in 1..n : g[j] = IF j = n THEN f ELSE fs[j]
  BY <1>1, <1>3, <1>5, ExceptSeq DEF n
<1> HIDE DEF g
<1>8. \A i \in 1..n : g[i].at \in known /\ (i > 2 => g[i].links = {})
  <2> SUFFICES ASSUME NEW i \in 1..n PROVE g[i].at \in known /\ (i > 2 => g[i].links = {})
    OBVIOUS
  <2>1. CASE i = n
    <3>1. i > 2 => fs[n].links = {}
      BY <1>1, <2>1
    <3>2. links \subseteq fs[n].links
      BY DEF n
    <3> QED
      BY <1>1, <1>3, <1>5, <1>7, <2>1, <3>1, <3>2
  <2>2. CASE i # n
    BY <1>1, <1>7, <2>2
  <2> QED
    BY <2>1, <2>2
<1>9. FramesOK(g, known)
  BY <1>1, <1>7, <1>8 DEF FramesOK
<1> QED
  BY <1>6, <1>7, <1>9 DEF n

\* What the invariant says of the pages in hand.
Known == {p[1] : p \in probed} \cup followed
LEMMA PagesInHand ==
  ASSUME PageInd
  PROVE  FramesOK(frames, Known) /\ Known \subseteq Sources
<1>1. PageTypeOK /\ ProbeInv /\ FramesInv
  BY DEF PageInd
<1>2. DOMAIN frames = 1..Len(frames) /\ frames \in Seq(Frames)
  BY <1>1, LenProperties DEF PageTypeOK
<1>3. FramesOK(frames, Known)
  BY <1>1, <1>2 DEF ProbeInv, FramesInv, FramesOK, Known
<1>4. \A p \in probed : p[1] \in Sources
  BY <1>1 DEF PageTypeOK
<1> QED
  BY <1>1, <1>3, <1>4 DEF PageTypeOK, Known

\* What is known stays known.
LEMMA KnownGrows ==
  ASSUME NEW fs, NEW known, NEW more, FramesOK(fs, known), known \subseteq more
  PROVE  FramesOK(fs, more)
BY DEF FramesOK

\* What is left to show of a step within a batch.
LEMMA WithinStep ==
  ASSUME PageInd, InBatch, rstep' \in Batches, UNCHANGED <<ask, page, dom, guessing, trace, failure>>,
         rstep' # rstep => guessing,
         spare' \in Spare, pending' \cup offered' \cup listed' \cup followed' \subseteq Sources,
         probed' \subseteq Sources \X Batches, accepted' \in Seq(Sources),
         robots' \in (SUBSET Sources) \cup {NoRobots}, sitemaps' \in 0..Sitemaps,
         FramesOK(frames', Known'), RobotsInv', SourceInv', BatchInv',
         \A p, q \in probed' : p[1] = q[1] => p = q
  PROVE  PageInd'
<1>1. SamePageInv' /\ RenderInv' /\ TraceInv' /\ ModesInv' /\ StagesInv'
  BY BatchFrame
<1>2. frames' \in Seq(Frames) /\ DOMAIN frames' = 1..Len(frames')
  BY LenProperties DEF FramesOK
<1>3. ProbeInv'
  BY DEF ProbeInv, FramesOK
<1>4. FramesInv'
  BY <1>2 DEF FramesInv, FramesOK, Known
<1>5. PageTypeOK'
  <2>1. rstep' \in Steps
    BY DEF Batches, Steps
  <2> QED
    BY <1>2, <2>1 DEF PageInd, PageTypeOK, Batches
<1> QED
  BY <1>1, <1>3, <1>4, <1>5 DEF PageInd

\* The declared sources become the first batch, and the stage is entered.
LEMMA OpenResolveStep ==
  ASSUME PageInd, OpenResolve
  PROVE  PageInd'
<1>1. /\ PageTypeOK /\ RenderInv /\ RobotsInv /\ SourceInv /\ ProbeInv /\ TraceInv /\ ModesInv
      /\ BatchInv /\ FramesInv /\ StagesInv
  BY DEF PageInd
<1>2. /\ rstep = "resolve" /\ Resolvable /\ guessing' \in BOOLEAN /\ (guessing' => ask.agent = "auto")
      /\ pending' = Foremost(Declared) /\ offered' = pending'
      /\ UNCHANGED <<ask, spare, page, dom, frames, accepted, robots, sitemaps>>
      /\ UNCHANGED <<listed, probed, followed>>
  BY DEF OpenResolve
<1>3. Records("agent_readable", FALSE, "declared", failure)
  BY DEF OpenResolve
<1>4. \A i \in DOMAIN trace : trace[i].done
  BY <1>1, <1>2 DEF StagesInv, InBatch, Building
<1> DEFINE n == Len(trace)
<1>5. /\ rstep' = "declared" /\ failure' = failure /\ trace' \in Seq(Entries)
      /\ DOMAIN trace = 1..n /\ DOMAIN trace' = 1..(n + 1) /\ n \in Nat
      /\ \A i \in 1..n : trace'[i] = trace[i]
      /\ trace'[n + 1] = Entry("agent_readable", FALSE)
  <2>1. ~Begun("agent_readable")
    BY <1>4 DEF Begun
  <2>2. "agent_readable" \in Stages /\ FALSE \in BOOLEAN
    BY DEF Stages
  <2> QED
    BY <1>1, <1>3, <2>1, <2>2, Entered
<1> HIDE DEF n
<1>6. StagesInv'
  <2>1. InBatch' /\ rstep' # "rereduce"
    BY <1>5 DEF InBatch
  <2>2. \A i \in 1..(n + 1) : ~trace'[i].done => trace'[i].stage = "agent_readable"
    <3> SUFFICES ASSUME NEW i \in 1..(n + 1), ~trace'[i].done
                 PROVE  trace'[i].stage = "agent_readable"
      OBVIOUS
    <3>1. CASE i \in 1..n
      BY <1>4, <1>5, <3>1
    <3>2. CASE i = n + 1
      BY <1>5, <3>2 DEF Entry
    <3> QED
      BY <1>5, <3>1, <3>2
  <2> QED
    BY <1>5, <2>1, <2>2 DEF StagesInv
<1>7. TraceInv' /\ RenderInv' /\ SamePageInv'
  <2>1. rstep' \notin Building \cup Reducing \cup {"failed"}
    BY <1>5 DEF Building, Reducing
  <2> QED
    BY <1>1, <1>2, <1>5, <2>1 DEF TraceInv, RenderInv, SamePageInv
<1>8. pending' \subseteq Declared /\ Declared \subseteq Sources
  BY <1>2, PageConstants, BatchWithin
<1>9. RobotsInv' /\ SourceInv' /\ ProbeInv' /\ FramesInv'
  BY <1>1, <1>2 DEF RobotsInv, SourceInv, ProbeInv, FramesInv
<1>10. BatchInv'
  BY <1>1, <1>2, <1>5, <1>8 DEF BatchInv
<1>11. ModesInv'
  BY <1>2, <1>5 DEF ModesInv, InBatch, Resolvable
<1>12. PageTypeOK'
  BY <1>1, <1>2, <1>5, <1>8 DEF PageTypeOK, Steps
<1> QED
  BY <1>6, <1>7, <1>9, <1>10, <1>11, <1>12 DEF PageInd

\* A candidate of the batch is tried, unless the time for probes is over.
LEMMA TryCandidateStep ==
  ASSUME PageInd, TryCandidate
  PROVE  PageInd'
<1>1. /\ PageTypeOK /\ RobotsInv /\ SourceInv /\ ProbeInv /\ ModesInv /\ BatchInv
      /\ FramesOK(frames, Known) /\ Known \subseteq Sources
  BY PagesInHand DEF PageInd
<1>2. /\ InBatch /\ rstep \in Batches /\ frames = <<>> /\ pending # {} /\ rstep' = rstep
      /\ UNCHANGED <<ask, page, dom, offered, accepted, robots, sitemaps>>
      /\ UNCHANGED <<listed, followed, guessing, trace, failure>>
  BY DEF TryCandidate, InBatch, Batches
<1>3. CASE ~HasProbeTime
  <2>1. pending' = {} /\ UNCHANGED <<spare, frames, probed>>
    BY <1>3 DEF TryCandidate
  <2>2. Known' = Known
    BY <1>2, <2>1 DEF Known
  <2>3. RobotsInv' /\ SourceInv'
    BY <1>1, <1>2, <2>1 DEF RobotsInv, SourceInv
  <2>4. BatchInv'
    BY <1>1, <1>2, <2>1 DEF BatchInv
  <2>5. \A p, q \in probed' : p[1] = q[1] => p = q
    BY <1>1, <2>1 DEF ProbeInv
  <2>6. FramesOK(frames', Known')
    BY <1>1, <2>1, <2>2
  <2>7. /\ spare' \in Spare /\ (pending' \cup offered' \cup listed' \cup followed') \subseteq Sources
        /\ probed' \subseteq Sources \X Batches /\ accepted' \in Seq(Sources)
        /\ robots' \in (SUBSET Sources) \cup {NoRobots} /\ sitemaps' \in 0..Sitemaps
    BY <1>1, <1>2, <2>1 DEF PageTypeOK, Batches
  <2> QED
    BY <1>2, <2>3, <2>4, <2>5, <2>6, <2>7, WithinStep
<1>4. CASE HasProbeTime
  <2> DEFINE c == First(pending)
  <2>1. c \in pending /\ c \in Sources
    BY <1>1, <1>2, FirstIn DEF PageTypeOK
  <2>2. /\ spare' \in Spare /\ pending' = pending \ {c} /\ probed' = probed \cup {<<c, rstep>>}
        /\ (frames' = frames \/ Opens(c, KindOf[c]))
    <3>1. pending' = pending \ {c} /\ probed' = probed \cup {<<c, rstep>>}
      BY <1>4 DEF TryCandidate
    <3>2. spare' \in Spare
      BY <1>4 DEF TryCandidate
    <3>3. (frames' = frames \/ Opens(c, KindOf[c]))
      BY <1>4 DEF TryCandidate
    <3> QED
      BY <3>1, <3>2, <3>3
  <2> HIDE DEF c
  <2>3. Known' = Known \cup {c}
    <3>1. <<c, rstep>>[1] = c
      OBVIOUS
    <3>2. {p[1] : p \in probed'} = {p[1] : p \in probed} \cup {c}
      BY <2>2, <3>1
    <3> QED
      BY <1>2, <3>2 DEF Known
  <2>4. RobotsInv'
    <3> SUFFICES ASSUME robots # NoRobots, NEW d \in Sources, NEW b \in {"guessed", "listed"},
                        <<d, b>> \in probed'
                 PROVE  d \notin robots
      BY <1>2 DEF RobotsInv
    <3>1. CASE <<d, b>> \in probed
      BY <1>1, <3>1 DEF RobotsInv
    <3>2. CASE d = c /\ b = rstep
      BY <1>1, <2>1, <3>2 DEF BatchInv
    <3> QED
      BY <2>2, <3>1, <3>2
  <2>5. ask.agent # "off" /\ ask.render # "required" /\ (ask.agent = "declared" => c \in Declared)
    BY <1>1, <1>2, <2>1 DEF ModesInv, BatchInv, Batches
  <2>6. SourceInv'
    BY <1>1, <1>2, <2>2, <2>5 DEF SourceInv
  <2>7. BatchInv'
    <3>1. c \in offered
      BY <1>1, <2>1 DEF BatchInv
    <3> QED
      BY <1>1, <1>2, <2>1, <2>2, <3>1 DEF BatchInv, Batches
  <2>8. \A p, q \in probed' : p[1] = q[1] => p = q
    <3>1. \A p \in probed : p[1] # c
      BY <1>1, <2>1 DEF BatchInv
    <3> QED
      BY <1>1, <2>2, <3>1 DEF ProbeInv
  <2>9. FramesOK(frames', Known')
    <3>1. FramesOK(frames, Known')
      BY <1>1, <2>3, KnownGrows
    <3>2. CASE Opens(c, KindOf[c])
      <4>1. PICK links \in Follows(c, KindOf[c], Len(frames)) :
              frames' = Append(frames, [at |-> c, kind |-> KindOf[c], links |-> links])
        BY <3>2 DEF Opens
      <4>2. Len(frames) = 0
        BY <1>2
      <4>3. links \in SUBSET Sources
        BY <2>1, FollowsWithin
      <4>4. KindOf[c] \in {"variant", "catalog", "service", "llms"}
        BY <2>1, PageConstants
      <4>5. c \in Known'
        BY <2>3
      <4>6. Len(frames) <= 2 /\ ~(Len(frames) >= 2)
        BY <4>2
      <4> QED
        BY <2>1, <3>1, <4>1, <4>3, <4>4, <4>5, <4>6, PageOpened
    <3> QED
      BY <2>2, <3>1, <3>2
  <2>10. /\ (pending' \cup offered' \cup listed' \cup followed') \subseteq Sources
         /\ probed' \subseteq Sources \X Batches /\ accepted' \in Seq(Sources)
         /\ robots' \in (SUBSET Sources) \cup {NoRobots} /\ sitemaps' \in 0..Sitemaps
    BY <1>1, <1>2, <2>1, <2>2 DEF PageTypeOK, Batches
  <2> QED
    BY <1>2, <2>2, <2>4, <2>6, <2>7, <2>8, <2>9, <2>10, WithinStep
<1> QED
  BY <1>3, <1>4

\* A link of the last page is followed, unless the time for probes is over.
LEMMA TryLinkStep ==
  ASSUME PageInd, TryLink
  PROVE  PageInd'
<1>1. /\ PageTypeOK /\ RobotsInv /\ SourceInv /\ ProbeInv /\ ModesInv /\ BatchInv
      /\ FramesOK(frames, Known) /\ Known \subseteq Sources
  BY PagesInHand DEF PageInd
<1>2. /\ InBatch /\ rstep \in Batches /\ frames # <<>> /\ Reading.links # {} /\ rstep' = rstep
      /\ UNCHANGED <<ask, page, dom, pending, offered, accepted, robots, sitemaps>>
      /\ UNCHANGED <<listed, probed, guessing, trace, failure>>
  BY DEF TryLink, InBatch, Batches
<1>3. /\ Reading \in Frames /\ Len(frames) \in 1..2
  <2>1. frames \in Seq(Frames) /\ Len(frames) \in Nat /\ Len(frames) # 0 /\ Len(frames) <= 3
    BY <1>1, <1>2, EmptySeq, LenProperties DEF FramesOK
  <2>2. Len(frames) \in 1..Len(frames)
    BY <2>1
  <2>3. ~(Len(frames) > 2)
    <3>1. Len(frames) > 2 => frames[Len(frames)].links = {}
      BY <1>1, <2>2 DEF FramesOK
    <3> QED
      BY <1>2, <3>1 DEF Reading
  <2>4. Len(frames) \in 1..2
    <3>1. \A m \in Nat : m # 0 /\ ~(m > 2) => m \in 1..2
      OBVIOUS
    <3> QED
      BY <2>1, <2>3, <3>1
  <2>5. frames[Len(frames)] \in Frames
    BY <2>1, <2>2, ElementOfSeq
  <2> QED
    BY <2>4, <2>5 DEF Reading
<1>4. RobotsInv' /\ BatchInv' /\ \A p, q \in probed' : p[1] = q[1] => p = q
  BY <1>1, <1>2 DEF RobotsInv, BatchInv, ProbeInv
<1>5. ASSUME followed \subseteq followed' PROVE SourceInv'
  BY <1>1, <1>2, <1>5 DEF SourceInv
<1>6. /\ (pending' \cup offered' \cup listed') \subseteq Sources
      /\ probed' \subseteq Sources \X Batches /\ accepted' \in Seq(Sources)
      /\ robots' \in (SUBSET Sources) \cup {NoRobots} /\ sitemaps' \in 0..Sitemaps
  BY <1>1, <1>2 DEF PageTypeOK, Batches
<1>7. CASE ~HasProbeTime
  <2>1. frames' = [frames EXCEPT ![Len(frames)].links = {}] /\ UNCHANGED <<spare, followed>>
    BY <1>7 DEF TryLink
  <2>2. Known' = Known
    BY <1>2, <2>1 DEF Known
  <2>3. FramesOK(frames', Known')
    BY <1>1, <1>2, <2>1, <2>2, LinksUsed
  <2>4. spare' \in Spare /\ followed' \subseteq Sources
    BY <1>1, <2>1 DEF PageTypeOK
  <2> QED
    BY <1>2, <1>4, <1>5, <1>6, <2>1, <2>3, <2>4, WithinStep
<1>8. CASE HasProbeTime
  <2> DEFINE link == First(Reading.links)
             kind == IF Reading.kind = "llms" THEN "variant" ELSE KindOf[link]
  <2>1. link \in Reading.links /\ link \in Sources
    BY <1>2, <1>3, FirstIn DEF Frames
  <2>2. kind \in {"variant", "catalog", "service", "llms"}
    BY <2>1, PageConstants
  <2>3. /\ spare' \in Spare /\ followed' = followed \cup {link}
        /\ \/ frames' = Advanced
           \/ \E links \in Follows(link, kind, Len(frames)) :
                frames' = Append(Advanced, [at |-> link, kind |-> kind, links |-> links])
    BY <1>8 DEF TryLink
  <2> HIDE DEF kind
  <2>4. Known' = Known \cup {link}
    BY <1>2, <2>3 DEF Known
  <2>5. FramesOK(Advanced, Known') /\ Len(Advanced) = Len(frames)
    <3>1. Advanced = [frames EXCEPT ![Len(frames)].links = Reading.links \ {link}]
      BY DEF Advanced, Reading
    <3>2. FramesOK(Advanced, Known) /\ Len(Advanced) = Len(frames)
      BY <1>1, <1>2, <3>1, LinksUsed DEF Reading
    <3> QED
      BY <2>4, <3>2, KnownGrows
  <2>6. FramesOK(frames', Known')
    <3>1. CASE frames' = Advanced
      BY <2>5, <3>1
    <3>2. ASSUME NEW links \in Follows(link, kind, Len(frames)),
                 frames' = Append(Advanced, [at |-> link, kind |-> kind, links |-> links])
          PROVE  FramesOK(frames', Known')
      <4>1. links \in SUBSET Sources /\ (Len(frames) >= 2 => links = {})
        BY <2>1, FollowsWithin
      <4>2. Len(Advanced) <= 2 /\ (Len(Advanced) >= 2 => links = {})
        <5>1. \A m \in 1..2 : m <= 2
          OBVIOUS
        <5> QED
          BY <1>3, <2>5, <4>1, <5>1
      <4>3. link \in Known'
        BY <2>4
      <4> QED
        BY <2>1, <2>2, <2>5, <3>2, <4>1, <4>2, <4>3, PageOpened
    <3> QED
      BY <2>3, <3>1, <3>2
  <2>7. followed' \subseteq Sources
    BY <1>1, <2>1, <2>3 DEF PageTypeOK
  <2> QED
    BY <1>2, <1>4, <1>5, <1>6, <2>3, <2>6, <2>7, WithinStep
<1> QED
  BY <1>7, <1>8

\* A page without links left is readable or not.
LEMMA SettleStep ==
  ASSUME PageInd, Settle
  PROVE  PageInd'
<1>1. /\ PageTypeOK /\ RobotsInv /\ SourceInv /\ ProbeInv /\ ModesInv /\ BatchInv
      /\ FramesOK(frames, Known) /\ Known \subseteq Sources
  BY PagesInHand DEF PageInd
<1>2. /\ InBatch /\ rstep \in Batches /\ frames # <<>> /\ rstep' = rstep
      /\ UNCHANGED <<ask, spare, page, dom, pending, offered, robots, sitemaps>>
      /\ UNCHANGED <<listed, probed, followed, guessing, trace, failure>>
  BY DEF Settle, InBatch, Batches
<1>3. /\ frames \in Seq(Frames) /\ accepted \in Seq(Sources)
      /\ Len(frames) \in Nat /\ Len(frames) # 0 /\ Len(frames) <= 3
  BY <1>1, <1>2, EmptySeq, LenProperties DEF FramesOK, PageTypeOK
<1>4. Reading.at \in Known /\ Reading.at \in Sources
  <2>1. Len(frames) \in 1..Len(frames)
    BY <1>3
  <2>2. Reading.at \in Known
    BY <1>1, <2>1 DEF FramesOK, Reading
  <2> QED
    BY <1>1, <2>2
<1>5. RobotsInv' /\ BatchInv' /\ \A p, q \in probed' : p[1] = q[1] => p = q
  BY <1>1, <1>2 DEF RobotsInv, BatchInv, ProbeInv
<1>6. /\ (pending' \cup offered' \cup listed' \cup followed') \subseteq Sources /\ spare' \in Spare
      /\ probed' \subseteq Sources \X Batches
      /\ robots' \in (SUBSET Sources) \cup {NoRobots} /\ sitemaps' \in 0..Sitemaps
  BY <1>1, <1>2 DEF PageTypeOK, Batches
<1>7. Known' = Known
  BY <1>2 DEF Known
<1>8. CASE accepted' = Append(accepted, Reading.at) /\ frames' = <<>>
  <2> DEFINE at == Reading.at  n == Len(accepted)
  <2> HIDE DEF at
  <2>1. /\ Append(accepted, at) \in Seq(Sources) /\ Len(Append(accepted, at)) = n + 1
        /\ \A i \in 1..n : Append(accepted, at)[i] = accepted[i]
        /\ Append(accepted, at)[n + 1] = at
    BY <1>3, <1>4, AppendProperties DEF at
  <2>2. accepted' = Append(accepted, at)
    BY <1>8 DEF at
  <2>3. /\ n \in Nat /\ DOMAIN accepted = 1..n /\ DOMAIN accepted' = 1..(n + 1)
        /\ accepted' \in Seq(Sources)
    BY <1>3, <2>1, <2>2, LenProperties
  <2> HIDE DEF n
  <2>4. ToSet(accepted') = ToSet(accepted) \cup {at}
    <3>1. \A i \in 1..(n + 1) : i \in 1..n \/ i = n + 1
      BY <2>3
    <3>2. 1..n \subseteq 1..(n + 1) /\ n + 1 \in 1..(n + 1)
      BY <2>3
    <3> QED
      BY <2>1, <2>2, <2>3, <3>1, <3>2 DEF ToSet
  <2>5. SourceInv'
    BY <1>1, <1>2, <1>4, <2>4 DEF SourceInv, Known, at
  <2>6. FramesOK(frames', Known')
    <3> DEFINE none == <<>>
    <3>1. none \in Seq(Frames) /\ Len(none) = 0
      BY EmptySeq
    <3> HIDE DEF none
    <3>2. FramesOK(none, Known')
      BY <3>1 DEF FramesOK
    <3> QED
      BY <1>8, <3>2 DEF none
  <2> QED
    BY <1>2, <1>5, <1>6, <2>3, <2>5, <2>6, WithinStep
<1>9. CASE frames' = Front(frames) /\ accepted' = accepted
  <2> DEFINE n == Len(frames)  g == SubSeq(frames, 1, n - 1)
  <2>1. n - 1 \in Int /\ 1 \in Int /\ \A i \in 1..(n - 1) : i \in 1..n
    BY <1>3
  <2>2. \A i \in 1..(n - 1) : frames[i] \in Frames
    BY <1>3, <2>1, ElementOfSeq
  <2>3. /\ g \in Seq(Frames) /\ Len(g) = IF 1 <= n - 1 THEN (n - 1) - 1 + 1 ELSE 0
        /\ \A i \in 1..((n - 1) - 1 + 1) : g[i] = frames[1 + i - 1]
    BY <2>1, <2>2, SubSeqProperties
  <2> HIDE DEF g
  <2>4. Len(g) = n - 1 /\ Len(g) <= 3 /\ \A i \in 1..(n - 1) : g[i] = frames[i] /\ i \in 1..n
    <3>1. (n - 1) - 1 + 1 = n - 1 /\ (n - 1 >= 1 \/ n - 1 = 0) /\ n - 1 <= 3
      <4>1. \A m \in Nat : m # 0 /\ m <= 3 =>
              (m - 1) - 1 + 1 = m - 1 /\ (m - 1 >= 1 \/ m - 1 = 0) /\ m - 1 <= 3
        OBVIOUS
      <4> QED
        BY <1>3, <4>1
    <3>2. \A i \in 1..(n - 1) : 1 + i - 1 = i
      BY <1>3
    <3>3. Len(g) = n - 1
      BY <2>3, <3>1
    <3> QED
      BY <2>1, <2>3, <3>1, <3>2, <3>3
  <2>5. FramesOK(g, Known)
    BY <1>1, <2>3, <2>4 DEF FramesOK
  <2>6. FramesOK(frames', Known')
    BY <1>7, <1>9, <2>5 DEF Front, g
  <2>7. SourceInv' /\ accepted' \in Seq(Sources)
    BY <1>1, <1>2, <1>3, <1>9 DEF SourceInv
  <2> QED
    BY <1>2, <1>5, <1>6, <2>6, <2>7, WithinStep
<1> QED
  BY <1>8, <1>9 DEF Settle

\* The robots policy is asked for, and the usual places are probed as it allows.
LEMMA FetchRobotsStep ==
  ASSUME PageInd, FetchRobots
  PROVE  PageInd'
<1>1. /\ PageTypeOK /\ RobotsInv /\ SourceInv /\ ProbeInv /\ ModesInv /\ BatchInv
      /\ FramesOK(frames, Known) /\ Known \subseteq Sources
  BY PagesInHand DEF PageInd
<1>2. /\ InBatch /\ rstep = "declared" /\ rstep' = "guessed" /\ guessing
      /\ spare' \in Spare /\ robots' \in (SUBSET Sources) \cup {NoRobots}
      /\ pending' = Balanced(Allowed((Declared \cup Conventional) \ offered, robots'))
      /\ offered' = offered \cup pending'
      /\ UNCHANGED <<ask, page, dom, frames, accepted, sitemaps, listed>>
      /\ UNCHANGED <<probed, followed, guessing, trace, failure>>
  BY <1>1 DEF FetchRobots, InBatch, PageTypeOK
<1>3. /\ pending' \subseteq Sources \ offered
      /\ robots' # NoRobots => pending' \cap robots' = {}
  <2> DEFINE S == Allowed((Declared \cup Conventional) \ offered, robots')
  <2>1. S \subseteq Sources \ offered /\ (robots' # NoRobots => S \cap robots' = {})
    BY PageConstants DEF Allowed
  <2> HIDE DEF S
  <2>2. Balanced(S) \subseteq S
    BY <2>1, BatchWithin
  <2> QED
    BY <1>2, <2>1, <2>2 DEF S
<1>4. /\ listed = {} /\ \A p \in probed : p[2] = "declared"
      /\ \A p \in probed : p[1] \in offered
  BY <1>1, <1>2 DEF BatchInv
<1>5. RobotsInv'
  <2>1. \A c, b : <<c, b>> \in probed => b = "declared"
    BY <1>4
  <2> QED
    BY <1>2, <2>1 DEF RobotsInv
<1>6. BatchInv'
  BY <1>2, <1>3, <1>4 DEF BatchInv
<1>7. SourceInv' /\ \A p, q \in probed' : p[1] = q[1] => p = q
  BY <1>1, <1>2 DEF SourceInv, ProbeInv
<1>8. FramesOK(frames', Known')
  BY <1>1, <1>2 DEF Known
<1>9. /\ (pending' \cup offered' \cup listed' \cup followed') \subseteq Sources
      /\ probed' \subseteq Sources \X Batches /\ accepted' \in Seq(Sources)
      /\ sitemaps' \in 0..Sitemaps
  BY <1>1, <1>2, <1>3 DEF PageTypeOK, Batches
<1> QED
  BY <1>2, <1>5, <1>6, <1>7, <1>8, <1>9, WithinStep DEF Batches

\* A sitemap lists what the robots policy allows.
LEMMA ReadSitemapStep ==
  ASSUME PageInd, ReadSitemap
  PROVE  PageInd'
<1>1. /\ PageTypeOK /\ RobotsInv /\ SourceInv /\ ProbeInv /\ ModesInv /\ BatchInv
      /\ FramesOK(frames, Known) /\ Known \subseteq Sources
  BY PagesInHand DEF PageInd
<1>2. /\ InBatch /\ rstep = "guessed" /\ rstep' = rstep /\ spare' \in Spare
      /\ sitemaps > 0 /\ sitemaps' = sitemaps - 1
      /\ UNCHANGED <<ask, page, dom, pending, offered, frames, accepted, robots>>
      /\ UNCHANGED <<probed, followed, guessing, trace, failure>>
  BY DEF ReadSitemap, InBatch
<1>3. sitemaps' \in 0..Sitemaps
  BY <1>1, <1>2, PageConstants DEF PageTypeOK
<1>4. listed' \subseteq Sources /\ (robots # NoRobots => listed' \cap robots = {})
  <2>1. listed \subseteq Sources /\ (robots # NoRobots => listed \cap robots = {})
    BY <1>1 DEF PageTypeOK, BatchInv
  <2>2. ASSUME NEW found \in InSitemap, listed' = listed \cup Foremost(Allowed(found, robots))
        PROVE  listed' \subseteq Sources /\ (robots # NoRobots => listed' \cap robots = {})
    <3> DEFINE S == Allowed(found, robots)
    <3>1. S \subseteq Sources /\ (robots # NoRobots => S \cap robots = {})
      BY PageConstants DEF Allowed
    <3> HIDE DEF S
    <3>2. Foremost(S) \subseteq S
      BY <3>1, BatchWithin
    <3> QED
      BY <2>1, <2>2, <3>1, <3>2 DEF S
  <2> QED
    BY <2>1, <2>2 DEF ReadSitemap
<1>5. RobotsInv' /\ SourceInv' /\ \A p, q \in probed' : p[1] = q[1] => p = q
  BY <1>1, <1>2 DEF RobotsInv, SourceInv, ProbeInv
<1>6. BatchInv'
  BY <1>1, <1>2, <1>4 DEF BatchInv
<1>7. FramesOK(frames', Known')
  BY <1>1, <1>2 DEF Known
<1>8. /\ (pending' \cup offered' \cup listed' \cup followed') \subseteq Sources
      /\ probed' \subseteq Sources \X Batches /\ accepted' \in Seq(Sources)
      /\ robots' \in (SUBSET Sources) \cup {NoRobots}
  BY <1>1, <1>2, <1>4 DEF PageTypeOK, Batches
<1> QED
  BY <1>2, <1>3, <1>5, <1>6, <1>7, <1>8, WithinStep DEF Batches

\* What the sitemaps listed and no batch had yet is the last batch.
LEMMA ExpandCandidatesStep ==
  ASSUME PageInd, Expand
  PROVE  PageInd'
<1>1. /\ PageTypeOK /\ RobotsInv /\ SourceInv /\ ProbeInv /\ ModesInv /\ BatchInv
      /\ FramesOK(frames, Known) /\ Known \subseteq Sources
  BY PagesInHand DEF PageInd
<1>2. /\ InBatch /\ rstep = "guessed" /\ rstep' = "listed"
      /\ pending' = Foremost(listed \ offered) /\ offered' = offered \cup pending'
      /\ UNCHANGED <<ask, spare, page, dom, frames, accepted, robots, sitemaps>>
      /\ UNCHANGED <<listed, probed, followed, guessing, trace, failure>>
  BY DEF Expand, InBatch
<1>3. guessing /\ listed \subseteq Sources
  BY <1>1, <1>2 DEF ModesInv, PageTypeOK
<1>4. pending' \subseteq listed \ offered
  <2>1. (listed \ offered) \in SUBSET Sources
    BY <1>3
  <2> QED
    BY <1>2, <2>1, BatchWithin
<1>5. RobotsInv' /\ SourceInv' /\ \A p, q \in probed' : p[1] = q[1] => p = q
  BY <1>1, <1>2 DEF RobotsInv, SourceInv, ProbeInv
<1>6. BatchInv'
  <2>1. \A p \in probed : p[1] \in offered
    BY <1>1 DEF BatchInv
  <2>2. robots # NoRobots => listed \cap robots = {}
    BY <1>1 DEF BatchInv
  <2> QED
    BY <1>2, <1>4, <2>1, <2>2 DEF BatchInv
<1>7. FramesOK(frames', Known')
  BY <1>1, <1>2 DEF Known
<1>8. /\ (pending' \cup offered' \cup listed' \cup followed') \subseteq Sources /\ spare' \in Spare
      /\ probed' \subseteq Sources \X Batches /\ accepted' \in Seq(Sources)
      /\ robots' \in (SUBSET Sources) \cup {NoRobots} /\ sitemaps' \in 0..Sitemaps
  BY <1>1, <1>2, <1>4 DEF PageTypeOK, Batches
<1> QED
  BY <1>2, <1>3, <1>5, <1>6, <1>7, <1>8, WithinStep DEF Batches

\* One of the readable sources takes the place of the page, and the stage is over.
LEMMA SelectSourceStep ==
  ASSUME PageInd, SelectSource
  PROVE  PageInd'
<1>1. PageTypeOK /\ RenderInv /\ TraceInv /\ StagesInv
  BY DEF PageInd
<1>2. /\ InBatch /\ rstep' = "reduce" /\ Completes("agent_readable")
      /\ UNCHANGED <<ask, dom, probeVars, failure>> /\ spare' \in Spare
  BY <1>1 DEF SelectSource, InBatch, PageTypeOK
<1>3. /\ page' \in [at : Sources \cup {Seed}, html : BOOLEAN, rendered : BOOLEAN]
      /\ page'.at \in {Seed, page.at} \cup ToSet(accepted)
  <2>1. CASE page' = page
    BY <1>1, <2>1 DEF PageTypeOK
  <2>2. ASSUME NEW s \in ToSet(accepted), page' = PageOf(s, FALSE)
        PROVE  <1>3!1 /\ <1>3!2
    <3>1. s \in Sources
      <4>1. DOMAIN accepted = 1..Len(accepted) /\ accepted \in Seq(Sources)
        BY <1>1, LenProperties DEF PageTypeOK
      <4>2. \A i \in 1..Len(accepted) : accepted[i] \in Sources
        BY <4>1, ElementOfSeq
      <4> QED
        BY <4>1, <4>2 DEF ToSet
    <3> QED
      BY <2>2, <3>1 DEF PageOf
  <2> QED
    BY <2>1, <2>2 DEF SelectSource
<1> DEFINE n == Len(trace)
<1>4. n \in Nat /\ DOMAIN trace = 1..n /\ \A i \in 1..n : trace[i] \in Entries
  BY <1>1, LenProperties, ElementOfSeq DEF PageTypeOK
<1> HIDE DEF n
<1>5. \A i \in 1..n : trace'[i] \in Entries /\ trace'[i].done
  <2> SUFFICES ASSUME NEW i \in 1..n PROVE trace'[i] \in Entries /\ trace'[i].done
    OBVIOUS
  <2>1. trace'[i] = IF trace[i].stage = "agent_readable" THEN Entry("agent_readable", TRUE) ELSE trace[i]
    BY <1>2, <1>4 DEF Completes
  <2>2. CASE trace[i].stage = "agent_readable"
    BY <2>1, <2>2 DEF Entry, Entries
  <2>3. CASE trace[i].stage # "agent_readable"
    <3>1. trace[i].done
      BY <1>1, <1>2, <1>4, <2>3 DEF StagesInv, InBatch
    <3> QED
      BY <1>4, <2>1, <2>3, <3>1
  <2> QED
    BY <2>2, <2>3
<1>6. DOMAIN trace' = 1..n /\ trace' \in [1..n -> Entries]
  BY <1>2, <1>4, <1>5 DEF Completes
<1>7. trace' \in Seq(Entries)
  BY <1>4, <1>6, IsASequence
<1>8. StagesInv' /\ TraceInv'
  BY <1>1, <1>2, <1>5, <1>6 DEF StagesInv, TraceInv, InBatch, Building
<1>9. RenderInv' /\ SamePageInv'
  <2>1. page'.rendered => page' = page
    BY <1>1 DEF SelectSource, PageOf
  <2>2. rstep' \notin Building \cup Reducing
    BY <1>2 DEF Building, Reducing
  <2> QED
    BY <1>1, <1>2, <2>1, <2>2 DEF RenderInv, SamePageInv
<1>10. failure' \in {"none", "recorder", "fetch", "reduce", "render", "segment", "pack"}
  BY <1>1, <1>2, TimePasses
<1> QED
  BY <1>2, <1>3, <1>7, <1>8, <1>9, <1>10, OutsideStep DEF Steps, Batches

-----------------------------------------------------------------------------
\* A read that has not begun knows nothing.
LEMMA PageStart == PageInit => PageInd
<1> SUFFICES ASSUME PageInit PROVE PageInd
  OBVIOUS
<1>1. <<>> \in Seq(Frames) /\ <<>> \in Seq(Sources) /\ <<>> \in Seq(Entries)
  BY EmptySeq
<1>2. PageTypeOK
  BY <1>1, PageConstants DEF PageInit, PageTypeOK, Steps, PageOf
<1>3. SamePageInv /\ RenderInv /\ RobotsInv
  BY DEF PageInit, SamePageInv, RenderInv, RobotsInv, Reducing, Building, PageOf
<1>4. SourceInv /\ ProbeInv
  BY DEF PageInit, SourceInv, ProbeInv, PageOf, ToSet
<1>5. TraceInv /\ ModesInv /\ BatchInv /\ FramesInv /\ StagesInv
  BY DEF PageInit, TraceInv, ModesInv, BatchInv, FramesInv, StagesInv, InBatch, Building
<1> QED
  BY <1>2, <1>3, <1>4, <1>5 DEF PageInd

\* Each step of a read.
LEMMA PageStep == PageInd /\ [PageNext]_pageReadVars => PageInd'
<1> SUFFICES ASSUME PageInd, [PageNext]_pageReadVars PROVE PageInd'
  OBVIOUS
<1>1. CASE PageNext
  BY <1>1, AcquiredStep, SkipResolveStep, OpenResolveStep, TryCandidateStep, TryLinkStep, SettleStep,
     FetchRobotsStep, ReadSitemapStep, ExpandCandidatesStep, SelectSourceStep, ReducedStep,
     NotRenderedStep, RenderedStep, RenderedReducedStep, RenderedNotReducedStep, SegmentedStep
     DEF PageNext
<1>2. CASE UNCHANGED pageReadVars
  <2>1. /\ UNCHANGED <<rstep, ask, spare, page, dom, trace, failure>>
        /\ UNCHANGED <<pending, offered, frames, accepted, robots, sitemaps, listed>>
        /\ UNCHANGED <<probed, followed, guessing>>
    BY <1>2 DEF pageReadVars, probeVars
  <2>2. PageTypeOK'
    BY <2>1 DEF PageInd, PageTypeOK
  <2>3. SamePageInv' /\ RenderInv' /\ RobotsInv' /\ SourceInv'
    BY <2>1 DEF PageInd, SamePageInv, RenderInv, RobotsInv, SourceInv
  <2>4. ProbeInv' /\ TraceInv' /\ ModesInv' /\ BatchInv' /\ FramesInv' /\ StagesInv'
    BY <2>1 DEF PageInd, ProbeInv, TraceInv, ModesInv, BatchInv, FramesInv, StagesInv, InBatch
  <2> QED
    BY <2>2, <2>3, <2>4 DEF PageInd
<1> QED
  BY <1>1, <1>2

\* Whatever a page names, its site lists, the robots policy forbids and the
\* deadline leaves time for, the answer of a read and its document are of one
\* page; a render that was required is in it; sources are fetched within
\* their depth, once, and as the policy and the request allow; and no stage
\* of the trace is begun while it is active (service.go, sourceresolution,
\* proof/recorder.go).
THEOREM ReadSafety == PageSpec => []PageInd
<1> QED
  BY PageStart, PageStep, PTL DEF PageSpec

-----------------------------------------------------------------------------
(***************************************************************************)
(* Proofs about Decisions: whatever reads, failures and renewals follow    *)
(* one another, an answer is about the passage and the menu of its own     *)
(* read, the memo keeps within its bound and an aligner rests as long as   *)
(* it should.                                                              *)
(*                                                                         *)
(* DecisionInd adds what makes the invariant inductive: what a key says of *)
(* its answer, and what an observation carries from step to step.          *)
(***************************************************************************)

(* The memo and the aligners *)

\* A new answer takes the place of the oldest one once the memo is full.
LEMMA MemoizeKept ==
  ASSUME DecisionConstants, MemoInv, MemoKept, NEW key, NEW answer,
         Memoize(key, answer), Valid(answer, key.body)
  PROVE  MemoInv' /\ MemoKept'
<1>1. CASE key \in DOMAIN memo
  BY <1>1 DEF Memoize, MemoInv, MemoKept, Valid
<1>2. CASE key \notin DOMAIN memo
  <2> DEFINE full == Len(order) = MemoEntries
             rest == IF full THEN Tail(order) ELSE order
             stay == IF full THEN DOMAIN memo \ {Head(order)} ELSE DOMAIN memo
  <2>1. /\ memo' = [k \in stay \cup {key} |-> IF k = key THEN answer ELSE memo[k]]
        /\ order' = Append(rest, key)
    BY <1>2 DEF Memoize
  <2>2. /\ order \in Seq(DOMAIN memo) /\ IsInjective(order) /\ ToSet(order) = DOMAIN memo
        /\ Len(order) \in Nat /\ Len(order) <= MemoEntries
    BY LenProperties DEF MemoInv, MemoKept, IsInjective
  <2>3. full => order # <<>>
    BY <2>2, EmptySeq DEF DecisionConstants
  <2>4. /\ rest \in Seq(stay) /\ IsInjective(rest) /\ ToSet(rest) = stay
        /\ Len(rest) \in Nat /\ Len(rest) + 1 <= MemoEntries
    <3>1. CASE full
      <4>1. /\ Tail(order) \in Seq(stay) /\ IsInjective(Tail(order))
            /\ ToSet(Tail(order)) = stay /\ Len(Tail(order)) = Len(order) - 1
        BY <2>2, <2>3, <3>1, InjectiveTail
      <4> QED
        BY <2>2, <3>1, <4>1 DEF DecisionConstants
    <3>2. CASE ~full
      BY <2>2, <3>2 DEF DecisionConstants
    <3> QED
      BY <3>1, <3>2
  <2>5. stay \subseteq DOMAIN memo /\ key \notin stay
    BY <1>2
  <2> HIDE DEF rest, stay
  <2>6. /\ order' \in Seq(stay \cup {key}) /\ IsInjective(order')
        /\ ToSet(order') = stay \cup {key} /\ Len(order') <= MemoEntries
    BY <2>1, <2>4, <2>5, InjectiveAppend
  <2>7. DOMAIN memo' = stay \cup {key}
    BY <2>1
  <2>8. \A k \in DOMAIN memo' : Valid(memo'[k], k.body)
    <3> TAKE k \in DOMAIN memo'
    <3>1. CASE k = key
      BY <2>1, <2>7, <3>1
    <3>2. CASE k # key
      <4>1. k \in DOMAIN memo /\ memo'[k] = memo[k]
        BY <2>1, <2>5, <2>7, <3>2
      <4> QED
        BY <4>1 DEF MemoKept
    <3> QED
      BY <3>1, <3>2
  <2>9. Len(order') = Cardinality(ToSet(order'))
    BY <2>6, InjectiveCount
  <2>10. MemoKept'
    BY <2>6, <2>7, <2>8 DEF MemoKept, IsInjective, Valid
  <2> QED
    BY <2>6, <2>7, <2>8, <2>9, <2>10 DEF MemoInv, Valid
<1> QED
  BY <1>1, <1>2

\* An aligner that rests and the time since it failed stay in step.
LEMMA ScoreKept ==
  ASSUME DecisionConstants, CoolKept, NEW use \in Aligners, NEW outcome,
         Score(use, outcome)
  PROVE  CoolKept'
<1>1. 0 \in 0..Cooldown /\ Cooldown \in 0..Cooldown
  BY DEF DecisionConstants
<1>2. CASE CoolingDown(use)
  BY <1>2 DEF CoolKept, Score, AlignerOf
<1>3. CASE cooling' = [cooling EXCEPT ![use] = Cooldown] /\ since' = [since EXCEPT ![use] = 0]
  BY <1>1, <1>3 DEF DecisionConstants, CoolKept
<1>4. CASE cooling' = [cooling EXCEPT ![use] = 0] /\ since' = [since EXCEPT ![use] = Cooldown]
  BY <1>1, <1>4 DEF DecisionConstants, CoolKept
<1> QED
  BY <1>2, <1>3, <1>4 DEF Score, AlignerOf, Trip, Clear

LEMMA TickKept ==
  ASSUME DecisionConstants, CoolKept, Tick
  PROVE  CoolKept'
BY DEF DecisionConstants, CoolKept, Tick

\* What is left of the cooldown tells how long ago the failure was.
LEMMA CoolFollows ==
  ASSUME DecisionConstants, CoolKept
  PROVE  CoolInv
BY DEF DecisionConstants, CoolKept, CoolInv, CoolingDown, AlignerOf

-----------------------------------------------------------------------------
(* An observation *)

\* The evidence there is can be counted.
LEMMA IdsFinite ==
  ASSUME DecisionConstants, NEW task, Asks(task)
  PROVE  Cardinality(Ids(task)) \in Nat
<1>1. Units(task) \in Seq(Passages)
  BY EmptySeq DEF DecisionConstants, Asks, Units
<1> DEFINE n == Len(Units(task))
<1>2. n \in Nat /\ DOMAIN Units(task) = 1..n
  BY <1>1, LenProperties
<1> DEFINE f == [i \in 1..n |-> Units(task)[i].id]
<1>3. f \in Surjection(1..n, Ids(task))
  BY <1>2 DEF Surjection, Ids, ToSet
<1>4. IsFiniteSet(Ids(task))
  BY <1>2, <1>3, FS_NatSurjection DEF ExistsSurjection
<1> QED
  BY <1>4, FS_CardinalityType

\* A conclusion about evidence that its identity names speaks of that text.
LEMMA EvidenceNamed ==
  ASSUME NEW task, NEW u \in Eligible(task), ~Conflicting(task)
  PROVE  TextsNamed(task, u) = {u.text}
BY DEF Eligible, Conflicting, TextsNamed

\* What the conjuncts say of the next state depends on little.
LEMMA SameQuestion ==
  ASSUME UNCHANGED reading
  PROVE  /\ \A task : /\ Asks(task)' = Asks(task) /\ Units(task)' = Units(task)
                       /\ Ids(task)' = Ids(task) /\ Menu(reading.page)' = Menu(reading.page)
                       /\ Criteria(task)' = Criteria(task)
                       /\ Eligible(task)' = Eligible(task)
                       /\ Conflicting(task)' = Conflicting(task)
         /\ \A task, unit : Body(task, unit)' = Body(task, unit)
BY DEF Asks, Units, Ids, Menu, Criteria, Eligible, Reserved, Conflicting, Body

\* An observation that is well on its way, or well concluded, may be the next.
LEMMA MayBe ==
  ASSUME UNCHANGED reading, NEW o, ob' = o, Carries(o), o.step = "done" => Concluded(o)
  PROVE  ObservationKept' /\ AuditInv'
<1>1. Carries(ob)'
  BY DEF Carries, Asks, Evident, Unanswered, Answered, Units, Ids, Menu, Criteria,
         Eligible, Reserved, Conflicting, Body, New
<1>2. (ob.step = "done" => Concluded(ob))'
  BY DEF Concluded, TextsNamed, Units, Ids, Menu, Criteria, Reserved, Body
<1>3. o.task # "none"
  BY DEF Carries, Asks
<1> QED
  BY <1>1, <1>2, <1>3 DEF ObservationKept, AuditInv

\* Nothing is observed, or the observation stands.
LEMMA StandsStill ==
  ASSUME ObservationKept, AuditInv, ob' = Idle \/ (UNCHANGED <<reading, ob>>)
  PROVE  ObservationKept' /\ AuditInv'
<1>1. CASE ob' = Idle
  <2>1. ob'.task = "none" /\ ob'.step = "done"
    BY <1>1 DEF Idle
  <2> QED
    BY <2>1 DEF ObservationKept, AuditInv
<1>2. CASE UNCHANGED <<reading, ob>>
  <2>1. CASE ob.task = "none"
    BY <1>2, <2>1 DEF ObservationKept, AuditInv
  <2>2. CASE ob.task # "none"
    <3>1. Carries(ob) /\ (ob.step = "done" => Concluded(ob))
      BY <2>2 DEF ObservationKept, AuditInv
    <3> QED
      BY <1>2, <3>1, MayBe
  <2> QED
    BY <2>1, <2>2
<1> QED
  BY <1>1, <1>2

\* Steps that only concern the observation.
LEMMA RestKept ==
  ASSUME DecisionInd, UNCHANGED reading
  PROVE  /\ UNCHANGED <<memo, order>> => MemoInv' /\ MemoKept'
         /\ UNCHANGED <<cooling, since>> => CoolKept'
         /\ UNCHANGED wanted => WantedKept'
BY DEF DecisionInd, DecisionInv, MemoInv, MemoKept, CoolKept, WantedKept, Asks, Valid

\* The kept conjuncts make the invariant.
LEMMA Kept ==
  ASSUME DecisionConstants, MemoInv', MemoKept', CoolKept', WantedKept', ObservationKept', AuditInv'
  PROVE  DecisionInd'
<1>1. CoolInv'
  BY DEF DecisionConstants, CoolKept, CoolInv, CoolingDown, AlignerOf
<1> QED
  BY <1>1 DEF DecisionInd, DecisionInv

\* An observation under way moves on, and nothing else happens.
LEMMA MovesOn ==
  ASSUME DecisionConstants, DecisionInd, ob.task # "none", NEW o, ob' = o, Carries(o),
         o.step = "done" => Concluded(o),
         UNCHANGED <<memo, order, cooling, since, reading, wanted>>
  PROVE  DecisionInd'
BY MayBe, RestKept, Kept

\* An observation without an answer ends, or moves on.
Fields ==
  {"task", "step", "unit", "status", "answer", "proposed", "failed", "unassessed"}
Shape(o) == o = [f \in Fields |-> o[f]]

LEMMA ShapeOfNew ==
  ASSUME NEW task
  PROVE  DOMAIN New(task) = Fields /\ Shape(New(task))
BY DEF New, Fields, Shape

LEMMA Unanswering ==
  ASSUME NEW o, Shape(o), Asks(o.task), Evident(o), Unanswered(o), ~o.failed
  PROVE  /\ \A status : status # "observed" =>
              Carries(Refused(o, status)) /\ Refused(o, status).step # "done"
         /\ Carries(Failed(o)) /\ Failed(o).step # "done"
         /\ \A step : step # "done" =>
              Carries([o EXCEPT !.step = step]) /\ [o EXCEPT !.step = step].step # "done"
<1>1. ASSUME NEW p, Shape(p), p.task = o.task, p.unit = o.unit, p.answer = o.answer,
             p.proposed = o.proposed, p.unassessed = o.unassessed,
             p.status # "observed", p.failed = o.failed \/ p.step = "conclude"
      PROVE  Carries(p)
  BY <1>1, ShapeOfNew DEF Shape, Carries, Evident, Unanswered
<1>2. ASSUME NEW status, status # "observed"
      PROVE  Carries(Refused(o, status)) /\ Refused(o, status).step # "done"
  <2> DEFINE p == Refused(o, status)
  <2>1. /\ Shape(p) /\ p.task = o.task /\ p.unit = o.unit /\ p.answer = o.answer
        /\ p.proposed = o.proposed /\ p.unassessed = o.unassessed
        /\ p.status = status /\ p.step = "conclude"
    BY DEF Shape, Refused, Fields
  <2> QED
    BY <1>1, <1>2, <2>1
<1>3. Carries(Failed(o)) /\ Failed(o).step # "done"
  <2> DEFINE p == Failed(o)
  <2>1. /\ Shape(p) /\ p.task = o.task /\ p.unit = o.unit /\ p.answer = o.answer
        /\ p.proposed = o.proposed /\ p.unassessed = o.unassessed
        /\ p.status = o.status /\ p.step = "conclude"
    BY DEF Shape, Failed, Fields
  <2> QED
    BY <1>1, <2>1 DEF Unanswered
<1>4. ASSUME NEW step, step # "done"
      PROVE  Carries([o EXCEPT !.step = step]) /\ [o EXCEPT !.step = step].step # "done"
  <2> DEFINE p == [o EXCEPT !.step = step]
  <2>1. /\ Shape(p) /\ p.task = o.task /\ p.unit = o.unit /\ p.answer = o.answer
        /\ p.proposed = o.proposed /\ p.unassessed = o.unassessed
        /\ p.status = o.status /\ p.step = step /\ p.failed = o.failed
    BY DEF Shape, Fields
  <2> QED
    BY <1>1, <1>4, <2>1 DEF Unanswered
<1> QED
  BY <1>2, <1>3, <1>4

\* What the observation under way is, before its conclusion.
LEMMA UnderWay ==
  ASSUME DecisionInd, ob.step \in {"select", "recall", "identify", "fit", "ask"}
  PROVE  /\ ob.task # "none" /\ Carries(ob)
         /\ Shape(ob) /\ Asks(ob.task) /\ Evident(ob) /\ Unanswered(ob) /\ ~ob.failed
BY ShapeOfNew DEF DecisionInd, ObservationKept, Carries, Shape

-----------------------------------------------------------------------------
(* One lemma for every kind of step *)

LEMMA AdmitInd ==
  ASSUME DecisionConstants, DecisionInd, Admit
  PROVE  DecisionInd'
<1> DEFINE task == Head(wanted)  o == New(task)
<1>1. wanted \in Seq({"support", "route"}) /\ wanted # <<>> /\ wanted' = Tail(wanted)
  BY DEF Admit, DecisionInd, WantedKept
<1>2. /\ Len(wanted) \in Nat \ {0} /\ DOMAIN wanted = 1..Len(wanted) /\ task = wanted[1]
      /\ wanted' \in Seq({"support", "route"}) /\ DOMAIN wanted' = 1..Len(wanted')
      /\ Len(wanted') = Len(wanted) - 1
      /\ \A i \in 1..Len(wanted') : wanted'[i] = wanted[i + 1]
  BY <1>1, EmptySeq, LenProperties, HeadTailProperties
<1>3. \A i \in 1..Len(wanted) : Asks(wanted[i])
  BY <1>2 DEF DecisionInd, WantedKept
<1>4. UNCHANGED <<memo, order, cooling, since, reading>>
  BY DEF Admit
<1>5. WantedKept'
  <2>1. \A i \in 1..Len(wanted') : i + 1 \in 1..Len(wanted)
    BY <1>2
  <2> QED
    BY <1>2, <1>3, <1>4, <2>1 DEF WantedKept, Asks
<1>6. Asks(task)
  BY <1>2, <1>3
<1>7. ob' \in {Refused(o, "insufficient_input"), Refused(o, "not_applicable"), Failed(o), o}
  BY DEF Admit
<1>8. \A p \in {Refused(o, "insufficient_input"), Refused(o, "not_applicable"), Failed(o), o} :
         Carries(p) /\ p.step # "done"
  <2>1. Shape(o) /\ Asks(o.task) /\ Evident(o) /\ Unanswered(o) /\ ~o.failed /\ o.step = "select"
    BY <1>6, ShapeOfNew DEF New, Evident, Unanswered
  <2>2. Carries(o)
    BY <2>1, ShapeOfNew DEF Carries, Shape
  <2> HIDE DEF o
  <2> QED
    BY <2>1, <2>2, Unanswering
<1>9. ObservationKept' /\ AuditInv'
  <2> HIDE DEF o
  <2>1. PICK p : ob' = p /\ Carries(p) /\ p.step # "done"
    BY <1>7, <1>8
  <2> QED
    BY <1>4, <2>1, MayBe
<1> QED
  BY <1>4, <1>5, <1>9, RestKept, Kept

\* An observation under way that is still without an answer afterwards.
LEMMA MovesOnUnanswered ==
  ASSUME DecisionConstants, DecisionInd,
         ob.step \in {"select", "recall", "identify", "fit", "ask"},
         \/ \E status \in {"input_budget_exceeded", "selection_unavailable",
                           "prompt_budget_exceeded"} : ob' = Refused(ob, status)
         \/ ob' = Failed(ob)
         \/ \E next \in {"identify", "fit", "ask"} : ob' = [ob EXCEPT !.step = next]
         \/ \E u : ob' = Chosen(u) /\ Evident(ob'),
         UNCHANGED <<memo, order, reading, wanted>>, CoolKept'
  PROVE  DecisionInd'
<1>1. /\ ob.task # "none" /\ Carries(ob)
      /\ Shape(ob) /\ Asks(ob.task) /\ Evident(ob) /\ Unanswered(ob) /\ ~ob.failed
  BY UnderWay
<1>2. \E o : ob' = o /\ Carries(o) /\ o.step # "done"
  <2>1. ASSUME NEW u, ob' = Chosen(u), Evident(Chosen(u))
        PROVE  Carries(Chosen(u)) /\ Chosen(u).step # "done"
    <3> DEFINE p == Chosen(u)
    <3>1. /\ Shape(p) /\ p.task = ob.task /\ p.answer = ob.answer
          /\ p.proposed = ob.proposed /\ p.unassessed = ob.unassessed
          /\ p.status = ob.status /\ p.step = "recall" /\ p.failed = ob.failed
      BY <1>1 DEF Shape, Chosen, Fields
    <3> QED
      BY <1>1, <2>1, <3>1, ShapeOfNew DEF Shape, Carries, Unanswered
  <2> QED
    BY <1>1, <2>1, Unanswering
<1> QED
  BY <1>1, <1>2, MayBe, RestKept, Kept

\* A use scores for itself only, and what it keeps of a failure is in step.
LEMMA SelectInd ==
  ASSUME DecisionConstants, DecisionInd, SelectNothing \/ SelectAlone \/ SelectRanked
  PROVE  DecisionInd'
<1>1. ob.step \in {"select", "recall", "identify", "fit", "ask"} /\ UNCHANGED <<memo, order, reading, wanted>>
  BY DEF SelectNothing, SelectAlone, SelectRanked, Selecting
<1>2. CoolKept'
  <2>1. UNCHANGED <<cooling, since>> => CoolKept'
    BY <1>1, RestKept
  <2>2. \A outcome : Score("advisory", outcome) => CoolKept'
    BY ScoreKept DEF DecisionInd, Aligners
  <2> QED
    BY <2>1, <2>2 DEF SelectNothing, SelectAlone, SelectRanked
<1>3. \/ \E status \in {"input_budget_exceeded", "selection_unavailable"} : ob' = Refused(ob, status)
      \/ ob' = Failed(ob)
      \/ ob' = Chosen(Nobody)
      \/ \E u \in Eligible(ob.task) : ob' = Chosen(u) /\ ~Conflicting(ob.task)
  BY DEF SelectNothing, SelectAlone, SelectRanked
<1>4. \A u : Chosen(u).unit = u /\ Chosen(u).task = ob.task
  BY <1>1, UnderWay DEF Chosen, Shape, Fields
<1>5. \E u : ob' = Chosen(u) /\ (u = Nobody \/ (u \in Eligible(ob.task) /\ ~Conflicting(ob.task)))
        => Evident(ob')
  BY <1>4 DEF Evident
<1> QED
  BY <1>1, <1>2, <1>3, <1>4, MovesOnUnanswered DEF Evident

LEMMA IdentifyInd ==
  ASSUME DecisionConstants, DecisionInd, Identify \/ PromptFits
  PROVE  DecisionInd'
<1>1. CoolKept'
  BY RestKept DEF Identify, PromptFits
<1> QED
  BY <1>1, MovesOnUnanswered DEF Identify, PromptFits

\* An answer to what this read asks.
LEMMA AssessedInd ==
  ASSUME DecisionConstants, DecisionInd, ob.step \in {"recall", "ask"}, NEW answer,
         Valid(answer, Body(ob.task, ob.unit)), ob' = Assessed(answer),
         UNCHANGED <<cooling, since, reading, wanted>>, MemoInv', MemoKept'
  PROVE  DecisionInd'
<1>1. /\ ob.task # "none" /\ Carries(ob)
      /\ Shape(ob) /\ Asks(ob.task) /\ Evident(ob) /\ Unanswered(ob) /\ ~ob.failed
  BY UnderWay
<1> DEFINE o == Assessed(answer)
<1>2. /\ Shape(o) /\ o.task = ob.task /\ o.unit = ob.unit /\ o.answer = answer
      /\ o.status = "observed" /\ o.step = "conclude" /\ o.failed = ob.failed
      /\ o.unassessed = ob.unassessed - (IF ob.unit = Nobody THEN 0 ELSE 1)
  BY <1>1 DEF Shape, Assessed, Fields
<1>3. Answered(o) /\ Evident(o)
  BY <1>1, <1>2 DEF Answered, Unanswered, Evident
<1>4. Carries(o)
  BY <1>1, <1>2, <1>3, ShapeOfNew DEF Carries, Shape
<1> QED
  BY <1>2, <1>4, MayBe, RestKept, Kept

LEMMA RecallInd ==
  ASSUME DecisionConstants, DecisionInd, AnswerFromMemo
  PROVE  DecisionInd'
<1> DEFINE key == Key(ob.task, ob.unit)
<1>1. ob.step = "recall" /\ UNCHANGED <<memo, order, cooling, since, reading, wanted>>
  BY DEF AnswerFromMemo
<1>2. MemoInv' /\ MemoKept' /\ CoolKept'
  BY <1>1, RestKept
<1>3. CASE Recall(key) = Nobody
  BY <1>1, <1>2, <1>3, MovesOnUnanswered DEF AnswerFromMemo
<1>4. CASE Recall(key) # Nobody
  <2>1. key \in DOMAIN memo /\ Recall(key) = memo[key] /\ key.body = Body(ob.task, ob.unit)
    BY <1>4 DEF Recall, Key
  <2>2. Valid(Recall(key), Body(ob.task, ob.unit))
    BY <2>1 DEF DecisionInd, MemoKept
  <2> QED
    BY <1>1, <1>2, <1>4, <2>2, AssessedInd DEF AnswerFromMemo
<1> QED
  BY <1>3, <1>4

LEMMA AskInd ==
  ASSUME DecisionConstants, DecisionInd, Ask
  PROVE  DecisionInd'
<1> DEFINE key == Key(ob.task, ob.unit)  body == Body(ob.task, ob.unit)
<1>1. ob.step = "ask" /\ UNCHANGED <<cooling, since, reading, wanted>>
  BY DEF Ask
<1>2. CASE ob' = Failed(ob) /\ UNCHANGED <<memo, order>>
  BY <1>1, <1>2, RestKept, MovesOnUnanswered
<1>3. CASE \E reply : Valid(reply, body) /\ Memoize(key, reply) /\ ob' = Assessed(reply)
  <2>1. PICK reply : Valid(reply, body) /\ Memoize(key, reply) /\ ob' = Assessed(reply)
    BY <1>3
  <2>2. key.body = body
    BY DEF Key
  <2> HIDE DEF key, body
  <2>3. MemoInv' /\ MemoKept'
    BY <2>1, <2>2, MemoizeKept DEF DecisionInd, DecisionInv
  <2> QED
    BY <1>1, <2>1, <2>3, AssessedInd DEF body
<1> QED
  BY <1>2, <1>3 DEF Ask

\* What is concluded says what was observed.
LEMMA ConcludeInd ==
  ASSUME DecisionConstants, DecisionInd, ConcludeSupport \/ ConcludeRoute
  PROVE  DecisionInd'
<1>1. /\ ob.step = "conclude" /\ ob.task # "none" /\ Carries(ob)
      /\ UNCHANGED <<memo, order, cooling, since, reading>>
  BY DEF ConcludeSupport, ConcludeRoute, DecisionInd, ObservationKept
<1>2. /\ Shape(ob) /\ Asks(ob.task) /\ Evident(ob)
      /\ Unanswered(ob) \/ (Answered(ob) /\ ob.status = "observed")
  BY <1>1, ShapeOfNew DEF Carries, Shape
<1>3. Cardinality(Ids(ob.task)) \in Nat
  BY <1>2, IdsFinite
<1>4. ob.unit = Nobody \/ TextsNamed(ob.task, ob.unit) = {ob.unit.text}
  BY <1>2, EvidenceNamed DEF Evident
<1>5. CASE ConcludeSupport
  <2> DEFINE o == [ob EXCEPT !.step = "done", !.status = IF ob.failed THEN "unavailable" ELSE @]
  <2>1. /\ Shape(o) /\ o.task = ob.task /\ o.unit = ob.unit /\ o.answer = ob.answer
        /\ o.proposed = ob.proposed /\ o.unassessed = ob.unassessed /\ o.step = "done"
        /\ o.status = IF ob.failed THEN "unavailable" ELSE ob.status
    BY <1>2 DEF Shape, Fields
  <2>2. ob' = o /\ ob.task = "support" /\ wanted' \in {wanted, <<>>}
    BY <1>5 DEF ConcludeSupport
  <2> HIDE DEF o
  <2>3. Carries(o)
    BY <1>2, <2>1, ShapeOfNew DEF Carries, Shape, Evident
  <2>4. Concluded(o)
    BY <1>2, <1>3, <1>4, <2>1, <2>2 DEF Concluded, Unanswered, Answered
  <2>5. WantedKept'
    <3>1. CASE wanted' = wanted
      BY <1>1, <3>1, RestKept
    <3>2. CASE wanted' = <<>>
      BY <3>2, EmptySeq DEF WantedKept
    <3> QED
      BY <2>2, <3>1, <3>2
  <2> QED
    BY <1>1, <2>2, <2>3, <2>4, <2>5, MayBe, RestKept, Kept
<1>6. CASE ConcludeRoute
  <2> DEFINE choice == IF ob.status = "observed" THEN ob.answer.choice ELSE Nobody
             withdrawn == ob.failed \/ (ob.status = "observed" /\ choice \notin Menu(reading.page))
             o == [ob EXCEPT !.step = "done",
                             !.status = IF withdrawn THEN "unavailable" ELSE @,
                             !.answer = IF withdrawn THEN Nobody ELSE @,
                             !.proposed = IF withdrawn THEN Nobody ELSE choice]
  <2>1. ob' = o /\ ob.task = "route" /\ UNCHANGED wanted
    BY <1>6 DEF ConcludeRoute
  <2>2. ob.status = "observed" => choice \in Menu(reading.page) /\ ~withdrawn
    BY <1>2, <2>1 DEF Answered, Unanswered, Valid, Body, Criteria
  <2> HIDE DEF choice, withdrawn
  <2>3. /\ Shape(o) /\ o.task = ob.task /\ o.unit = ob.unit
        /\ o.answer = IF withdrawn THEN Nobody ELSE ob.answer
        /\ o.proposed = IF withdrawn THEN Nobody ELSE choice
        /\ o.status = IF withdrawn THEN "unavailable" ELSE ob.status
        /\ o.unassessed = ob.unassessed /\ o.step = "done"
    BY <1>2 DEF Shape, Fields
  <2> HIDE DEF o
  <2>4. Carries(o)
    BY <1>2, <2>3, ShapeOfNew DEF Carries, Shape, Evident
  <2>5. Concluded(o)
    BY <1>2, <1>3, <1>4, <2>1, <2>2, <2>3 DEF Concluded, Unanswered, Answered, choice
  <2> QED
    BY <1>1, <2>1, <2>4, <2>5, MayBe, RestKept, Kept
<1> QED
  BY <1>5, <1>6

\* A read that is final asks for what it has.
LEMMA BeginAuditInd ==
  ASSUME DecisionConstants, DecisionInd, BeginAudit
  PROVE  DecisionInd'
<1>1. /\ reading' \in Readings /\ ob' = Idle /\ UNCHANGED <<memo, order, cooling, since>>
      /\ wanted' = (IF reading'.assertion = Nobody THEN <<>> ELSE <<"support">>)
                   \o (IF reading'.page = Nobody THEN <<>> ELSE <<"route">>)
  BY DEF BeginAudit
<1> DEFINE S == {"support", "route"}
           first == IF reading'.assertion = Nobody THEN <<>> ELSE <<"support">>
           second == IF reading'.page = Nobody THEN <<>> ELSE <<"route">>
<1>2. /\ first \in Seq(S) /\ \A i \in 1..Len(first) : first[i] = "support"
      /\ second \in Seq(S)
      /\ \A i \in 1..Len(second) : second[i] = "route" /\ reading'.page # Nobody
  <2>1. /\ <<>> \in Seq(S) /\ Len(<<>>) = 0 /\ 1..0 = {}
        /\ <<"support">> \in Seq(S) /\ <<"route">> \in Seq(S)
    BY EmptySeq
  <2>2. /\ Len(<<"support">>) = 1 /\ <<"support">>[1] = "support"
        /\ Len(<<"route">>) = 1 /\ <<"route">>[1] = "route" /\ \A i \in 1..1 : i = 1
    OBVIOUS
  <2>3. first \in Seq(S) /\ \A i \in 1..Len(first) : first[i] = "support"
    <3>1. CASE reading'.assertion = Nobody
      BY <2>1, <3>1
    <3>2. CASE reading'.assertion # Nobody
      BY <2>1, <2>2, <3>2
    <3> QED
      BY <3>1, <3>2
  <2>4. /\ second \in Seq(S)
        /\ \A i \in 1..Len(second) : second[i] = "route" /\ reading'.page # Nobody
    <3>1. CASE reading'.page = Nobody
      BY <2>1, <3>1
    <3>2. CASE reading'.page # Nobody
      BY <2>1, <2>2, <3>2
    <3> QED
      BY <3>1, <3>2
  <2> QED
    BY <2>3, <2>4
<1> HIDE DEF first, second
<1>3. WantedKept'
  <2>1. /\ wanted' \in Seq(S) /\ Len(wanted') = Len(first) + Len(second)
        /\ \A i \in 1..Len(first) + Len(second) :
              wanted'[i] = IF i <= Len(first) THEN first[i] ELSE second[i - Len(first)]
    BY <1>1, <1>2, ConcatProperties DEF first, second
  <2>2. DOMAIN wanted' = 1..Len(first) + Len(second) /\ Len(first) \in Nat /\ Len(second) \in Nat
    BY <1>2, <2>1, LenProperties
  <2>3. ASSUME NEW i \in DOMAIN wanted'
        PROVE  wanted'[i] \in S /\ (wanted'[i] = "route" => reading'.page # Nobody)
    <3>1. CASE i <= Len(first)
      BY <1>2, <2>1, <2>2, <3>1
    <3>2. CASE ~(i <= Len(first))
      <4>1. i - Len(first) \in 1..Len(second) /\ wanted'[i] = second[i - Len(first)]
        BY <2>1, <2>2, <3>2
      <4> QED
        BY <1>2, <4>1
    <3> QED
      BY <3>1, <3>2
  <2> QED
    BY <1>1, <2>1, <2>3 DEF WantedKept, Asks
<1>4. MemoInv' /\ MemoKept' /\ CoolKept'
  BY <1>1 DEF DecisionInd, DecisionInv, MemoInv, MemoKept, CoolKept, Valid
<1>5. ObservationKept' /\ AuditInv'
  BY <1>1, StandsStill DEF DecisionInd, DecisionInv
<1> QED
  BY <1>3, <1>4, <1>5, Kept

\* A service that has just begun, or begun again.
LEMMA Fresh ==
  ASSUME DecisionConstants
  PROVE  /\ DecisionsInit => DecisionInd
         /\ DecisionInd /\ Renew => DecisionInd'
<1>1. /\ \A S : <<>> \in Seq(S)
      /\ ToSet(<<>>) = {} /\ Len(<<>>) = 0 /\ DOMAIN <<>> = {} /\ Cardinality({}) = 0
  BY EmptySeq, FS_EmptySet DEF ToSet
<1>2. Idle.task = "none" /\ Idle.step = "done"
  BY DEF Idle
<1>3. ASSUME DecisionsInit
      PROVE  DecisionInd
  <2>1. MemoInv /\ MemoKept
    <3>1. memo = <<>> /\ order = <<>>
      BY <1>3 DEF DecisionsInit
    <3>2. Len(order) <= MemoEntries
      BY <1>1, <3>1 DEF DecisionConstants
    <3> QED
      BY <1>1, <3>1, <3>2, Zenon DEF MemoInv, MemoKept
  <2>2. CoolKept
    BY <1>3 DEF DecisionsInit, CoolKept, DecisionConstants
  <2>3. CoolInv
    BY <2>2 DEF DecisionConstants, CoolKept, CoolInv, CoolingDown, AlignerOf
  <2>4. WantedKept /\ ObservationKept /\ AuditInv
    BY <1>1, <1>2, <1>3 DEF DecisionsInit, WantedKept, ObservationKept, AuditInv
  <2> QED
    BY <2>1, <2>2, <2>3, <2>4 DEF DecisionInd, DecisionInv
<1>4. ASSUME DecisionInd, Renew
      PROVE  DecisionInd'
  <2>1. MemoInv' /\ MemoKept'
    <3>1. memo' = <<>> /\ order' = <<>>
      BY <1>4 DEF Renew
    <3>2. Len(order') <= MemoEntries
      BY <1>1, <3>1 DEF DecisionConstants
    <3> QED
      BY <1>1, <3>1, <3>2, Zenon DEF MemoInv, MemoKept
  <2>2. CoolKept'
    BY <1>4 DEF Renew, CoolKept, DecisionConstants
  <2>3. WantedKept' /\ ObservationKept' /\ AuditInv'
    BY <1>1, <1>2, <1>4 DEF Renew, WantedKept, ObservationKept, AuditInv
  <2> QED
    BY <2>1, <2>2, <2>3, Kept
<1> QED
  BY <1>3, <1>4

\* The clock, and a ranking of the retrieval.
LEMMA AsideInd ==
  ASSUME DecisionConstants, DecisionInd, Tick \/ Rank
  PROVE  DecisionInd'
<1>1. UNCHANGED <<memo, order, reading, wanted, ob>>
  BY DEF Tick, Rank
<1>2. CoolKept'
  BY TickKept, ScoreKept DEF Rank, DecisionInd, Aligners
<1>3. ObservationKept' /\ AuditInv'
  BY <1>1, StandsStill DEF DecisionInd, DecisionInv
<1> QED
  BY <1>1, <1>2, <1>3, RestKept, Kept

-----------------------------------------------------------------------------
\* Whatever reads come, fail and are asked about, the memo holds only valid
\* answers within its bound, a concluded audit speaks of the passage, the
\* question and the menu of its own read, and an aligner rests for exactly
\* the cooldown after a failure of its own (decision_memo.go,
\* decision_local.go, semantic.go).
THEOREM DecisionsHold == DecisionsSpec => []DecisionInd
<1>1. DecisionsInit => DecisionInd
  BY Fresh, DecisionConstants
<1>2. DecisionInd /\ [DecisionsNext]_decisionVars => DecisionInd'
  <2> SUFFICES ASSUME DecisionInd, [DecisionsNext]_decisionVars
               PROVE  DecisionInd'
    OBVIOUS
  <2>1. CASE DecisionsNext
    BY <2>1, DecisionConstants, AsideInd, Fresh, BeginAuditInd, AdmitInd, SelectInd, RecallInd,
       IdentifyInd, AskInd, ConcludeInd DEF DecisionsNext
  <2>2. CASE UNCHANGED decisionVars
    <3>1. UNCHANGED <<memo, order, cooling, since, reading, wanted, ob>>
      BY <2>2 DEF decisionVars
    <3>2. ObservationKept' /\ AuditInv'
      BY <3>1, StandsStill DEF DecisionInd, DecisionInv
    <3> QED
      BY <3>1, <3>2, RestKept, Kept, DecisionConstants
  <2> QED
    BY <2>1, <2>2
<1> QED
  BY <1>1, <1>2, PTL DEF DecisionsSpec

\* An answer kept under a key is the answer to what the key says was sent:
\* after a page changes or its menu does, the old answer is not recalled.
THEOREM MemoHolds == DecisionsSpec => [](MemoInv /\ MemoKept)
<1>1. DecisionInd => MemoInv /\ MemoKept
  BY DEF DecisionInd, DecisionInv
<1> QED
  BY <1>1, DecisionsHold, PTL

-----------------------------------------------------------------------------
(***************************************************************************)
(* Proofs about Packing: whatever the policies exchange, PackInd holds.    *)
(*                                                                         *)
(* What a policy is given and leaves is a Selection; each policy is proved *)
(* to keep that, and the facts of PackInd about the earlier read and about *)
(* what was reused are carried by Stays and Few.                           *)
(***************************************************************************)

\* Ascending lists a set of naturals in its order.
LEMMA AscendingExists ==
  ASSUME NEW S \in SUBSET Nat, IsFiniteSet(S)
  PROVE  \E s \in [1..Cardinality(S) -> S] :
            \A i, j \in 1..Cardinality(S) : i < j => s[i] < s[j]
<1> DEFINE Lists(T) == \E s \in [1..Cardinality(T) -> T] :
                          \A i, j \in 1..Cardinality(T) : i < j => s[i] < s[j]
           Bad == {n \in Nat : \E T \in SUBSET S : Cardinality(T) = n /\ ~Lists(T)}
<1>0. \A T \in SUBSET S : IsFiniteSet(T) /\ Cardinality(T) \in Nat
  <2>1. \A T \in SUBSET S : IsFiniteSet(T)
    BY FS_Subset
  <2> QED
    BY <2>1, FS_CardinalityType
<1>1. SUFFICES ASSUME Bad # {} PROVE FALSE
  <2>1. S \in SUBSET S /\ Cardinality(S) \in Nat
    BY <1>0
  <2>2. Lists(S)
    BY <1>1, <2>1
  <2> QED
    BY <2>2
<1>2. PICK n \in Bad : \A m \in Bad : n <= m
  <2>1. Bad \in SUBSET Nat
    OBVIOUS
  <2> HIDE DEF Bad
  <2> QED
    BY <1>1, <2>1, LeastNat
<1>3. PICK T \in SUBSET S : Cardinality(T) = n /\ ~Lists(T)
  BY <1>2
<1>4. n \in Nat /\ n # 0
  <2>1. n \in Nat
    BY <1>2
  <2>2. ASSUME n = 0 PROVE FALSE
    <3>1. 1..Cardinality(T) = {}
      BY <1>3, <2>2
    <3>2. [i \in {} |-> i] \in [1..Cardinality(T) -> T]
      BY <3>1
    <3>3. Lists(T)
      BY <3>1, <3>2
    <3> QED
      BY <1>3, <3>3
  <2> QED
    BY <2>1, <2>2
<1>5. T # {}
  <2>1. IsFiniteSet(T)
    BY <1>0
  <2> QED
    BY <1>3, <1>4, <2>1, FS_EmptySet
<1>6. PICK top \in T : \A m \in T : m <= top
  <2>1. T \in SUBSET Int /\ IsFiniteSet(T)
    BY <1>0
  <2> QED
    BY <1>5, <2>1, GreatestInt
<1> DEFINE U == T \ {top}
<1>7. Cardinality(U) = n - 1 /\ U \in SUBSET S
  <2>1. IsFiniteSet(T)
    BY <1>0
  <2> QED
    BY <1>3, <1>6, <2>1, FS_RemoveElement
<1>8. n - 1 \in Nat /\ ~(n <= n - 1)
  BY <1>4
<1>9. Lists(U)
  <2>1. n - 1 \notin Bad
    BY <1>2, <1>8, Zenon
  <2> QED
    BY <1>7, <1>8, <2>1
<1> DEFINE m == n - 1
<1>10. PICK s \in [1..m -> U] : \A i, j \in 1..m : i < j => s[i] < s[j]
  BY <1>7, <1>9
<1> DEFINE t == [i \in 1..n |-> IF i = n THEN top ELSE s[i]]
<1>11. \A i \in 1..n : i # n => i \in 1..m
  BY <1>4
<1>12. t \in [1..n -> T]
  BY <1>6, <1>10, <1>11
<1>13. ASSUME NEW i \in 1..n, NEW j \in 1..n, i < j PROVE t[i] < t[j]
  <2>1. i # n /\ i \in 1..m /\ s[i] \in U
    BY <1>4, <1>10, <1>11, <1>13
  <2>2. t[i] = s[i] /\ s[i] \in T /\ s[i] # top /\ T \in SUBSET Nat
    BY <2>1
  <2>3. CASE j = n
    <3>1. t[j] = top /\ s[i] <= top /\ s[i] \in Nat /\ top \in Nat
      BY <1>6, <2>2, <2>3
    <3> QED
      BY <2>2, <3>1
  <2>4. CASE j # n
    BY <1>10, <1>11, <1>13, <2>1, <2>4
  <2> QED
    BY <2>3, <2>4
<1>14. Lists(T)
  <2> HIDE DEF t
  <2> QED
    BY <1>3, <1>12, <1>13
<1> QED
  BY <1>3, <1>14

\* What Ascending returns: each member once, the lesser first.
LEMMA AscendingIs ==
  ASSUME NEW S \in SUBSET Nat, IsFiniteSet(S)
  PROVE  /\ Cardinality(S) \in Nat
         /\ Ascending(S) \in Seq(S) /\ Len(Ascending(S)) = Cardinality(S)
         /\ Ascending(S) \in [1..Cardinality(S) -> S]
         /\ \A i, j \in 1..Cardinality(S) : i < j => Ascending(S)[i] < Ascending(S)[j]
         /\ \A i, j \in 1..Cardinality(S) : i # j => Ascending(S)[i] # Ascending(S)[j]
         /\ \A r \in S : \E i \in 1..Cardinality(S) : Ascending(S)[i] = r
<1> DEFINE n == Cardinality(S)  t == Ascending(S)
<1>1. n \in Nat
  BY FS_CardinalityType
<1>2. PICK s \in [1..n -> S] : \A i, j \in 1..n : i < j => s[i] < s[j]
  BY AscendingExists
<1>3. \A i, j \in 1..n : i # j => s[i] # s[j]
  <2> TAKE i, j \in 1..n
  <2>0. i \in Nat /\ j \in Nat
    BY <1>1
  <2>1. s[i] \in Nat /\ s[j] \in Nat /\ i \in Nat /\ j \in Nat
    <3>1. s[i] \in S /\ s[j] \in S
      BY <1>2
    <3> QED
      BY <2>0, <3>1
  <2>2. i < j => s[i] < s[j]
    BY <1>2
  <2>3. j < i => s[j] < s[i]
    BY <1>2
  <2> QED
    BY <2>1, <2>2, <2>3
<1>4. s \in SetToSeqs(S) /\ \A i, j \in DOMAIN s : i < j => s[i] < s[j]
  BY <1>2, <1>3 DEF SetToSeqs
<1>5. t \in SetToSeqs(S) /\ \A i, j \in DOMAIN t : i < j => t[i] < t[j]
  BY <1>4 DEF Ascending
<1>6. t \in [1..n -> S] /\ \A i, j \in 1..n : i # j => t[i] # t[j]
  BY <1>5 DEF SetToSeqs
<1> HIDE DEF t
<1>7. t \in Seq(S) /\ Len(t) = n
  <2>1. t \in Seq(S)
    BY <1>1, <1>6, IsASequence
  <2> QED
    BY <1>1, <1>6, <2>1, LenProperties
<1>8. \A r \in S : \E i \in 1..n : t[i] = r
  <2>1. t \in Injection(1..n, S)
    BY <1>6 DEF Injection, IsInjective
  <2>2. IsFiniteSet(1..n) /\ Cardinality(1..n) = n
    <3>1. 1 \in Int /\ n \in Int /\ (1 > n <=> n = 0) /\ n - 1 + 1 = n
      BY <1>1
    <3> QED
      BY <3>1, FS_Interval
  <2>3. t \in Surjection(1..n, S)
    BY <2>1, <2>2, FS_Injection
  <2> QED
    BY <2>3 DEF Surjection
<1> QED
  BY <1>1, <1>5, <1>6, <1>7, <1>8 DEF t

\* A chunk of an answer; Apart: no segment twice.
Chunk == [rank : Ranked, done : SUBSET {"extract", "compact"}]
Apart(s) == \A i, j \in DOMAIN s : i # j => s[i].rank # s[j].rank

\* What every policy is given and leaves: chunks of the ranking, some, no more
\* than the profile allows, none twice.
Selection(s) == s \in Seq(Chunk) /\ s # <<>> /\ Len(s) <= Limit /\ Apart(s)

\* What is chosen before the first step.
PackStateOK ==
  /\ profile \in {"tiny", "standard", "deep"}
  /\ size \in 1..MaxSegments /\ stable \in SUBSET Ranked

\* The ranking and what a profile takes of it are not empty.
LEMMA RankedIs ==
  ASSUME PackStateOK
  PROVE  /\ size \in Nat \ {0} /\ Ranked \in SUBSET Nat /\ IsFiniteSet(Ranked)
         /\ Limit \in Nat \ {0} /\ Held \in SUBSET Ranked /\ Held \in SUBSET stable
<1>1. size \in Nat \ {0} /\ Ranked \in SUBSET Nat
  BY PackingConstants DEF PackStateOK, Ranked
<1>2. IsFiniteSet(Ranked)
  <2>1. 1 \in Int /\ size \in Int
    BY <1>1
  <2> QED
    BY <2>1, FS_Interval DEF Ranked
<1>3. Limit \in Nat \ {0}
  BY <1>1, PackingConstants DEF PackStateOK, Limit
<1> QED
  BY <1>1, <1>2, <1>3 DEF Held

\* The shape of a list of chunks.
LEMMA ChunksAre ==
  ASSUME NEW s \in Seq(Chunk)
  PROVE  /\ Len(s) \in Nat /\ DOMAIN s = 1..Len(s) /\ (s # <<>> <=> Len(s) # 0)
         /\ s \in [1..Len(s) -> Chunk]
         /\ \A i \in 1..Len(s) : s[i] \in Chunk /\ s[i].rank \in Ranked
         /\ Ranks(s) \in SUBSET Ranked
         /\ Ranks(s) = {s[i].rank : i \in 1..Len(s)}
<1>1. Len(s) \in Nat /\ DOMAIN s = 1..Len(s) /\ (s # <<>> <=> Len(s) # 0)
  BY LenProperties, EmptySeq
<1>2. s \in [1..Len(s) -> Chunk]
  BY LenProperties
<1>3. \A i \in 1..Len(s) : s[i] \in Chunk /\ s[i].rank \in Ranked
  BY <1>2 DEF Chunk
<1> QED
  BY <1>1, <1>2, <1>3 DEF Ranks

\* Least and Largest return a member.
LEMMA LeastIs ==
  ASSUME NEW S \in SUBSET Nat, S # {}
  PROVE  Least(S) \in S /\ \A r \in S : Least(S) <= r
<1>1. \E n \in S : \A m \in S : n <= m
  BY LeastNat
<1> QED
  BY <1>1 DEF Least

LEMMA LargestIs ==
  ASSUME NEW S \in SUBSET Nat, S # {}, IsFiniteSet(S)
  PROVE  Largest(S) \in S
<1>1. \E n \in S : \A m \in S : m <= n
  <2>1. S \in SUBSET Int
    OBVIOUS
  <2> QED
    BY <2>1, GreatestInt
<1> QED
  BY <1>1 DEF Largest

\* A segment from outside takes the place of a chunk.
LEMMA Exchange ==
  ASSUME PackStateOK, NEW s, Selection(s), NEW k \in DOMAIN s, NEW r \in Ranked \ Ranks(s)
  PROVE  /\ Selection([s EXCEPT ![k] = Plain(r)])
         /\ r \in Ranks([s EXCEPT ![k] = Plain(r)])
<1> DEFINE t == [s EXCEPT ![k] = Plain(r)]
<1>1. s \in Seq(Chunk) /\ s # <<>> /\ Len(s) <= Limit /\ Apart(s)
  BY DEF Selection
<1>2. /\ Len(s) \in Nat /\ DOMAIN s = 1..Len(s) /\ s \in [1..Len(s) -> Chunk] /\ Len(s) # 0
      /\ Ranks(s) = {s[i].rank : i \in 1..Len(s)}
  BY <1>1, ChunksAre
<1>3. Plain(r) \in Chunk /\ Plain(r).rank = r
  BY DEF Plain, Chunk
<1>4. t \in [1..Len(s) -> Chunk]
  BY <1>2, <1>3
<1>5. t[k] = Plain(r) /\ \A i \in 1..Len(s) : i # k => t[i] = s[i]
  BY <1>2
<1> HIDE DEF t
<1>6. t \in Seq(Chunk) /\ Len(t) = Len(s)
  <2>1. t \in Seq(Chunk)
    BY <1>2, <1>4, IsASequence
  <2> QED
    BY <1>2, <1>4, <2>1, LenProperties
<1>7. \A i \in 1..Len(s) : s[i].rank # r
  BY <1>2
<1>8. Apart(t)
  <2> SUFFICES ASSUME NEW i \in 1..Len(s), NEW j \in 1..Len(s), i # j PROVE t[i].rank # t[j].rank
    BY <1>4 DEF Apart
  <2>1. s[i].rank # s[j].rank
    BY <1>1, <1>2 DEF Apart
  <2> QED
    BY <1>3, <1>5, <1>7, <2>1
<1>9. r \in Ranks(t)
  BY <1>2, <1>3, <1>4, <1>5 DEF Ranks
<1>10. Selection(t)
  <2>1. t # <<>>
    BY <1>2, <1>6, ChunksAre
  <2> QED
    BY <1>1, <1>6, <1>8, <2>1 DEF Selection
<1> QED
  BY <1>9, <1>10 DEF t

\* The elements at some places are as far apart as they were.
LEMMA AmongIs ==
  ASSUME NEW s \in Seq(Chunk), Apart(s), NEW I \in SUBSET DOMAIN s
  PROVE  /\ Among(s, I) \in Seq(Chunk) /\ Apart(Among(s, I))
         /\ Len(Among(s, I)) = Cardinality(I) /\ Cardinality(I) <= Len(s)
         /\ Ranks(Among(s, I)) = {s[i].rank : i \in I}
<1> DEFINE n == Cardinality(I)  places == Ascending(I)  t == Among(s, I)
<1>1. Len(s) \in Nat /\ DOMAIN s = 1..Len(s) /\ s \in [1..Len(s) -> Chunk]
  BY ChunksAre
<1>2. /\ IsFiniteSet(1..Len(s)) /\ Cardinality(1..Len(s)) = Len(s)
  <2>1. 1 \in Int /\ Len(s) \in Int /\ (1 > Len(s) <=> Len(s) = 0) /\ Len(s) - 1 + 1 = Len(s)
    BY <1>1
  <2> QED
    BY <2>1, FS_Interval
<1>3. IsFiniteSet(I) /\ n <= Len(s) /\ I \in SUBSET Nat
  <2>1. I \in SUBSET (1..Len(s))
    BY <1>1
  <2>2. I \in SUBSET Nat
    BY <1>1, <2>1
  <2> QED
    BY <1>2, <2>1, <2>2, FS_Subset
<1>4. /\ n \in Nat /\ places \in [1..n -> I]
      /\ \A i, j \in 1..n : i # j => places[i] # places[j]
      /\ \A r \in I : \E i \in 1..n : places[i] = r
  BY <1>3, AscendingIs
<1> HIDE DEF n, places
<1>5. t = [k \in 1..n |-> s[places[k]]]
  BY <1>4 DEF Among, places
<1>6. t \in [1..n -> Chunk]
  BY <1>1, <1>4, <1>5
<1>7. t \in Seq(Chunk) /\ Len(t) = n
  <2> HIDE DEF t
  <2>1. t \in Seq(Chunk)
    BY <1>4, <1>6, IsASequence
  <2> QED
    BY <1>4, <1>6, <2>1, LenProperties
<1>8. Apart(t)
  <2> SUFFICES ASSUME NEW i \in 1..n, NEW j \in 1..n, i # j PROVE t[i].rank # t[j].rank
    BY <1>6 DEF Apart
  <2>1. places[i] # places[j] /\ places[i] \in DOMAIN s /\ places[j] \in DOMAIN s
    BY <1>4
  <2> QED
    BY <1>5, <2>1 DEF Apart
<1>9. Ranks(t) = {s[i].rank : i \in I}
  <2>1. Ranks(t) = {s[places[k]].rank : k \in 1..n}
    BY <1>5, <1>6 DEF Ranks
  <2> QED
    BY <1>4, <2>1
<1> QED
  BY <1>3, <1>7, <1>8, <1>9 DEF n

\* The first k of a list.
LEMMA UptoIs ==
  ASSUME NEW S, NEW s \in Seq(S), NEW k \in Nat
  PROVE  /\ Upto(s, k) \in Seq(S) /\ Len(Upto(s, k)) = IF Len(s) < k THEN Len(s) ELSE k
         /\ \A i \in 1..Len(Upto(s, k)) : Upto(s, k)[i] = s[i]
<1> DEFINE n == IF Len(s) < k THEN Len(s) ELSE k
<1>1. Len(s) \in Nat /\ n \in Nat /\ n <= Len(s)
  BY LenProperties
<1>2. /\ 1 \in 1..(Len(s) + 1) /\ n \in (1 - 1)..Len(s)
      /\ (IF 1 <= n THEN n - 1 + 1 ELSE 0) = n /\ n - 1 + 1 = n
  BY <1>1
<1> HIDE DEF n
<1>3. /\ SubSeq(s, 1, n) \in Seq(S) /\ Len(SubSeq(s, 1, n)) = n
      /\ \A i \in 1..n : SubSeq(s, 1, n)[i] = s[1 + i - 1]
  BY <1>2, SubSeqProperties
<1>4. \A i \in 1..n : 1 + i - 1 = i
  BY <1>1
<1>5. Upto(s, k) = SubSeq(s, 1, n)
  BY DEF Upto, n
<1>6. \A i \in 1..n : Upto(s, k)[i] = s[i]
  BY <1>3, <1>4, <1>5
<1>7. Len(Upto(s, k)) = n /\ Upto(s, k) \in Seq(S)
  BY <1>3, <1>5
<1> QED
  BY <1>6, <1>7 DEF n

\* The segments of a list, as they were ranked.
Plains(f) == [i \in DOMAIN f |-> Plain(f[i])]

LEMMA PlainsAre ==
  ASSUME NEW f \in Seq(Ranked), \A i, j \in 1..Len(f) : i # j => f[i] # f[j]
  PROVE  /\ Plains(f) \in Seq(Chunk) /\ Len(Plains(f)) = Len(f) /\ Apart(Plains(f))
         /\ Ranks(Plains(f)) = ToSet(f)
<1> DEFINE t == Plains(f)
<1>1. Len(f) \in Nat /\ DOMAIN f = 1..Len(f) /\ f \in [1..Len(f) -> Ranked]
  BY LenProperties
<1>2. t = [i \in 1..Len(f) |-> Plain(f[i])]
  BY <1>1 DEF Plains
<1>3. \A r \in Ranked : Plain(r) \in Chunk /\ Plain(r).rank = r
  BY DEF Plain, Chunk
<1> HIDE DEF t
<1>4. t \in [1..Len(f) -> Chunk] /\ \A i \in 1..Len(f) : t[i].rank = f[i]
  BY <1>1, <1>2, <1>3
<1>5. t \in Seq(Chunk) /\ Len(t) = Len(f)
  <2>1. t \in Seq(Chunk)
    BY <1>1, <1>4, IsASequence
  <2> QED
    BY <1>1, <1>4, <2>1, LenProperties
<1>6. Apart(t)
  BY <1>4 DEF Apart
<1>7. Ranks(t) = ToSet(f)
  BY <1>1, <1>4 DEF Ranks, ToSet
<1> QED
  BY <1>5, <1>6, <1>7 DEF t

\* The parts of PackInd.
PackSteps == {"select", "tasks", "intel", "evidence", "distinct", "gate", "reuse", "sort", "proofs"}
Stays(s) == Held # {} => Ranks(s) \cap stable # {}
Few(s, some) ==
  /\ some \subseteq Ranks(s) \cap stable
  /\ Cardinality(some) <= 1 \/ 2 * Cardinality(some) <= Len(s)

\* What PackInd says, step by step.
LEMMA PackIs ==
  ASSUME PackInd
  PROVE  /\ PackStateOK /\ kstep \in PackSteps /\ marks \in [Ranked -> SUBSET {"extract", "compact"}]
         /\ kstep # "select" => Selection(picked)
         /\ kstep \in {"reuse", "sort", "proofs"} => Stays(picked)
         /\ kstep \in {"sort", "proofs"} => Few(picked, reused)
         /\ kstep \notin {"sort", "proofs"} => reused = {}
BY DEF PackInd, PackTypeOK, PackInv, GateInv, PackStateOK, PackSteps, Selection, Chunk, Apart, Stays, Few

\* What a step has to show.
LEMMA PackLeads ==
  ASSUME PackInd, UNCHANGED <<profile, size, stable>>, kstep' \in PackSteps, kstep' # "select",
         Selection(picked'), marks' \in [Ranked -> SUBSET {"extract", "compact"}],
         kstep' \in {"reuse", "sort", "proofs"} => Stays(picked'),
         kstep' \in {"sort", "proofs"} => Few(picked', reused'),
         kstep' \notin {"sort", "proofs"} => reused' = {},
         kstep' = "proofs" => \A i, j \in DOMAIN picked' : i < j => picked'[i].rank < picked'[j].rank
  PROVE  PackInd'
<1>1. Ranked' = Ranked /\ Limit' = Limit /\ Held' = Held
  BY DEF Ranked, Limit, Held
<1>2. Ranks(picked)' = Ranks(picked')
  BY DEF Ranks
<1>3. PackTypeOK'
  BY <1>1 DEF PackInd, PackTypeOK, PackSteps, Selection, Chunk
<1>4. GateInv'
  BY <1>1, <1>2 DEF GateInv, Stays, Few
<1>5. PackInv'
  <2>1. (kstep # "select" => picked # <<>> /\ Len(picked) <= Limit)'
    BY <1>1 DEF Selection
  <2>2. (\A i, j \in DOMAIN picked : i # j => picked[i].rank # picked[j].rank)'
    BY DEF Selection, Apart
  <2>3. (kstep = "proofs" => \A i, j \in DOMAIN picked : i < j => picked[i].rank < picked[j].rank)'
    OBVIOUS
  <2>4. (kstep = "proofs" => /\ Held # {} => Ranks(picked) \cap stable # {}
                             /\ reused \subseteq Ranks(picked) \cap stable
                             /\ Cardinality(reused) <= 1 \/ 2 * Cardinality(reused) <= Len(picked))'
    BY <1>1, <1>2 DEF Stays, Few
  <2> QED
    BY <2>1, <2>2, <2>3, <2>4 DEF PackInv
<1> QED
  BY <1>3, <1>4, <1>5 DEF PackInd

\* The eight steps, in the order of pack.
LEMMA SelectStep ==
  ASSUME PackInd, SelectProfile
  PROVE  PackInd'
<1>1. /\ PackStateOK /\ marks \in [Ranked -> SUBSET {"extract", "compact"}] /\ reused = {}
      /\ kstep = "select" /\ kstep' = "tasks"
      /\ UNCHANGED <<profile, size, stable, marks, reused>>
  BY PackIs DEF SelectProfile
<1>2. PICK noise \in IF profile = "deep" THEN {{}} ELSE SUBSET Ranked :
        LET eligible == Ranked \ noise
            first == Upto(Ascending(IF eligible = {} THEN Ranked ELSE eligible), Limit) IN
        picked' = [i \in DOMAIN first |-> Plain(first[i])]
  BY DEF SelectProfile
<1> DEFINE E == IF Ranked \ noise = {} THEN Ranked ELSE Ranked \ noise
           A == Ascending(E)
           first == Upto(A, Limit)
<1>3. picked' = Plains(first)
  BY <1>2 DEF Plains
<1>4. /\ size \in Nat \ {0} /\ Ranked \in SUBSET Nat /\ IsFiniteSet(Ranked) /\ Limit \in Nat \ {0}
  BY <1>1, RankedIs
<1>5. E \in SUBSET Ranked /\ E # {}
  <2>1. 1 \in Ranked
    BY <1>4 DEF Ranked
  <2> QED
    BY <2>1
<1> HIDE DEF E
<1>6. IsFiniteSet(E) /\ E \in SUBSET Nat /\ Cardinality(E) # 0
  <2>1. IsFiniteSet(E)
    BY <1>4, <1>5, FS_Subset
  <2> QED
    BY <1>4, <1>5, <2>1, FS_EmptySet
<1>7. /\ Cardinality(E) \in Nat /\ A \in Seq(E) /\ Len(A) = Cardinality(E)
      /\ \A i, j \in 1..Cardinality(E) : i # j => A[i] # A[j]
  BY <1>6, AscendingIs
<1> HIDE DEF A
<1>8. A \in Seq(Ranked)
  BY <1>5, <1>7, Wider
<1>9. /\ first \in Seq(Ranked) /\ Len(first) = IF Len(A) < Limit THEN Len(A) ELSE Limit
      /\ \A i \in 1..Len(first) : first[i] = A[i]
  BY <1>4, <1>8, UptoIs
<1> HIDE DEF first
<1>10. Len(first) \in Nat /\ Len(first) # 0 /\ Len(first) <= Limit /\ Len(first) <= Len(A)
  BY <1>4, <1>6, <1>7, <1>9
<1>11. \A i, j \in 1..Len(first) : i # j => first[i] # first[j]
  <2>1. \A i \in 1..Len(first) : i \in 1..Cardinality(E)
    BY <1>7, <1>10
  <2> QED
    BY <1>7, <1>9, <2>1
<1>12. Selection(picked')
  <2>1. Plains(first) \in Seq(Chunk) /\ Len(Plains(first)) = Len(first) /\ Apart(Plains(first))
    BY <1>9, <1>11, PlainsAre
  <2>2. Plains(first) # <<>>
    BY <1>10, <2>1, ChunksAre
  <2> QED
    BY <1>3, <1>10, <2>1, <2>2 DEF Selection
<1> QED
  BY <1>1, <1>12, PackLeads DEF PackSteps

LEMMA AmbiguityStep ==
  ASSUME PackInd, ResolveAmbiguity
  PROVE  PackInd'
<1>1. /\ PackStateOK /\ marks \in [Ranked -> SUBSET {"extract", "compact"}] /\ reused = {}
      /\ kstep = "tasks" /\ kstep' = "intel" /\ Selection(picked)
      /\ UNCHANGED <<profile, size, stable, marks, reused>>
  BY PackIs DEF ResolveAmbiguity
<1>2. Selection(picked')
  <2>1. CASE UNCHANGED picked
    BY <1>1, <2>1
  <2>2. ASSUME NEW keep \in (SUBSET Ranks(picked)) \ {{}},
               picked' = Among(picked, {i \in DOMAIN picked : picked[i].rank \in keep})
        PROVE  Selection(picked')
    <3> DEFINE I == {i \in DOMAIN picked : picked[i].rank \in keep}
               t == Among(picked, I)
    <3>1. picked \in Seq(Chunk) /\ Len(picked) <= Limit /\ Apart(picked)
      BY <1>1 DEF Selection
    <3>2. /\ t \in Seq(Chunk) /\ Apart(t) /\ Len(t) = Cardinality(I) /\ Cardinality(I) <= Len(picked)
          /\ Ranks(t) = {picked[i].rank : i \in I}
      BY <3>1, AmongIs
    <3>3. Ranks(t) # {}
      <4>1. I # {}
        BY DEF Ranks
      <4> QED
        BY <3>2, <4>1
    <3> HIDE DEF t, I
    <3>4. t # <<>> /\ Len(t) \in Nat /\ Len(picked) \in Nat
      <4>1. Len(t) \in Nat /\ Len(picked) \in Nat /\ (t # <<>> <=> Len(t) # 0)
            /\ Ranks(t) = {t[i].rank : i \in 1..Len(t)}
        BY <3>1, <3>2, ChunksAre
      <4> QED
        BY <3>3, <4>1
    <3>5. Limit \in Nat
      BY <1>1, RankedIs
    <3>6. Len(t) <= Limit
      BY <3>1, <3>2, <3>4, <3>5
    <3> QED
      BY <2>2, <3>2, <3>4, <3>6 DEF Selection, t, I
  <2> QED
    BY <2>1, <2>2 DEF ResolveAmbiguity
<1> QED
  BY <1>1, <1>2, PackLeads DEF PackSteps

LEMMA IntelStep ==
  ASSUME PackInd, ApplyIntel
  PROVE  PackInd'
<1>1. /\ PackStateOK /\ marks \in [Ranked -> SUBSET {"extract", "compact"}] /\ reused = {}
      /\ kstep = "intel" /\ kstep' = "evidence" /\ Selection(picked)
      /\ UNCHANGED <<profile, size, stable, reused>>
  BY PackIs DEF ApplyIntel
<1>2. PICK compacted \in IF profile = "tiny" THEN SUBSET Ranks(picked) ELSE {{}} :
       LET did(r) == (marks[r] \cap {"extract"}) \cup
                     IF r \in compacted THEN {"compact"} ELSE {} IN
       /\ picked' = [i \in DOMAIN picked |->
                       [picked[i] EXCEPT !.done = did(picked[i].rank)]]
       /\ marks' = [r \in Ranked |-> IF r \in compacted THEN marks[r] \cup {"compact"}
                                     ELSE marks[r]]
  BY DEF ApplyIntel
<1>3. marks' \in [Ranked -> SUBSET {"extract", "compact"}]
  BY <1>1, <1>2
<1> DEFINE did(r) == (marks[r] \cap {"extract"}) \cup IF r \in compacted THEN {"compact"} ELSE {}
           t == [i \in DOMAIN picked |-> [picked[i] EXCEPT !.done = did(picked[i].rank)]]
<1>4. picked' = t
  BY <1>2
<1>5. picked \in Seq(Chunk) /\ Len(picked) <= Limit /\ Apart(picked) /\ picked # <<>>
  BY <1>1 DEF Selection
<1>6. /\ Len(picked) \in Nat /\ DOMAIN picked = 1..Len(picked) /\ Len(picked) # 0
      /\ \A i \in 1..Len(picked) : picked[i] \in Chunk
  BY <1>5, ChunksAre
<1>7. \A r : did(r) \in SUBSET {"extract", "compact"}
  OBVIOUS
<1> HIDE DEF did
<1>8. \A i \in 1..Len(picked) : t[i] \in Chunk /\ t[i].rank = picked[i].rank
  BY <1>6, <1>7 DEF Chunk
<1>9. t \in [1..Len(picked) -> Chunk]
  BY <1>6, <1>8
<1>10. t \in Seq(Chunk) /\ Len(t) = Len(picked)
  <2> HIDE DEF t
  <2>1. t \in Seq(Chunk)
    BY <1>6, <1>9, IsASequence
  <2> QED
    BY <1>6, <1>9, <2>1, LenProperties
<1> HIDE DEF t
<1>11. Apart(t)
  BY <1>5, <1>6, <1>8, <1>9 DEF Apart
<1>12. t # <<>>
  BY <1>6, <1>10, ChunksAre
<1>13. Selection(picked')
  BY <1>4, <1>5, <1>10, <1>11, <1>12 DEF Selection
<1> QED
  BY <1>1, <1>3, <1>13, PackLeads DEF PackSteps

\* A set of places of a selection has a last one.
LEMMA LastPlace ==
  ASSUME NEW s \in Seq(Chunk), NEW I \in SUBSET DOMAIN s, I # {}
  PROVE  Largest(I) \in DOMAIN s
<1>1. Len(s) \in Nat /\ DOMAIN s = 1..Len(s)
  BY ChunksAre
<1>2. IsFiniteSet(1..Len(s))
  <2>1. 1 \in Int /\ Len(s) \in Int
    BY <1>1
  <2> QED
    BY <2>1, FS_Interval
<1>3. I \in SUBSET Nat /\ IsFiniteSet(I)
  <2>1. I \in SUBSET (1..Len(s))
    BY <1>1
  <2>2. I \in SUBSET Nat
    BY <1>1, <2>1
  <2> QED
    BY <1>2, <2>1, <2>2, FS_Subset
<1> QED
  BY <1>3, LargestIs

\* An exchange for the best segment of some that are outside.
LEMMA ExchangeLeast ==
  ASSUME PackStateOK, NEW s, Selection(s), NEW k \in DOMAIN s, NEW S \in SUBSET Ranked, Outside(s, S) # {}
  PROVE  /\ Selection([s EXCEPT ![k] = Plain(Least(Outside(s, S)))])
         /\ Least(Outside(s, S)) \in S
         /\ Least(Outside(s, S)) \in Ranks([s EXCEPT ![k] = Plain(Least(Outside(s, S)))])
<1> DEFINE O == Outside(s, S)
<1>1. O \in SUBSET Nat /\ O \in SUBSET Ranked /\ O \in SUBSET S /\ O \cap Ranks(s) = {}
  BY RankedIs DEF Outside
<1>2. Least(O) \in O
  BY <1>1, LeastIs
<1>3. Least(O) \in Ranked \ Ranks(s) /\ Least(O) \in S
  BY <1>1, <1>2
<1> HIDE DEF O
<1>4. PICK r \in Ranked \ Ranks(s) : r = Least(O) /\ r \in S
  BY <1>3
<1>5. Selection([s EXCEPT ![k] = Plain(r)]) /\ r \in Ranks([s EXCEPT ![k] = Plain(r)])
  BY Exchange
<1> QED
  BY <1>4, <1>5 DEF O

LEMMA AnchoredIs ==
  ASSUME PackStateOK, NEW s, Selection(s), NEW S \in SUBSET Ranked
  PROVE  Selection(Anchored(s, S))
<1>1. Len(s) \in DOMAIN s
  <2>1. s \in Seq(Chunk) /\ s # <<>>
    BY DEF Selection
  <2>2. Len(s) \in Nat /\ DOMAIN s = 1..Len(s) /\ Len(s) # 0
    BY <2>1, ChunksAre
  <2> QED
    BY <2>2
<1>2. CASE Ranks(s) \cap S # {} \/ Outside(s, S) = {}
  BY <1>2 DEF Anchored
<1>3. CASE ~(Ranks(s) \cap S # {} \/ Outside(s, S) = {})
  <2>1. Selection([s EXCEPT ![Len(s)] = Plain(Least(Outside(s, S)))])
    BY <1>1, <1>3, ExchangeLeast
  <2> QED
    BY <1>3, <2>1 DEF Anchored
<1> QED
  BY <1>2, <1>3

\* The evidence policies only exchange chunks.
LEMMA WithEvidenceIs ==
  ASSUME PackStateOK, NEW s, Selection(s), NEW embedded \in SUBSET Ranked,
         NEW headed \in SUBSET Ranked, NEW weak \in SUBSET Ranked, NEW strong \in SUBSET Ranked
  PROVE  Selection(WithEvidence(s, embedded, headed, weak, strong))
<1> DEFINE a == Anchored(s, embedded)
           last == {i \in DOMAIN a : a[i].rank \notin headed}
           b == IF Ranks(a) \cap headed # {} \/ Outside(a, headed) = {} THEN a
                ELSE [a EXCEPT ![Largest(last)] = Plain(Least(Outside(a, headed)))]
           poor == {i \in DOMAIN b : b[i].rank \in weak}
           c == IF profile = "deep" \/ poor = {} \/ Outside(b, strong) = {} THEN b
                ELSE [b EXCEPT ![Largest(poor)] = Plain(Least(Outside(b, strong)))]
<1>1. Selection(a)
  BY AnchoredIs
<1>2. WithEvidence(s, embedded, headed, weak, strong) = c
  BY DEF WithEvidence
<1> HIDE DEF a
<1>3. Selection(b)
  <2>1. CASE Ranks(a) \cap headed # {} \/ Outside(a, headed) = {}
    BY <1>1, <2>1
  <2>2. CASE ~(Ranks(a) \cap headed # {} \/ Outside(a, headed) = {})
    <3>1. a \in Seq(Chunk) /\ a # <<>>
      BY <1>1 DEF Selection
    <3>2. Len(a) \in Nat /\ DOMAIN a = 1..Len(a) /\ Len(a) # 0
      BY <3>1, ChunksAre
    <3>3. last # {} /\ last \in SUBSET DOMAIN a
      BY <2>2, <3>2 DEF Ranks
    <3>4. Largest(last) \in DOMAIN a
      BY <3>1, <3>3, LastPlace
    <3> HIDE DEF last
    <3>5. Selection([a EXCEPT ![Largest(last)] = Plain(Least(Outside(a, headed)))])
      BY <1>1, <2>2, <3>4, ExchangeLeast
    <3> QED
      BY <2>2, <3>5
  <2> QED
    BY <2>1, <2>2
<1> HIDE DEF b
<1>4. Selection(c)
  <2>1. CASE profile = "deep" \/ poor = {} \/ Outside(b, strong) = {}
    BY <1>3, <2>1
  <2>2. CASE ~(profile = "deep" \/ poor = {} \/ Outside(b, strong) = {})
    <3>1. b \in Seq(Chunk) /\ poor \in SUBSET DOMAIN b /\ poor # {}
      BY <1>3, <2>2 DEF Selection
    <3>2. Largest(poor) \in DOMAIN b
      BY <3>1, LastPlace
    <3> HIDE DEF poor
    <3>3. Selection([b EXCEPT ![Largest(poor)] = Plain(Least(Outside(b, strong)))])
      BY <1>3, <2>2, <3>2, ExchangeLeast
    <3> QED
      BY <2>2, <3>3
  <2> QED
    BY <2>1, <2>2
<1> QED
  BY <1>2, <1>4

LEMMA EvidenceStep ==
  ASSUME PackInd, ApplyEvidence
  PROVE  PackInd'
<1>1. /\ PackStateOK /\ marks \in [Ranked -> SUBSET {"extract", "compact"}] /\ reused = {}
      /\ kstep = "evidence" /\ kstep' = "distinct" /\ Selection(picked)
      /\ UNCHANGED <<profile, size, stable, marks, reused>>
  BY PackIs DEF ApplyEvidence
<1>2. PICK embedded, headed, weak \in SUBSET Ranked :
        picked' = WithEvidence(picked, embedded, headed, weak, Ranked \ weak)
  BY DEF ApplyEvidence
<1>3. Ranked \ weak \in SUBSET Ranked
  OBVIOUS
<1>4. Selection(picked')
  BY <1>1, <1>2, <1>3, WithEvidenceIs
<1> QED
  BY <1>1, <1>4, PackLeads DEF PackSteps

\* Of two groups one chunk each, and they are not the same.
LEMMA DistinctIs ==
  ASSUME PackStateOK, NEW s, Selection(s), NEW alike \in [Ranks(s) -> Ranks(s)]
  PROVE  Selection(Distinct(s, alike))
<1> DEFINE group(i) == {j \in DOMAIN s : alike[s[j].rank] = alike[s[i].rank]}
           novel(i) == {j \in group(i) : s[j].rank \notin stable}
           kept(i) == IF s[i].rank \in stable /\ novel(i) # {} THEN Least(novel(i)) ELSE i
           firsts == {i \in DOMAIN s : i = Least(group(i))}
           n == Cardinality(firsts)
           places == Ascending(firsts)
           all == [i \in DOMAIN s |-> s[kept(i)]]
           t == [k \in DOMAIN places |-> all[places[k]]]
<1>0. Distinct(s, alike) = t
  BY DEF Distinct, Among
<1>1. s \in Seq(Chunk) /\ s # <<>> /\ Len(s) <= Limit /\ Apart(s)
  BY DEF Selection
<1>2. /\ Len(s) \in Nat /\ DOMAIN s = 1..Len(s) /\ Len(s) # 0
      /\ \A i \in DOMAIN s : s[i] \in Chunk
  BY <1>1, ChunksAre
<1>3. \A i \in DOMAIN s : group(i) \in SUBSET Nat /\ i \in group(i)
  BY <1>2
<1>4. \A i \in DOMAIN s : kept(i) \in group(i)
  <2> TAKE i \in DOMAIN s
  <2>1. novel(i) \in SUBSET Nat /\ novel(i) \in SUBSET group(i)
    BY <1>3
  <2>2. novel(i) # {} => Least(novel(i)) \in group(i)
    BY <2>1, LeastIs
  <2> QED
    BY <1>3, <2>2
<1>5. \A i, j \in DOMAIN s : j \in group(i) => group(j) = group(i)
  OBVIOUS
<1> HIDE DEF kept
<1>6. \A i, j \in firsts : i # j => s[kept(i)].rank # s[kept(j)].rank
  <2> SUFFICES ASSUME NEW i \in firsts, NEW j \in firsts, s[kept(i)].rank = s[kept(j)].rank
               PROVE  i = j
    OBVIOUS
  <2>1. i \in DOMAIN s /\ j \in DOMAIN s /\ i = Least(group(i)) /\ j = Least(group(j))
    OBVIOUS
  <2>2. kept(i) \in group(i) /\ kept(j) \in group(j) /\ kept(i) \in DOMAIN s /\ kept(j) \in DOMAIN s
    BY <1>4, <2>1
  <2>3. kept(i) = kept(j)
    BY <1>1, <2>2 DEF Apart
  <2>4. group(i) = group(j)
    BY <1>5, <2>1, <2>2, <2>3
  <2> QED
    BY <2>1, <2>4
<1>7. firsts # {} /\ firsts \in SUBSET DOMAIN s
  <2>1. 1 \in DOMAIN s
    BY <1>2
  <2>2. PICK i \in DOMAIN s : i = Least(group(1)) /\ i \in group(1)
    <3>1. group(1) \in SUBSET Nat /\ group(1) # {} /\ group(1) \in SUBSET DOMAIN s
      BY <1>3, <2>1
    <3>2. Least(group(1)) \in group(1)
      BY <3>1, LeastIs
    <3> QED
      BY <3>1, <3>2
  <2>3. group(i) = group(1)
    BY <1>5, <2>1, <2>2
  <2> QED
    BY <2>2, <2>3
<1> HIDE DEF group, firsts
<1>8. IsFiniteSet(firsts) /\ n <= Len(s) /\ firsts \in SUBSET Nat /\ n # 0
  <2>1. firsts \in SUBSET (1..Len(s))
    BY <1>2, <1>7
  <2>2. firsts \in SUBSET Nat
    BY <1>2, <2>1
  <2>3. 1 \in Int /\ Len(s) \in Int /\ (1 > Len(s) <=> Len(s) = 0) /\ Len(s) - 1 + 1 = Len(s)
    BY <1>2
  <2>4. IsFiniteSet(1..Len(s)) /\ Cardinality(1..Len(s)) = Len(s)
    BY <1>2, <2>3, FS_Interval
  <2>5. IsFiniteSet(firsts) /\ n <= Len(s)
    BY <2>1, <2>4, FS_Subset
  <2> QED
    BY <1>7, <2>2, <2>5, FS_EmptySet
<1>9. /\ n \in Nat /\ places \in [1..n -> firsts]
      /\ \A i, j \in 1..n : i # j => places[i] # places[j]
  BY <1>8, AscendingIs
<1> HIDE DEF n, places
<1>10. /\ \A k \in 1..n : t[k] = s[kept(places[k])] /\ kept(places[k]) \in DOMAIN s
       /\ DOMAIN t = 1..n
  <2>1. \A k \in 1..n : places[k] \in DOMAIN s
    BY <1>7, <1>9
  <2>2. \A i \in DOMAIN s : kept(i) \in DOMAIN s
    BY <1>4 DEF group
  <2> QED
    BY <1>9, <2>1, <2>2
<1>11. t \in [1..n -> Chunk]
  <2>1. \A k \in 1..n : t[k] \in Chunk
    BY <1>2, <1>10
  <2>2. t = [k \in 1..n |-> t[k]]
    BY <1>9
  <2> HIDE DEF t
  <2> QED
    BY <2>1, <2>2
<1>12. Apart(t)
  <2>1. ASSUME NEW i \in 1..n, NEW j \in 1..n, i # j PROVE t[i].rank # t[j].rank
    <3>1. places[i] # places[j] /\ places[i] \in firsts /\ places[j] \in firsts
      BY <1>9, <2>1
    <3> HIDE DEF t
    <3> QED
      BY <1>6, <1>10, <3>1
  <2> HIDE DEF t
  <2> QED
    BY <1>10, <2>1 DEF Apart
<1> HIDE DEF t
<1>13. t \in Seq(Chunk) /\ Len(t) = n
  <2>1. t \in Seq(Chunk)
    BY <1>9, <1>11, IsASequence
  <2> QED
    BY <1>9, <1>11, <2>1, LenProperties
<1>14. t # <<>>
  BY <1>8, <1>13, ChunksAre
<1>15. Len(t) <= Limit
  <2>1. Limit \in Nat
    BY RankedIs
  <2> QED
    BY <1>1, <1>2, <1>8, <1>9, <1>13, <2>1
<1> QED
  BY <1>0, <1>12, <1>13, <1>14, <1>15 DEF Selection

LEMMA DeduplicateStep ==
  ASSUME PackInd, Deduplicate
  PROVE  PackInd'
<1>1. /\ PackStateOK /\ marks \in [Ranked -> SUBSET {"extract", "compact"}] /\ reused = {}
      /\ kstep = "distinct" /\ kstep' = "gate" /\ Selection(picked)
      /\ UNCHANGED <<profile, size, stable, marks, reused>>
  BY PackIs DEF Deduplicate
<1>2. Selection(picked')
  <2>1. CASE profile = "tiny"
    <3>1. PICK alike \in [Ranks(picked) -> Ranks(picked)] : picked' = Distinct(picked, alike)
      BY <2>1 DEF Deduplicate
    <3> QED
      BY <1>1, <3>1, DistinctIs
  <2>2. CASE profile # "tiny"
    BY <1>1, <2>2 DEF Deduplicate
  <2> QED
    BY <2>1, <2>2
<1> QED
  BY <1>1, <1>2, PackLeads DEF PackSteps

LEMMA GateStep ==
  ASSUME PackInd, StableGate
  PROVE  PackInd'
<1>1. /\ PackStateOK /\ marks \in [Ranked -> SUBSET {"extract", "compact"}] /\ reused = {}
      /\ kstep = "gate" /\ kstep' = "reuse" /\ Selection(picked) /\ picked' = Gate(picked)
      /\ UNCHANGED <<profile, size, stable, marks, reused>>
  BY PackIs DEF StableGate
<1>2. Held \in SUBSET Ranked /\ Held \in SUBSET stable
  BY <1>1, RankedIs
<1>3. CASE Held = {} \/ Ranks(picked) \cap stable # {}
  BY <1>1, <1>3, PackLeads DEF Gate, PackSteps, Stays
<1>4. CASE ~(Held = {} \/ Ranks(picked) \cap stable # {})
  <2>1. Len(picked) \in DOMAIN picked
    <3>1. picked \in Seq(Chunk) /\ picked # <<>>
      BY <1>1 DEF Selection
    <3>2. Len(picked) \in Nat /\ DOMAIN picked = 1..Len(picked) /\ Len(picked) # 0
      BY <3>1, ChunksAre
    <3> QED
      BY <3>2
  <2>2. Outside(picked, Held) = Held
    BY <1>2, <1>4 DEF Outside
  <2> DEFINE t == [picked EXCEPT ![Len(picked)] = Plain(Least(Held))]
  <2>3. Selection(t) /\ Least(Held) \in Held /\ Least(Held) \in Ranks(t)
    BY <1>1, <1>2, <1>4, <2>1, <2>2, ExchangeLeast
  <2>4. picked' = t
    BY <1>1, <1>4 DEF Gate
  <2> HIDE DEF t
  <2>5. Selection(picked') /\ Stays(picked')
    BY <1>2, <2>3, <2>4 DEF Stays
  <2> QED
    BY <1>1, <2>5, PackLeads DEF PackSteps
<1> QED
  BY <1>3, <1>4

\* What is reused is at most half of the answer, or one chunk of it.
LEMMA BudgetIs ==
  ASSUME PackStateOK, NEW s, Selection(s), Held # {}
  PROVE  /\ ReuseBudget(s) \in Nat \ {0} /\ ReuseBudget(s) <= Len(s)
         /\ ReuseBudget(s) <= 1 \/ 2 * ReuseBudget(s) <= Len(s)
         /\ Cardinality(Held) \in Nat /\ ReuseBudget(s) <= Cardinality(Held)
<1>1. Len(s) \in Nat \ {0}
  <2>1. s \in Seq(Chunk) /\ s # <<>>
    BY DEF Selection
  <2> QED
    BY <2>1, ChunksAre
<1>2. Cardinality(Held) \in Nat \ {0}
  <2>1. IsFiniteSet(Ranked) /\ Held \in SUBSET Ranked
    BY RankedIs
  <2>2. IsFiniteSet(Held)
    BY <2>1, FS_Subset
  <2>3. Cardinality(Held) \in Nat
    BY <2>2, FS_CardinalityType
  <2> QED
    BY <2>2, <2>3, FS_EmptySet
<1> DEFINE n == Len(s)  h == n \div 2
<1>3. h \in Nat /\ 2 * h <= n
  BY <1>1
<1> DEFINE half == IF h = 0 THEN 1 ELSE h
<1>4. half \in Nat \ {0} /\ half <= n /\ (half <= 1 \/ 2 * half <= n)
  <2> HIDE DEF h
  <2> QED
    BY <1>1, <1>3
<1>5. ReuseBudget(s) = IF half > Cardinality(Held) THEN Cardinality(Held) ELSE half
  BY DEF ReuseBudget
<1> HIDE DEF half
<1>6. CASE half > Cardinality(Held)
  BY <1>1, <1>2, <1>4, <1>5, <1>6
<1>7. CASE ~(half > Cardinality(Held))
  BY <1>1, <1>2, <1>4, <1>5, <1>7
<1> QED
  BY <1>6, <1>7

\* Lists that have no segment in common, one after the other.
LEMMA JoinedApart ==
  ASSUME NEW s \in Seq(Chunk), NEW t \in Seq(Chunk), Apart(s), Apart(t), Ranks(s) \cap Ranks(t) = {}
  PROVE  /\ s \o t \in Seq(Chunk) /\ Len(s \o t) = Len(s) + Len(t) /\ Apart(s \o t)
         /\ Ranks(s \o t) = Ranks(s) \cup Ranks(t)
         /\ \A i \in 1..Len(s) : (s \o t)[i] = s[i]
<1> DEFINE u == s \o t
<1>1. /\ Len(s) \in Nat /\ DOMAIN s = 1..Len(s) /\ Ranks(s) = {s[i].rank : i \in 1..Len(s)}
      /\ Len(t) \in Nat /\ DOMAIN t = 1..Len(t) /\ Ranks(t) = {t[i].rank : i \in 1..Len(t)}
  BY ChunksAre
<1>2. /\ u \in Seq(Chunk) /\ Len(u) = Len(s) + Len(t)
      /\ \A i \in 1..(Len(s) + Len(t)) : u[i] = IF i <= Len(s) THEN s[i] ELSE t[i - Len(s)]
  BY ConcatProperties
<1> HIDE DEF u
<1>3. DOMAIN u = 1..(Len(s) + Len(t)) /\ Ranks(u) = {u[i].rank : i \in 1..(Len(s) + Len(t))}
  BY <1>2, ChunksAre
<1>4. \A i \in 1..(Len(s) + Len(t)) :
         \/ i \in 1..Len(s) /\ u[i] = s[i]
         \/ i - Len(s) \in 1..Len(t) /\ u[i] = t[i - Len(s)]
  BY <1>1, <1>2
<1>5. Apart(u)
  <2>1. ASSUME NEW i \in 1..(Len(s) + Len(t)), NEW j \in 1..(Len(s) + Len(t)), i # j,
               u[i].rank = u[j].rank
        PROVE  FALSE
    <3>1. CASE i \in 1..Len(s) /\ u[i] = s[i]
      <4>1. u[i].rank \in Ranks(s)
        BY <1>1, <3>1
      <4>2. j \in 1..Len(s) /\ u[j] = s[j]
        BY <1>1, <1>4, <2>1, <4>1
      <4> QED
        BY <1>1, <2>1, <3>1, <4>2 DEF Apart
    <3>2. CASE i - Len(s) \in 1..Len(t) /\ u[i] = t[i - Len(s)]
      <4>1. u[i].rank \in Ranks(t)
        BY <1>1, <3>2
      <4>2. j - Len(s) \in 1..Len(t) /\ u[j] = t[j - Len(s)]
        BY <1>1, <1>4, <2>1, <4>1
      <4>3. i - Len(s) # j - Len(s)
        BY <1>1, <2>1
      <4> QED
        BY <1>1, <2>1, <3>2, <4>2, <4>3 DEF Apart
    <3> QED
      BY <1>4, <3>1, <3>2
  <2> QED
    BY <1>3, <2>1 DEF Apart
<1>6. Ranks(u) = Ranks(s) \cup Ranks(t)
  <2>1. ASSUME NEW r \in Ranks(u) PROVE r \in Ranks(s) \cup Ranks(t)
    BY <1>1, <1>3, <1>4
  <2>2. ASSUME NEW i \in 1..Len(s) PROVE s[i].rank \in Ranks(u)
    <3>1. i \in 1..(Len(s) + Len(t)) /\ i <= Len(s)
      BY <1>1
    <3> QED
      BY <1>2, <1>3, <3>1
  <2>3. ASSUME NEW i \in 1..Len(t) PROVE t[i].rank \in Ranks(u)
    <3>1. /\ Len(s) + i \in 1..(Len(s) + Len(t)) /\ ~(Len(s) + i <= Len(s))
          /\ (Len(s) + i) - Len(s) = i
      BY <1>1
    <3> QED
      BY <1>2, <1>3, <3>1
  <2> QED
    BY <1>1, <2>1, <2>2, <2>3
<1>7. \A i \in 1..Len(s) : u[i] = s[i]
  BY <1>1, <1>2
<1> QED
  BY <1>2, <1>5, <1>6, <1>7 DEF u

\* The first chunks of a list are as far apart as all.
LEMMA UptoApart ==
  ASSUME NEW s \in Seq(Chunk), Apart(s), NEW k \in Nat, k <= Len(s)
  PROVE  /\ Upto(s, k) \in Seq(Chunk) /\ Len(Upto(s, k)) = k /\ Apart(Upto(s, k))
         /\ \A i \in 1..k : Upto(s, k)[i] = s[i]
<1> DEFINE t == Upto(s, k)
<1>1. Len(s) \in Nat /\ DOMAIN s = 1..Len(s) /\ \A i \in 1..k : i \in DOMAIN s
  BY ChunksAre
<1>2. /\ t \in Seq(Chunk) /\ Len(t) = IF Len(s) < k THEN Len(s) ELSE k
      /\ \A i \in 1..Len(t) : t[i] = s[i]
  BY UptoIs
<1> HIDE DEF t
<1>3. Len(t) = k
  <2>1. ~(Len(s) < k)
    BY <1>1
  <2> QED
    BY <1>2, <2>1
<1>4. DOMAIN t = 1..k
  BY <1>2, <1>3, ChunksAre
<1>5. Apart(t)
  BY <1>1, <1>2, <1>3, <1>4 DEF Apart
<1> QED
  BY <1>2, <1>3, <1>5 DEF t

\* As many chunks of a selection are not reused as it has places left.
LEMMA PlacesLeft ==
  ASSUME NEW s \in Seq(Chunk), Apart(s), NEW F, IsFiniteSet(F)
  PROVE  Len(s) <= Cardinality(F) + Cardinality({i \in DOMAIN s : s[i].rank \notin F})
<1> DEFINE D == 1..Len(s)  I == {i \in DOMAIN s : s[i].rank \notin F}  J == D \ I
           f == [i \in J |-> s[i].rank]
<1>1. Len(s) \in Nat /\ DOMAIN s = D
  BY ChunksAre
<1>2. IsFiniteSet(D) /\ Cardinality(D) = Len(s)
  <2>1. 1 \in Int /\ Len(s) \in Int /\ (1 > Len(s) <=> Len(s) = 0) /\ Len(s) - 1 + 1 = Len(s)
    BY <1>1
  <2> QED
    BY <1>1, <2>1, FS_Interval
<1>3. I \in SUBSET D /\ D \cap I = I /\ \A i \in J : s[i].rank \in F
  BY <1>1
<1>4. f \in Injection(J, F)
  <2>1. f \in [J -> F]
    BY <1>3
  <2>2. \A i, j \in J : f[i] = f[j] => i = j
    BY <1>1 DEF Apart
  <2> HIDE DEF f, J
  <2> QED
    BY <2>1, <2>2 DEF Injection, IsInjective
<1> HIDE DEF D, I, f
<1>5. IsFiniteSet(J) /\ Cardinality(J) <= Cardinality(F)
  <2> HIDE DEF J
  <2> QED
    BY <1>4, FS_Injection
<1>6. Cardinality(J) = Cardinality(D) - Cardinality(I)
  <2>1. Cardinality(D \ I) = Cardinality(D) - Cardinality(D \cap I)
    BY <1>2, FS_Difference
  <2> QED
    BY <1>3, <2>1
<1>7. Cardinality(I) \in Nat /\ Cardinality(F) \in Nat
  <2>1. IsFiniteSet(I)
    BY <1>2, <1>3, FS_Subset
  <2> QED
    BY <2>1, FS_CardinalityType
<1>8. Len(s) <= Cardinality(F) + Cardinality(I)
  <2> HIDE DEF J
  <2> QED
    BY <1>1, <1>2, <1>5, <1>6, <1>7
<1> QED
  BY <1>8 DEF I

\* The answer that partial reuse puts together is as long as it was, and
\* begins with what is reused: the selection alone fills the rest.
LEMMA RefilledIs ==
  ASSUME PackStateOK, NEW s, Selection(s), NEW first \in Seq(Ranked),
         \A i, j \in 1..Len(first) : i # j => first[i] # first[j], Len(first) <= Len(s)
  PROVE  /\ Selection(Refilled(s, first)) /\ Len(Refilled(s, first)) = Len(s)
         /\ ToSet(first) \subseteq Ranks(Refilled(s, first))
         /\ Cardinality(ToSet(first)) = Len(first)
<1> DEFINE F == ToSet(first)
           I == {i \in DOMAIN s : s[i].rank \notin F}
           X == Ranked \ (F \cup Ranks(s))
           A == Plains(first)
           B == Among(s, I)
           more == Ascending(X)
           C == Plains(more)
           AB == A \o B
           ABC == AB \o C
           t == Upto(ABC, Len(s))
<1>0. Refilled(s, first) = t
  BY DEF Refilled, Plains
<1>1. s \in Seq(Chunk) /\ s # <<>> /\ Len(s) <= Limit /\ Apart(s)
  BY DEF Selection
<1>2. Len(s) \in Nat /\ DOMAIN s = 1..Len(s) /\ Len(s) # 0
  BY <1>1, ChunksAre
<1>3. IsFiniteSet(F) /\ Cardinality(F) = Len(first) /\ Len(first) \in Nat
  <2>1. IsInjective(first)
    <3>1. DOMAIN first = 1..Len(first)
      BY LenProperties
    <3> QED
      BY <3>1 DEF IsInjective
  <2> QED
    BY <2>1, InjectiveCount, LenProperties
<1>4. A \in Seq(Chunk) /\ Len(A) = Len(first) /\ Apart(A) /\ Ranks(A) = F
  BY PlainsAre
<1>5. B \in Seq(Chunk) /\ Apart(B) /\ Len(B) = Cardinality(I) /\ Ranks(B) = {s[i].rank : i \in I}
  <2>1. I \in SUBSET DOMAIN s
    OBVIOUS
  <2> HIDE DEF I
  <2> QED
    BY <1>1, <2>1, AmongIs
<1>6. Ranks(B) = Ranks(s) \ F
  BY <1>5 DEF Ranks
<1>7. X \in SUBSET Ranked /\ X \in SUBSET Nat /\ IsFiniteSet(X)
  <2>1. Ranked \in SUBSET Nat /\ IsFiniteSet(Ranked)
    BY RankedIs
  <2>2. X \in SUBSET Ranked
    OBVIOUS
  <2> HIDE DEF X
  <2>3. IsFiniteSet(X)
    BY <2>1, <2>2, FS_Subset
  <2> QED
    BY <2>1, <2>2, <2>3
<1>8. more \in Seq(Ranked) /\ (\A i, j \in 1..Len(more) : i # j => more[i] # more[j]) /\ ToSet(more) \subseteq X
  <2> HIDE DEF X
  <2>1. /\ more \in Seq(X) /\ Len(more) = Cardinality(X)
        /\ \A i, j \in 1..Cardinality(X) : i # j => more[i] # more[j]
    BY <1>7, AscendingIs
  <2> HIDE DEF more
  <2>2. more \in Seq(Ranked)
    BY <1>7, <2>1, Wider
  <2>3. ToSet(more) \subseteq X
    <3>1. DOMAIN more = 1..Len(more) /\ more \in [1..Len(more) -> X]
      BY <2>1, LenProperties
    <3> QED
      BY <3>1 DEF ToSet
  <2> QED
    BY <2>1, <2>2, <2>3
<1>9. C \in Seq(Chunk) /\ Apart(C) /\ Ranks(C) = ToSet(more)
  <2> HIDE DEF more
  <2> QED
    BY <1>8, PlainsAre
<1>10. Ranks(A) \cap Ranks(B) = {} /\ (Ranks(A) \cup Ranks(B)) \cap Ranks(C) = {}
  <2>1. ToSet(more) \subseteq X
    BY <1>8
  <2> HIDE DEF A, B, C, F, more
  <2> QED
    BY <1>4, <1>6, <1>9, <2>1
<1> HIDE DEF A, B, C, F, more, I, X
<1>11. /\ AB \in Seq(Chunk) /\ Len(AB) = Len(A) + Len(B) /\ Apart(AB)
       /\ Ranks(AB) = Ranks(A) \cup Ranks(B) /\ \A i \in 1..Len(A) : AB[i] = A[i]
  BY <1>4, <1>5, <1>10, JoinedApart
<1> HIDE DEF AB
<1>12. /\ ABC \in Seq(Chunk) /\ Len(ABC) = Len(AB) + Len(C) /\ Apart(ABC)
       /\ \A i \in 1..Len(AB) : ABC[i] = AB[i]
  <2>1. Ranks(AB) \cap Ranks(C) = {}
    BY <1>10, <1>11
  <2> QED
    BY <1>9, <1>11, <2>1, JoinedApart
<1> HIDE DEF ABC
<1>13. Len(A) \in Nat /\ Len(B) \in Nat /\ Len(C) \in Nat
  BY <1>4, <1>5, <1>9, ChunksAre
<1>14. Len(s) <= Len(A) + Len(B)
  <2>1. Len(s) <= Cardinality(F) + Cardinality(I)
    BY <1>1, <1>3, PlacesLeft DEF I
  <2> QED
    BY <1>3, <1>4, <1>5, <2>1
<1>15. Len(s) <= Len(ABC)
  BY <1>2, <1>11, <1>12, <1>13, <1>14
<1>16. /\ t \in Seq(Chunk) /\ Len(t) = Len(s) /\ Apart(t)
       /\ \A i \in 1..Len(s) : t[i] = ABC[i]
  BY <1>2, <1>12, <1>15, UptoApart
<1> HIDE DEF t
<1>17. Selection(t)
  <2>1. t # <<>>
    BY <1>2, <1>16, ChunksAre
  <2> QED
    BY <1>1, <1>16, <2>1 DEF Selection
<1>18. F \subseteq Ranks(t)
  <2>1. ASSUME NEW i \in 1..Len(A) PROVE A[i].rank \in Ranks(t)
    <3>1. i \in 1..Len(AB) /\ i \in 1..Len(s)
      BY <1>2, <1>3, <1>4, <1>11, <1>13
    <3>2. t[i] = A[i]
      BY <1>11, <1>12, <1>16, <3>1
    <3>3. i \in DOMAIN t
      BY <1>16, <3>1, ChunksAre
    <3> QED
      BY <3>2, <3>3 DEF Ranks
  <2>2. Ranks(A) = {A[i].rank : i \in 1..Len(A)}
    BY <1>4, ChunksAre
  <2> QED
    BY <1>4, <2>1, <2>2
<1> QED
  BY <1>0, <1>3, <1>16, <1>17, <1>18 DEF F

LEMMA ReuseStep ==
  ASSUME PackInd, PartialReuse
  PROVE  PackInd'
<1>1. /\ PackStateOK /\ marks \in [Ranked -> SUBSET {"extract", "compact"}] /\ reused = {}
      /\ kstep = "reuse" /\ kstep' = "sort" /\ Selection(picked) /\ Stays(picked)
      /\ UNCHANGED <<profile, size, stable, marks>>
  BY PackIs DEF PartialReuse
<1>2. IsFiniteSet({}) /\ Cardinality({}) = 0
  BY FS_EmptySet
<1>3. CASE UNCHANGED <<picked, reused>>
  <2>1. Few(picked', reused')
    BY <1>1, <1>2, <1>3 DEF Few
  <2> QED
    BY <1>1, <1>3, <2>1, PackLeads DEF PackSteps
<1>4. ASSUME Held # {}, NEW earlier \in SetToSeqs(Held),
             picked' = Refilled(picked, Upto(earlier, ReuseBudget(picked))),
             reused' = ToSet(Upto(earlier, ReuseBudget(picked)))
      PROVE  PackInd'
  <2> DEFINE n == ReuseBudget(picked)  m == Cardinality(Held)  first == Upto(earlier, n)
  <2>1. /\ n \in Nat \ {0} /\ n <= Len(picked) /\ (n <= 1 \/ 2 * n <= Len(picked))
        /\ m \in Nat /\ n <= m
    BY <1>1, <1>4, BudgetIs
  <2>2. earlier \in [1..m -> Held] /\ \A i, j \in 1..m : i # j => earlier[i] # earlier[j]
    BY <1>4 DEF SetToSeqs
  <2>3. Held \in SUBSET Ranked /\ Held \in SUBSET stable
    BY <1>1, RankedIs
  <2> HIDE DEF n, m
  <2>4. earlier \in Seq(Held) /\ Len(earlier) = m
    <3>1. earlier \in Seq(Held)
      BY <2>1, <2>2, IsASequence
    <3> QED
      BY <2>1, <2>2, <3>1, LenProperties
  <2>5. first \in Seq(Held) /\ Len(first) = n /\ \A i \in 1..n : first[i] = earlier[i]
    <3>1. /\ first \in Seq(Held) /\ Len(first) = IF Len(earlier) < n THEN Len(earlier) ELSE n
          /\ \A i \in 1..Len(first) : first[i] = earlier[i]
      BY <2>1, <2>4, UptoIs
    <3> HIDE DEF first
    <3>2. Len(first) = n
      BY <2>1, <2>4, <3>1
    <3> QED
      BY <3>1, <3>2
  <2>6. picked' = Refilled(picked, first) /\ reused' = ToSet(first)
    BY <1>4 DEF n
  <2> HIDE DEF first
  <2>7. first \in Seq(Ranked)
    BY <2>3, <2>5, Wider
  <2>8. \A i, j \in 1..Len(first) : i # j => first[i] # first[j]
    BY <2>1, <2>2, <2>5
  <2>9. /\ Selection(Refilled(picked, first)) /\ Len(Refilled(picked, first)) = Len(picked)
        /\ ToSet(first) \subseteq Ranks(Refilled(picked, first))
        /\ Cardinality(ToSet(first)) = Len(first)
    BY <1>1, <2>1, <2>5, <2>7, <2>8, RefilledIs
  <2>10. ToSet(first) \subseteq stable /\ ToSet(first) # {}
    <3>1. DOMAIN first = 1..n /\ first \in [1..n -> Held]
      BY <2>5, LenProperties
    <3>2. 1 \in 1..n
      BY <2>1
    <3> QED
      BY <2>3, <3>1, <3>2 DEF ToSet
  <2>11. Few(picked', reused')
    BY <2>1, <2>5, <2>6, <2>9, <2>10 DEF Few
  <2>12. Stays(picked') /\ Selection(picked')
    BY <2>6, <2>9, <2>10 DEF Stays
  <2> QED
    BY <1>1, <2>11, <2>12, PackLeads DEF PackSteps
<1> QED
  BY <1>3, <1>4 DEF PartialReuse

LEMMA SortStep ==
  ASSUME PackInd, Sort
  PROVE  PackInd'
<1>1. /\ PackStateOK /\ marks \in [Ranked -> SUBSET {"extract", "compact"}]
      /\ kstep = "sort" /\ kstep' = "proofs" /\ Selection(picked) /\ Stays(picked) /\ Few(picked, reused)
      /\ UNCHANGED <<profile, size, stable, marks, reused>>
  BY PackIs DEF Sort
<1>2. PICK places \in SetToSeqs(DOMAIN picked) :
        /\ \A i, j \in DOMAIN picked : i < j => picked[places[i]].rank <= picked[places[j]].rank
        /\ picked' = [i \in DOMAIN picked |-> picked[places[i]]]
  BY DEF Sort
<1> DEFINE n == Len(picked)  t == [i \in DOMAIN picked |-> picked[places[i]]]
<1>3. picked \in Seq(Chunk) /\ picked # <<>> /\ n <= Limit /\ Apart(picked)
  BY <1>1 DEF Selection
<1>4. /\ n \in Nat /\ DOMAIN picked = 1..n /\ n # 0
      /\ \A i \in 1..n : picked[i] \in Chunk /\ picked[i].rank \in Ranked
      /\ Ranks(picked) = {picked[i].rank : i \in 1..n}
  BY <1>3, ChunksAre
<1>5. Cardinality(1..n) = n /\ IsFiniteSet(1..n)
  <2>1. 1 \in Int /\ n \in Int /\ (1 > n <=> n = 0) /\ n - 1 + 1 = n
    BY <1>4
  <2> QED
    BY <1>4, <2>1, FS_Interval
<1>6. places \in [1..n -> 1..n] /\ \A i, j \in 1..n : i # j => places[i] # places[j]
  BY <1>4, <1>5 DEF SetToSeqs
<1>7. \A r \in 1..n : \E i \in 1..n : places[i] = r
  <2>1. places \in Injection(1..n, 1..n)
    BY <1>6 DEF Injection, IsInjective
  <2>2. places \in Surjection(1..n, 1..n)
    BY <1>5, <2>1, FS_Injection
  <2> QED
    BY <2>2 DEF Surjection
<1>8. t \in [1..n -> Chunk] /\ \A i \in 1..n : t[i] = picked[places[i]]
  BY <1>4, <1>6
<1>9. picked' = t
  BY <1>2
<1>10. \A i, j \in 1..n : i < j => picked[places[i]].rank <= picked[places[j]].rank
  BY <1>2, <1>4
<1> HIDE DEF n, t
<1>11. t \in Seq(Chunk) /\ Len(t) = n
  <2>1. t \in Seq(Chunk)
    BY <1>4, <1>8, IsASequence
  <2> QED
    BY <1>4, <1>8, <2>1, LenProperties
<1>12. Apart(t)
  <2>1. ASSUME NEW i \in 1..n, NEW j \in 1..n, i # j PROVE t[i].rank # t[j].rank
    <3>1. places[i] # places[j] /\ places[i] \in DOMAIN picked /\ places[j] \in DOMAIN picked
      BY <1>4, <1>6, <2>1
    <3> QED
      BY <1>3, <1>8, <3>1 DEF Apart
  <2>2. DOMAIN t = 1..n
    BY <1>8
  <2> QED
    BY <2>1, <2>2 DEF Apart
<1>13. DOMAIN t = 1..n /\ Ranks(t) = Ranks(picked)
  <2>1. Ranks(t) = {picked[places[i]].rank : i \in 1..n}
    BY <1>8 DEF Ranks
  <2>2. ASSUME NEW i \in 1..n PROVE picked[places[i]].rank \in Ranks(picked)
    <3>1. places[i] \in 1..n
      BY <1>6
    <3> QED
      BY <1>4, <3>1
  <2>3. ASSUME NEW k \in 1..n PROVE picked[k].rank \in Ranks(t)
    <3>1. PICK i \in 1..n : places[i] = k
      BY <1>7
    <3> QED
      BY <2>1, <3>1
  <2>4. Ranks(t) \subseteq Ranks(picked)
    BY <2>1, <2>2
  <2>5. Ranks(picked) \subseteq Ranks(t)
    BY <1>4, <2>3
  <2> QED
    BY <1>8, <2>4, <2>5
<1>14. \A i, j \in 1..n : i < j => t[i].rank < t[j].rank
  <2> TAKE i, j \in 1..n
  <2>1. t[i].rank \in Nat /\ t[j].rank \in Nat /\ i \in Nat /\ j \in Nat
    <3>1. t[i].rank \in Ranked /\ t[j].rank \in Ranked
      BY <1>4, <1>6, <1>8
    <3>2. Ranked \in SUBSET Nat
      BY <1>1, RankedIs
    <3>3. i \in Nat /\ j \in Nat
      BY <1>4
    <3> QED
      BY <3>1, <3>2, <3>3
  <2>2. i < j => t[i].rank <= t[j].rank
    BY <1>8, <1>10
  <2>3. i # j => t[i].rank # t[j].rank
    BY <1>12, <1>13 DEF Apart
  <2> QED
    BY <2>1, <2>2, <2>3
<1>15. Selection(t) /\ Stays(t) /\ Few(t, reused)
  <2>1. t # <<>>
    BY <1>4, <1>11, ChunksAre
  <2>2. Len(picked) = Len(t)
    BY <1>11 DEF n
  <2> QED
    BY <1>1, <1>3, <1>11, <1>12, <1>13, <2>1, <2>2 DEF Selection, Stays, Few
<1> QED
  BY <1>1, <1>9, <1>13, <1>14, <1>15, PackLeads DEF PackSteps

LEMMA PackStart == PackInit => PackInd
<1> SUFFICES ASSUME PackInit PROVE PackInd
  OBVIOUS
<1>1. PackTypeOK
  BY DEF PackInit, PackTypeOK
<1>2. PackInv /\ GateInv
  BY DEF PackInit, PackInv, GateInv
<1> QED
  BY <1>1, <1>2 DEF PackInd

\* Whatever the model, the evidence, the duplicates and the earlier read make
\* of a selection, and whatever the limits of the profiles, the answer has
\* chunks, within the limit, in order, none twice, one of the earlier read
\* among them if there is any, and at most half of them reused.
THEOREM PackSafety == PackSpec => []PackInd
<1>1. PackInd /\ [PackNext]_packVars => PackInd'
  <2> SUFFICES ASSUME PackInd, [PackNext]_packVars PROVE PackInd'
    OBVIOUS
  <2>1. CASE UNCHANGED packVars
    <3>1. PackTypeOK'
      BY <2>1 DEF PackInd, PackTypeOK, packVars, Ranked
    <3>2. PackInv'
      BY <2>1 DEF PackInd, PackInv, packVars, Ranked, Limit, Held, Ranks
    <3>3. GateInv'
      BY <2>1 DEF PackInd, GateInv, packVars, Ranked, Held, Ranks
    <3> QED
      BY <3>1, <3>2, <3>3 DEF PackInd
  <2> QED
    BY <2>1, SelectStep, AmbiguityStep, IntelStep, EvidenceStep, DeduplicateStep, GateStep,
       ReuseStep, SortStep DEF PackNext
<1> QED
  BY <1>1, PackStart, PTL DEF PackSpec
=============================================================================

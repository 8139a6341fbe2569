--------------------------- MODULE RemoteAdmin_proofs ---------------------------
(***************************************************************************)
(* For any gateways, handlers, settings and sections: the state of         *)
(* RemoteAdmin is typed, drafts are current, no section is sent twice, the *)
(* node is left with what was shown and the draft, and the fence holds.    *)
(*                                                                         *)
(* The argument: the lock of a gateway is held by one operation, so that   *)
(* the snapshot it compares cannot move under a preview; an apply owns the *)
(* preview it has destroyed, which no other can name any more; and what    *)
(* others do to the node while it holds the lock is recorded in `touched`. *)
(***************************************************************************)
EXTENDS RemoteAdmin, TLAPS

USE RemoteAssumption

-----------------------------------------------------------------------------
(* The inductive invariant *)

\* An apply between taking its lock and its answer.
Applying(o) == kind[o] = "apply" /\ pc[o] \in Loads \cup Writes

\* Only applies write, and what was read belongs to a load under way.
StageInv ==
  \A o \in Ops : /\ pc[o] \in Writes \cup {"readback"} => kind[o] = "apply"
                 /\ pc[o] \notin Loads => seen[o] = {}

\* The manager is fenced from the first step of an unload until it is given up,
\* and then only what it has cancelled is still under way.
FenceInv ==
  /\ accepting <=> life = "loaded"
  /\ ~accepting => /\ previews = {} /\ \A g \in Gateways : snapshots[g] = None
                   /\ Active \subseteq cancelled
  /\ life \in {"fenced", "closed"} => Active = {}

\* A live preview has been answered and changes something; one that waits is for
\* the gateway it will lock.
PreviewInv ==
  /\ \A p \in previews : pc[p] = "done" /\ Drafted(p) # {}
  /\ \A p \in Ops : kind[p] = "preview" /\ pc[p] = "waiting" => plan[p].gw = gw[p]

\* Nothing was sent for a preview before it was destroyed.
UnsentInv ==
  \A p \in Ops : p \in previews \/ pc[p] # "done" => \A s \in Sections : sent[p][s] = 0

\* An apply owns the preview it has destroyed, there is no other of its gateway,
\* and the sections it has still to write were never sent.
ApplyInv ==
  \A o \in Ops : Applying(o) =>
    LET p == of[o] IN
    /\ p \notin previews /\ pc[p] = "done" /\ plan[p].gw = gw[o] /\ Drafted(p) # {}
    /\ \A q \in previews : plan[q].gw # gw[o]
    /\ pc[o] \in {"begin", "writing"} => todo[o] # {}
    /\ pc[o] = "loading" => \A s \in Sections : sent[p][s] = 0
    /\ pc[o] \in {"begin", "writing"} => \A s \in todo[o] : sent[p][s] = 0

\* While nobody else touches the node, an apply knows it: what it has read, what
\* it compared, and that only the draft was written since.
NodeInv ==
  \A o \in Ops : Applying(o) /\ touched[o] = {} =>
    LET p == of[o] IN
    /\ \A x \in Paths : SectionOf[x] \in seen[o] => read[o][x] = node[x]
    /\ pc[o] = "begin" => node = plan[p].rev
    /\ pc[o] \in {"writing", "commit", "readback"} =>
         \A x \in Paths : node[x] \in {plan[p].rev[x], Planned(p)[x]}

IInv == /\ TypeOK /\ StageInv /\ FenceInv /\ PreviewInv /\ DraftsAreCurrent
        /\ UnsentInv /\ SentOnce /\ ApplyInv /\ NodeInv

-----------------------------------------------------------------------------
(* Types *)

\* The conjuncts of TypeOK, in groups that a step disturbs or leaves alone.
TypeEnv ==
  /\ scenario \in Scenarios /\ node \in Nodes
  /\ connected \in [Gateways -> BOOLEAN] /\ hit \subseteq Ops
  /\ accepting \in BOOLEAN /\ cancelled \subseteq Ops
  /\ life \in {"loaded", "draining", "deferred", "fenced", "closed"}
  /\ touched \in [Ops -> SUBSET Paths] /\ landed \subseteq Ops
  /\ edits \in Nat /\ drops \in Nat /\ unloads \in Nat

TypeMgr ==
  /\ snapshots \in [Gateways -> Nodes \cup {None}] /\ previews \subseteq Ops
  /\ plan \in [Ops -> Plans] /\ kind \in [Ops -> Kinds]
  /\ gw \in [Ops -> Gateways] /\ of \in [Ops -> Ops]
  /\ sent \in [Ops -> [Sections -> 0..2]]

TypeTask ==
  /\ pc \in [Ops -> Holding \cup {"new", "waiting", "done"}]
  /\ read \in [Ops -> Nodes] /\ seen \in [Ops -> SUBSET Sections]
  /\ todo \in [Ops -> SUBSET Sections] /\ outcome \in [Ops -> Outcomes]

LockInv ==
  /\ lock \in [Gateways -> Ops \cup {None}]
  /\ \A o \in Ops, g \in Gateways : lock[g] = o <=> pc[o] \in Holding /\ gw[o] = g

\* The groups together are the type invariant.
LEMMA TypeParts == TypeOK <=> TypeEnv /\ TypeMgr /\ TypeTask /\ LockInv
  BY DEF TypeOK, TypeEnv, TypeMgr, TypeTask, LockInv

\* The same of the next state.
LEMMA TypePartsNext == TypeOK' <=> TypeEnv' /\ TypeMgr' /\ TypeTask' /\ LockInv'
  BY DEF TypeOK, TypeEnv, TypeMgr, TypeTask, LockInv

\* There is a state of the node to start from.
LEMMA NoNodeTyped == NoNode \in Nodes
  <1>1. PICK v \in Values : TRUE
    BY RemoteAssumption
  <1>2. [x \in Paths |-> v] \in Nodes
    BY DEF Nodes
  <1> QED BY <1>2 DEF NoNode

\* A plan that is typed asks for a typed node.
LEMMA PlannedTyped ==
  ASSUME TypeMgr, NEW p \in Ops
  PROVE  Planned(p) \in Nodes
  <1>1. /\ plan[p].rev \in [Paths -> Values]
        /\ plan[p].want \in [Paths -> Values \cup {None}]
    BY DEF TypeMgr, Plans, Nodes, Drafts
  <1> QED BY ONLY <1>1 DEF Planned, Nodes

\* An operation that leaves keeps the types and gives back what it holds.
LEMMA LeaveTyped ==
  ASSUME TypeTask, LockInv, NEW o \in Ops, NEW answer \in Outcomes, Leave(o, answer),
         gw' = gw
  PROVE  TypeTask' /\ LockInv'
  <1>1. TypeTask'
    BY ONLY TypeTask, NoNodeTyped, Leave(o, answer), answer \in Outcomes
       DEF TypeTask, Leave, Holding, Loads, Writes
  <1>2. LockInv'
    BY ONLY LockInv, TypeTask, RemoteAssumption, Leave(o, answer), gw' = gw, o \in Ops
       DEF LockInv, TypeTask, Leave, Holding, Loads, Writes
  <1> QED BY <1>1, <1>2

\* An operation that goes on with its lock keeps the types.
LEMMA GoTyped ==
  ASSUME TypeTask, LockInv, NEW o \in Ops, NEW place \in Holding, pc[o] \in Holding,
         pc' = [pc EXCEPT ![o] = place], UNCHANGED <<lock, gw>>
  PROVE  pc' \in [Ops -> Holding \cup {"new", "waiting", "done"}] /\ LockInv'
  BY ONLY TypeTask, LockInv, place \in Holding, o \in Ops, pc[o] \in Holding,
     pc' = [pc EXCEPT ![o] = place], UNCHANGED <<lock, gw>>
     DEF TypeTask, LockInv

\* An operation that takes the free lock of its gateway keeps the types.
LEMMA TakeTyped ==
  ASSUME TypeEnv, TypeTask, LockInv, NEW o \in Ops, NEW place \in Holding,
         pc[o] = "waiting", gw[o] \in Gateways, lock[gw[o]] = None, Take(o, place), gw' = gw
  PROVE  TypeTask' /\ LockInv' /\ touched' \in [Ops -> SUBSET Paths]
  <1>1. TypeTask' /\ touched' \in [Ops -> SUBSET Paths]
    BY DEF TypeTask, TypeEnv, Take
  <1>2. LockInv'
    BY ONLY LockInv, TypeTask, RemoteAssumption, Take(o, place), gw' = gw, o \in Ops,
            pc[o] = "waiting", gw[o] \in Gateways, lock[gw[o]] = None, place \in Holding
       DEF LockInv, TypeTask, Take, Holding, Loads, Writes
  <1> QED BY <1>1, <1>2

\* A request keeps the types.
LEMMA RequestTyped ==
  ASSUME TypeOK, NEW o \in Ops, Request(o)
  PROVE  TypeOK'
  <1> USE TypeParts, TypePartsNext
  <1>1. PICK g \in Gateways, what \in Kinds : Ask(o, g, what)
    BY DEF Request, RequestGet, RequestPreview, RequestApply, RequestCheck, RequestReboot,
           Kinds
  <1>2. TypeTask' /\ LockInv' /\ TypeEnv'
    <2>1. pc[o] = "new" /\ pc' = [pc EXCEPT ![o] = "waiting"] /\ gw' = [gw EXCEPT ![o] = g]
          /\ UNCHANGED <<lock, read, seen, todo, outcome>>
      BY <1>1 DEF Ask, Go
    <2>2. TypeTask'
      BY ONLY <2>1, TypeTask DEF TypeTask
    <2>3. LockInv'
      BY ONLY <2>1, TypeTask, TypeMgr, LockInv DEF LockInv, TypeTask, TypeMgr, Holding, Loads,
                                                   Writes
    <2>4. TypeEnv'
      BY <1>1 DEF Ask, TypeEnv, radio, link, writes, entry
    <2> QED BY <2>2, <2>3, <2>4
  <1>3. /\ kind' \in [Ops -> Kinds] /\ gw' \in [Ops -> Gateways]
        /\ UNCHANGED <<snapshots, previews, sent>>
    BY <1>1 DEF Ask, TypeMgr, writes
  <1>4. of' \in [Ops -> Ops]
    BY DEF Request, RequestGet, RequestPreview, RequestApply, RequestCheck, RequestReboot,
           TypeMgr
  <1>5. plan' \in [Ops -> Plans]
    <2>1. CASE \E h \in Gateways : RequestPreview(o, h)
      <3>1. PICK h \in Gateways : RequestPreview(o, h)
        BY <2>1
      <3>2. PICK want \in scenario.drafts :
              plan' = [plan EXCEPT ![o] = [gw |-> h, rev |-> snapshots[h], want |-> want]]
        BY <3>1 DEF RequestPreview
      <3>3. want \in Drafts
        BY <3>2 DEF TypeEnv
      <3>4. snapshots[h] \in Nodes
        BY <3>1 DEF RequestPreview, TypeMgr
      <3>5. [gw |-> h, rev |-> snapshots[h], want |-> want] \in Plans
        BY <3>3, <3>4 DEF Plans
      <3> QED BY <3>2, <3>5 DEF TypeMgr
    <2>2. CASE plan' = plan
      BY <2>2 DEF TypeMgr
    <2> QED BY <2>1, <2>2 DEF Request, RequestGet, RequestApply, RequestCheck, RequestReboot
  <1>6. TypeMgr'
    BY <1>3, <1>4, <1>5 DEF TypeMgr
  <1> QED BY <1>2, <1>6

\* Taking the lock, with a start or an answer at once, keeps the types.
LEMMA StartTyped ==
  ASSUME TypeOK, NEW o \in Ops, Start(o)
  PROVE  TypeOK'
  <1> USE TypeParts, TypePartsNext
  <1>0. gw[o] \in Gateways
    BY DEF TypeMgr
  <1>1. ASSUME NEW place \in Holding, Turn(o, kind[o]), Take(o, place),
               UNCHANGED <<scenario, link, plan, request, writes, entry>>,
               previews' \subseteq previews,
               snapshots' \in [Gateways -> Nodes \cup {None}]
        PROVE  TypeOK'
    <2>1. gw' = gw /\ pc[o] = "waiting" /\ lock[gw[o]] = None
      BY <1>1 DEF request, Turn
    <2>2. TypeTask' /\ LockInv' /\ touched' \in [Ops -> SUBSET Paths]
      BY ONLY <1>0, <1>1, <2>1, TypeOK, TypeParts, TakeTyped
    <2>3. TypeEnv'
      BY <1>1, <2>2 DEF TypeEnv, link, writes, entry, Take
    <2>4. TypeMgr'
      BY <1>1 DEF TypeMgr, request, writes
    <2> QED BY <2>2, <2>3, <2>4
  <1>2. CASE StartGet(o)
    BY <1>1, <1>2 DEF StartGet, Turn, manager, TypeMgr, Holding, Loads
  <1>3. CASE StartCheck(o)
    BY <1>1, <1>3 DEF StartCheck, Turn, manager, TypeMgr, Holding
  <1>4. CASE StartReboot(o)
    <2>1. snapshots' \in [Gateways -> Nodes \cup {None}] /\ previews' \subseteq previews
      BY <1>4 DEF StartReboot, TypeMgr, Invalidated
    <2>2. PICK place \in {"session", "rebooting"} : Take(o, place)
      BY <1>4 DEF StartReboot
    <2>3. place \in Holding
      BY DEF Holding
    <2>4. /\ Turn(o, kind[o])
          /\ UNCHANGED <<scenario, link, plan, request, writes, entry>>
      BY <1>4 DEF StartReboot, Turn
    <2> QED BY ONLY <1>1, <2>1, <2>2, <2>3, <2>4
  <1>5. CASE MakePreview(o)
    <2>1. PICK answer \in Outcomes : Leave(o, answer)
      BY <1>5 DEF MakePreview, Outcomes
    <2>2. gw' = gw
      BY <1>5 DEF MakePreview, request
    <2>3. TypeTask' /\ LockInv'
      BY ONLY <2>1, <2>2, TypeOK, TypeParts, LeaveTyped, o \in Ops
    <2>4. TypeEnv'
      BY <1>5 DEF MakePreview, TypeEnv, radio, link, writes, entry
    <2>5. previews' \subseteq Ops
      BY <1>5 DEF MakePreview, Invalidated, TypeMgr
    <2>6. plan' \in [Ops -> Plans]
      <3> DEFINE changed == [x \in Paths |-> IF plan[o].want[x] = plan[o].rev[x] THEN None
                                             ELSE plan[o].want[x]]
      <3>1. /\ plan[o] \in Plans /\ plan[o].want \in [Paths -> Values \cup {None}]
        BY DEF TypeMgr, Plans, Drafts
      <3>2. changed \in Drafts
        BY ONLY <3>1 DEF Drafts
      <3>3. [plan[o] EXCEPT !.want = changed] \in Plans
        BY ONLY <3>1, <3>2 DEF Plans
      <3>4. plan' = plan \/ plan' = [plan EXCEPT ![o].want = changed]
        BY <1>5 DEF MakePreview
      <3> QED BY ONLY <3>3, <3>4, TypeMgr DEF TypeMgr
    <2>7. TypeMgr'
      BY <1>5, <2>5, <2>6 DEF MakePreview, TypeMgr, request, writes
    <2> QED BY <2>3, <2>4, <2>7
  <1>6. CASE StartApply(o)
    <2>1. /\ Turn(o, kind[o]) /\ previews' \subseteq previews
          /\ UNCHANGED <<scenario, link, snapshots, plan, request, writes, entry>>
      BY <1>6 DEF StartApply, Turn, Consumed
    <2>2. CASE Take(o, "loading")
      BY <1>1, <2>1, <2>2 DEF TypeMgr, Holding, Loads
    <2>3. CASE Leave(o, "error") /\ UNCHANGED radio
      <3>1. TypeTask' /\ LockInv'
        BY <2>1, <2>3, LeaveTyped DEF request, Outcomes
      <3>2. TypeEnv' /\ TypeMgr'
        BY <2>1, <2>3 DEF TypeEnv, TypeMgr, radio, link, request, writes, entry
      <3> QED BY <3>1, <3>2
    <2> QED BY <1>6, <2>2, <2>3 DEF StartApply
  <1> QED BY <1>2, <1>3, <1>4, <1>5, <1>6 DEF Start

\* A step that only moves, or answers, keeps the types.
LEMMA MoveTyped ==
  ASSUME TypeOK, NEW o \in Ops, pc[o] \in Holding,
         \/ \E place \in Holding : Go(o, place)
         \/ \E answer \in Outcomes : Leave(o, answer),
         UNCHANGED <<scenario, radio, link, manager, request, writes, entry>>
  PROVE  TypeOK'
  <1> USE TypeParts, TypePartsNext
  <1>1. TypeEnv' /\ TypeMgr' /\ gw' = gw
    BY DEF TypeEnv, TypeMgr, radio, link, manager, request, writes, entry
  <1>2. CASE \E place \in Holding : Go(o, place)
    BY <1>1, <1>2, GoTyped DEF Go, TypeTask
  <1>3. CASE \E answer \in Outcomes : Leave(o, answer)
    BY <1>1, <1>3, LeaveTyped
  <1> QED BY <1>1, <1>2, <1>3

\* The sections are taken one after the other.
LEMMA NextOfIn ==
  ASSUME NEW S \in SUBSET Sections, S # {}
  PROVE  NextOf(S) \in S
  BY DEF NextOf

\* Reading a section keeps the types.
LEMMA ReadSectionTyped ==
  ASSUME TypeOK, NEW o \in Ops, ReadSection(o)
  PROVE  TypeOK'
  <1> USE TypeParts, TypePartsNext
  <1>1. NextOf(Sections \ seen[o]) \in Sections
    <2>1. seen[o] \subseteq Sections /\ seen[o] # Sections
      BY DEF ReadSection, TypeTask
    <2> QED BY <2>1, NextOfIn
  <1>2. read' \in [Ops -> Nodes] /\ seen' \in [Ops -> SUBSET Sections]
    <2>1. node \in [Paths -> Values] /\ read[o] \in [Paths -> Values]
      BY DEF TypeEnv, TypeTask, Nodes
    <2>2. \A s \in Sections : [x \in Paths |-> IF SectionOf[x] = s THEN node[x] ELSE read[o][x]]
                                \in Nodes
      BY <2>1 DEF Nodes
    <2> QED BY <1>1, <2>2 DEF ReadSection, TypeTask
  <1>3. TypeEnv' /\ TypeMgr' /\ LockInv'
    BY DEF ReadSection, TypeEnv, TypeMgr, LockInv, radio, link, manager, request, writes, entry
  <1>4. TypeTask'
    BY <1>2 DEF ReadSection, TypeTask
  <1> QED BY <1>3, <1>4

\* An answer that replaces or drops the snapshot keeps the types.
LEMMA AnswerTyped ==
  ASSUME TypeOK, NEW o \in Ops, NEW answer \in Outcomes, Leave(o, answer),
         NEW shown \in Nodes \cup {None}, snapshots' = [snapshots EXCEPT ![gw[o]] = shown],
         previews' \subseteq previews,
         UNCHANGED <<scenario, radio, link, plan, request, writes, entry>>
  PROVE  TypeOK'
  <1> USE TypeParts, TypePartsNext
  <1>1. TypeTask' /\ LockInv'
    BY LeaveTyped DEF request
  <1>2. TypeEnv' /\ TypeMgr'
    BY DEF TypeEnv, TypeMgr, radio, link, request, writes, entry
  <1> QED BY <1>1, <1>2

\* The comparison keeps the types.
LEMMA CompareTyped ==
  ASSUME TypeOK, NEW o \in Ops, CompareRevision(o)
  PROVE  TypeOK'
  <1> USE TypeParts, TypePartsNext
  <1>0. UNCHANGED <<scenario, radio, link, previews, plan, request, writes, entry>>
        /\ pc[o] = "loading" /\ read[o] \in Nodes
    BY DEF CompareRevision, Loaded, TypeTask
  <1>1. CASE StillShown(o)
    <2>1. /\ pc' = [pc EXCEPT ![o] = "begin"] /\ UNCHANGED <<lock, gw, outcome, snapshots>>
          /\ todo' = [todo EXCEPT ![o] = Touches(of[o])]
          /\ read' = [read EXCEPT ![o] = NoNode] /\ seen' = [seen EXCEPT ![o] = {}]
      BY <1>0, <1>1 DEF CompareRevision, request
    <2>2. Touches(of[o]) \subseteq Sections
      BY RemoteAssumption DEF Touches, Drafted
    <2>3. "begin" \in Holding /\ pc[o] \in Holding
      BY <1>0 DEF Holding, Writes, Loads
    <2>4. LockInv' /\ pc' \in [Ops -> Holding \cup {"new", "waiting", "done"}]
      BY <2>1, <2>3, GoTyped
    <2>5. TypeTask'
      BY <2>1, <2>2, <2>4, NoNodeTyped DEF TypeTask
    <2>6. TypeEnv' /\ TypeMgr'
      BY <1>0, <2>1 DEF TypeEnv, TypeMgr, radio, link, request, writes, entry
    <2> QED BY <2>4, <2>5, <2>6
  <1>2. CASE ~StillShown(o)
    BY <1>0, <1>2, AnswerTyped DEF CompareRevision, Outcomes
  <1> QED BY <1>1, <1>2

\* A section packet keeps the types.
LEMMA SendSectionTyped ==
  ASSUME TypeOK, NEW o \in Ops, SendSection(o)
  PROVE  TypeOK'
  <1> USE TypeParts, TypePartsNext
  <1> DEFINE p == of[o]
             s == NextOf(todo[o])
             written == [x \in Paths |-> IF SectionOf[x] = s THEN Planned(p)[x] ELSE node[x]]
  <1>0. p \in Ops /\ gw' = gw /\ pc[o] = "writing" /\ pc[o] \in Holding
    BY DEF SendSection, TypeMgr, request, Holding, Writes
  <1>1. node' \in Nodes
    <2>1. Planned(p) \in [Paths -> Values] /\ node \in [Paths -> Values]
      BY <1>0, PlannedTyped DEF Nodes, TypeEnv
    <2>2. written \in Nodes
      BY ONLY <2>1 DEF Nodes
    <2>3. node' = written \/ node' = node
      BY DEF SendSection
    <2> QED BY <2>2, <2>3 DEF TypeEnv
  <1>2. touched' \in [Ops -> SUBSET Paths] /\ landed' \subseteq Ops
    BY DEF SendSection, Touch, TypeEnv
  <1>3. sent' \in [Ops -> [Sections -> 0..2]]
    <2>1. sent' = [sent EXCEPT ![p][s] = IF @ < 2 THEN @ + 1 ELSE @]
      BY DEF SendSection
    <2>2. sent[p] \in [Sections -> 0..2]
      BY <1>0 DEF TypeMgr
    <2>3. [sent[p] EXCEPT ![s] = IF @ < 2 THEN @ + 1 ELSE @] \in [Sections -> 0..2]
      <3>1. \A n \in 0..2 : (IF n < 2 THEN n + 1 ELSE n) \in 0..2
        OBVIOUS
      <3>2. CASE s \in Sections
        BY ONLY <2>2, <3>1, <3>2
      <3>3. CASE s \notin Sections
        BY ONLY <2>2, <3>3
      <3> QED BY <3>2, <3>3
    <2>4. sent' = [sent EXCEPT ![p] = [sent[p] EXCEPT ![s] = IF @ < 2 THEN @ + 1 ELSE @]]
      BY ONLY <2>1
    <2> QED BY ONLY <2>3, <2>4, TypeMgr DEF TypeMgr
  <1>4. TypeTask' /\ LockInv'
    <2>1. CASE \E answer \in {"refused", "unknown"} : Leave(o, answer)
      BY <1>0, <2>1, LeaveTyped DEF Outcomes
    <2>2. CASE /\ pc' = [pc EXCEPT ![o] = IF todo[o] = {s} THEN "commit" ELSE "writing"]
               /\ todo' = [todo EXCEPT ![o] = @ \ {s}]
               /\ UNCHANGED <<lock, outcome, read, seen>>
      <3>1. (IF todo[o] = {s} THEN "commit" ELSE "writing") \in Holding
        BY DEF Holding, Writes
      <3>2. LockInv' /\ pc' \in [Ops -> Holding \cup {"new", "waiting", "done"}]
        BY <1>0, <2>2, <3>1, GoTyped
      <3> QED BY <2>2, <3>2 DEF TypeTask
    <2> QED BY <2>1, <2>2 DEF SendSection
  <1>5. TypeEnv' /\ TypeMgr'
    BY <1>1, <1>2, <1>3 DEF SendSection, TypeEnv, TypeMgr, link, manager, request, entry
  <1> QED BY <1>4, <1>5

\* A step of an operation keeps the types.
LEMMA OpStepTyped ==
  ASSUME TypeOK, NEW o \in Ops, OpStep(o)
  PROVE  TypeOK'
  <1> USE TypeParts, TypePartsNext
  <1>1. CASE ReadSection(o)
    BY <1>1, ReadSectionTyped
  <1>2. CASE CompareRevision(o)
    BY <1>2, CompareTyped
  <1>3. CASE SendSection(o)
    BY <1>3, SendSectionTyped
  <1>4. CASE FinishGet(o)
    <2>1. previews' \subseteq previews /\ read[o] \in Nodes /\ "result" \in Outcomes
      BY <1>4 DEF FinishGet, Invalidated, TypeTask, Outcomes
    <2> QED BY <1>4, <2>1, AnswerTyped DEF FinishGet
  <1>5. CASE FinishApply(o)
    <2>1. PICK answer \in Outcomes : Leave(o, answer)
      BY <1>5 DEF FinishApply, Outcomes
    <2> QED BY <1>5, <2>1, AnswerTyped DEF FinishApply
  <1>6. CASE Interrupt(o)
    <2>1. TypeTask' /\ LockInv'
      BY <1>6, LeaveTyped DEF Interrupt, Outcomes, request
    <2>2. TypeEnv' /\ TypeMgr'
      BY <1>6 DEF Interrupt, TypeEnv, TypeMgr, radio, link, manager, request, writes, entry
    <2> QED BY <2>1, <2>2
  <1>7. CASE ReadFails(o) \/ WriteCut(o)
    BY <1>7, MoveTyped DEF ReadFails, WriteCut, Outcomes, Holding
  <1>8. CASE SendBegin(o) \/ SendCommit(o)
    BY <1>8, MoveTyped DEF SendBegin, SendCommit, Packet, Outcomes, Holding, Writes, Loads
  <1>9. CASE ReserveProbe(o) \/ FinishCheck(o) \/ RebootStep(o)
    BY <1>9, MoveTyped DEF ReserveProbe, FinishCheck, RebootStep, Outcomes, Holding
  <1> QED BY <1>1, <1>2, <1>3, <1>4, <1>5, <1>6, <1>7, <1>8, <1>9 DEF OpStep

\* What happens around the operations keeps the types.
LEMMA EnvTyped ==
  ASSUME TypeOK,
         \/ \E o \in Ops : Expire(o)
         \/ \E g \in Gateways : Disconnect(g) \/ Reconnect(g)
         \/ EditNode \/ Quiesce \/ FenceDecided \/ Resume \/ CloseEntry
  PROVE  TypeOK'
  <1> USE TypeParts, TypePartsNext
  <1>1. UNCHANGED task /\ UNCHANGED request
    BY DEF Expire, Disconnect, Reconnect, EditNode, Quiesce, FenceDecided, Resume, CloseEntry
  <1>2. TypeTask' /\ LockInv'
    BY <1>1 DEF task, request, TypeTask, LockInv
  <1>3. TypeMgr'
    BY <1>1 DEF Expire, Disconnect, Reconnect, EditNode, Quiesce, FenceDecided, Resume,
                CloseEntry, TypeMgr, manager, request, writes
  <1>4. UNCHANGED <<scenario, landed>>
    BY DEF Expire, Disconnect, Reconnect, EditNode, Quiesce, FenceDecided, Resume, CloseEntry,
           writes
  <1>5. node' \in Nodes /\ touched' \in [Ops -> SUBSET Paths] /\ edits' \in Nat
    <2>1. CASE EditNode
      BY <2>1 DEF EditNode, Touch, TypeEnv, Nodes
    <2>2. CASE UNCHANGED radio
      BY <2>2 DEF radio, TypeEnv
    <2> QED BY <2>1, <2>2 DEF Expire, Disconnect, Reconnect, Quiesce, FenceDecided, Resume,
                              CloseEntry
  <1>6. connected' \in [Gateways -> BOOLEAN] /\ hit' \subseteq Ops /\ drops' \in Nat
    <2>1. CASE \E g \in Gateways : Disconnect(g)
      BY <2>1 DEF Disconnect, TypeEnv
    <2>2. CASE \E g \in Gateways : Reconnect(g)
      BY <2>2 DEF Reconnect, TypeEnv
    <2>3. CASE CloseEntry
      BY <2>3 DEF CloseEntry, TypeEnv
    <2>4. CASE UNCHANGED link
      BY <2>4 DEF link, TypeEnv
    <2> QED BY <2>1, <2>2, <2>3, <2>4 DEF Expire, EditNode, Quiesce, FenceDecided, Resume
  <1>7. /\ accepting' \in BOOLEAN /\ cancelled' \subseteq Ops /\ unloads' \in Nat
        /\ life' \in {"loaded", "draining", "deferred", "fenced", "closed"}
    <2>1. CASE Quiesce
      <3>1. unloads' \in Nat
        BY <2>1 DEF Quiesce, TypeEnv
      <3>2. /\ accepting' = FALSE /\ life' = "draining"
            /\ cancelled' = cancelled \cup Active
        BY <2>1 DEF Quiesce
      <3> QED BY ONLY <3>1, <3>2, TypeEnv DEF TypeEnv, Active
    <2>2. CASE FenceDecided
      BY <2>2 DEF FenceDecided, TypeEnv
    <2>3. CASE Resume
      BY <2>3 DEF Resume, TypeEnv
    <2>4. CASE CloseEntry
      BY <2>4 DEF CloseEntry, TypeEnv, Active
    <2>5. CASE UNCHANGED entry
      BY <2>5 DEF entry, TypeEnv
    <2> QED BY <2>1, <2>2, <2>3, <2>4, <2>5 DEF Expire, Disconnect, Reconnect, EditNode
  <1>8. TypeEnv'
    BY <1>4, <1>5, <1>6, <1>7 DEF TypeEnv
  <1> QED BY <1>2, <1>3, <1>8

\* Every step keeps the types.
LEMMA TypeStep == TypeOK /\ [Next]_vars => TypeOK'
  <1> SUFFICES ASSUME TypeOK, [Next]_vars PROVE TypeOK'
    OBVIOUS
  <1>1. CASE UNCHANGED vars
    BY <1>1 DEF TypeOK, vars, radio, link, manager, request, task, writes, entry, Plans
  <1>2. CASE Next
    BY <1>2, RequestTyped, StartTyped, OpStepTyped, EnvTyped DEF Next
  <1> QED BY <1>1, <1>2

\* The initial states are typed.
LEMMA TypeInit == Init => TypeOK
  <1> SUFFICES ASSUME Init PROVE TypeOK
    OBVIOUS
  <1> USE TypeParts
  <1>1. TypeEnv
    BY DEF Init, TypeEnv
  <1>2. AnyPlan \in Plans /\ AnyPlan.gw \in Gateways
    BY NoNodeTyped DEF AnyPlan, Plans, Drafts
  <1>3. TypeMgr
    BY <1>2 DEF Init, TypeMgr, Kinds
  <1>4. TypeTask
    BY NoNodeTyped DEF Init, TypeTask, Outcomes
  <1>5. LockInv
    BY DEF Init, LockInv, Holding, Loads, Writes
  <1> QED BY <1>1, <1>3, <1>4, <1>5

\* Every reachable state is well typed, and the lock of a gateway is held exactly
\* by the operation that awaits with it.
THEOREM TypeCorrect == Spec => []TypeOK
  BY TypeInit, TypeStep, PTL DEF Spec

-----------------------------------------------------------------------------
(* What a step leaves alone *)

\* A step of one operation moves no other.
LEMMA OthersStay ==
  ASSUME TypeOK, NEW o \in Ops, Request(o) \/ Start(o) \/ OpStep(o)
  PROVE  \A q \in Ops \ {o} :
           /\ pc'[q] = pc[q] /\ seen'[q] = seen[q] /\ read'[q] = read[q]
           /\ todo'[q] = todo[q] /\ kind'[q] = kind[q] /\ gw'[q] = gw[q] /\ of'[q] = of[q]
           /\ plan'[q] = plan[q]
  <1> USE TypeParts
  <1>1. CASE Request(o)
    BY <1>1 DEF Request, RequestGet, RequestPreview, RequestApply, RequestCheck, RequestReboot,
                Ask, Go, TypeTask, TypeMgr
  <1>2. CASE Start(o)
    BY <1>2 DEF Start, StartGet, StartCheck, StartReboot, MakePreview, StartApply, Take, Leave,
                manager, request, TypeTask, TypeMgr
  <1>3. CASE OpStep(o)
    <2>1. UNCHANGED <<kind, gw, of, plan>>
      BY <1>3 DEF OpStep, ReadSection, ReadFails, FinishGet, CompareRevision, SendBegin,
                  SendSection, SendCommit, Packet, WriteCut, FinishApply, ReserveProbe,
                  FinishCheck, RebootStep, Interrupt, manager, request
    <2>2. CASE \E answer \in Outcomes : Leave(o, answer)
      BY <2>1, <2>2 DEF Leave, TypeTask
    <2>3. CASE \E place \in Holding : Go(o, place)
      BY <2>1, <2>3 DEF Go, TypeTask
    <2>4. CASE ReadSection(o) \/ CompareRevision(o) \/ SendSection(o)
      BY <2>1, <2>4 DEF ReadSection, CompareRevision, SendSection, Leave, TypeTask
    <2> QED
      BY <1>3, <2>2, <2>3, <2>4
         DEF OpStep, ReadFails, FinishGet, SendBegin, SendCommit, Packet, WriteCut,
             FinishApply, ReserveProbe, FinishCheck, RebootStep, Interrupt, Outcomes, Holding,
             Writes, Loads
  <1> QED BY <1>1, <1>2, <1>3

\* What happens around the operations moves none of them, and sends nothing.
LEMMA EnvStays ==
  ASSUME \/ \E o \in Ops : Expire(o)
         \/ \E g \in Gateways : Disconnect(g) \/ Reconnect(g)
         \/ EditNode \/ Quiesce \/ FenceDecided \/ Resume \/ CloseEntry
  PROVE  UNCHANGED <<pc, seen, read, todo, kind, gw, of, plan, lock, outcome, sent, landed>>
  BY DEF Expire, Disconnect, Reconnect, EditNode, Quiesce, FenceDecided, Resume, CloseEntry,
         manager, request, task, writes

\* Where a step takes its operation, and what it has read and may write then.
LEMMA OwnStep ==
  ASSUME TypeOK, StageInv, NEW o \in Ops, Request(o) \/ Start(o) \/ OpStep(o)
  PROVE  /\ pc'[o] \in Writes \cup {"readback"} => kind'[o] = "apply"
         /\ pc'[o] \notin Loads => seen'[o] = {}
  <1> USE TypeParts
  <1>1. CASE Request(o)
    BY <1>1 DEF Request, RequestGet, RequestPreview, RequestApply, RequestCheck, RequestReboot,
                Ask, Go, TypeTask, StageInv, Writes, Loads
  <1>2. CASE Start(o)
    <2>1. pc[o] = "waiting" /\ seen[o] = {}
      BY <1>2 DEF Start, StartGet, StartCheck, StartReboot, MakePreview, StartApply, Turn,
                  StageInv, Loads
    <2>2. CASE \E answer : Leave(o, answer)
      BY <2>2 DEF Leave, TypeTask, Writes, Loads
    <2>3. CASE \E place \in {"loading", "reserving", "session", "rebooting"} : Take(o, place)
      BY <2>1, <2>3 DEF Take, TypeTask, Writes, Loads
    <2> QED
      BY <1>2, <2>2, <2>3 DEF Start, StartGet, StartCheck, StartReboot, MakePreview, StartApply
  <1>3. CASE OpStep(o)
    <2>1. UNCHANGED kind
      BY <1>3 DEF OpStep, ReadSection, ReadFails, FinishGet, CompareRevision, SendBegin,
                  SendSection, SendCommit, Packet, WriteCut, FinishApply, ReserveProbe,
                  FinishCheck, RebootStep, Interrupt, request
    <2>2. CASE \E answer \in Outcomes : Leave(o, answer)
      BY <2>1, <2>2 DEF Leave, TypeTask, Writes, Loads
    <2>3. CASE ReadSection(o)
      BY <2>1, <2>3 DEF ReadSection, TypeTask, StageInv
    <2>4. CASE CompareRevision(o) /\ StillShown(o)
      BY <2>1, <2>4 DEF CompareRevision, TypeTask
    <2>5. CASE SendSection(o)
      BY <2>1, <2>2, <2>5 DEF SendSection, TypeTask, StageInv, Writes, Loads, Outcomes
    <2>6. CASE SendBegin(o) \/ SendCommit(o)
      BY <2>1, <2>2, <2>6 DEF SendBegin, SendCommit, Packet, Go, TypeTask, StageInv, Writes,
                              Loads, Outcomes
    <2>7. CASE ReserveProbe(o) \/ RebootStep(o)
      BY <2>1, <2>2, <2>7 DEF ReserveProbe, RebootStep, Go, TypeTask, StageInv, Writes, Loads,
                              Outcomes
    <2> QED
      BY <1>3, <2>2, <2>3, <2>4, <2>5, <2>6, <2>7
         DEF OpStep, ReadFails, FinishGet, CompareRevision, WriteCut, FinishApply, FinishCheck,
             Interrupt, Outcomes
  <1> QED BY <1>1, <1>2, <1>3

\* Only applies write, and what was read belongs to a load under way.
LEMMA StageStep == TypeOK /\ StageInv /\ [Next]_vars => StageInv'
  <1> SUFFICES ASSUME TypeOK, StageInv, [Next]_vars, NEW q \in Ops
               PROVE  /\ pc'[q] \in Writes \cup {"readback"} => kind'[q] = "apply"
                      /\ pc'[q] \notin Loads => seen'[q] = {}
    BY DEF StageInv
  <1>1. CASE UNCHANGED <<pc, seen, kind>>
    BY <1>1 DEF StageInv
  <1>2. ASSUME NEW o \in Ops, Request(o) \/ Start(o) \/ OpStep(o)
        PROVE  /\ pc'[q] \in Writes \cup {"readback"} => kind'[q] = "apply"
               /\ pc'[q] \notin Loads => seen'[q] = {}
    BY <1>2, OthersStay, OwnStep DEF StageInv
  <1> QED BY <1>1, <1>2, EnvStays DEF Next, vars, task, request

-----------------------------------------------------------------------------
(* The fence *)

\* Behind the fence an operation does nothing but end.
LEMMA FencedOnlyEnds ==
  ASSUME TypeOK, FenceInv, ~accepting, NEW o \in Ops, Request(o) \/ Start(o) \/ OpStep(o)
  PROVE  Interrupt(o)
  <1>1. ~Request(o)
    BY DEF Request, RequestGet, RequestPreview, RequestApply, RequestCheck, RequestReboot, Ask
  <1>2. o \in Active => ~Free(o)
    BY DEF FenceInv, Free
  <1>3. ~Start(o)
    BY <1>2 DEF Start, StartGet, StartCheck, StartReboot, MakePreview, StartApply, Turn, Active
  <1>4. OpStep(o) => Interrupt(o)
    BY <1>2 DEF OpStep, ReadSection, ReadFails, FinishGet, CompareRevision, SendBegin,
                SendSection, SendCommit, Packet, WriteCut, FinishApply, ReserveProbe,
                FinishCheck, RebootStep, Loaded, Active, Holding, Writes, Loads
  <1> QED BY <1>1, <1>3, <1>4

\* The steps of the operations leave the entry alone.
LEMMA EntryStays ==
  ASSUME NEW o \in Ops, Request(o) \/ Start(o) \/ OpStep(o)
  PROVE  UNCHANGED entry
  BY DEF Request, RequestGet, RequestPreview, RequestApply, RequestCheck, RequestReboot, Ask,
         Start, StartGet, StartCheck, StartReboot, MakePreview, StartApply, OpStep, ReadSection,
         ReadFails, FinishGet, CompareRevision, SendBegin, SendSection, SendCommit, Packet,
         WriteCut, FinishApply, ReserveProbe, FinishCheck, RebootStep, Interrupt

\* The fence keeps what it keeps.
LEMMA FenceStep == TypeOK /\ FenceInv /\ [Next]_vars => FenceInv'
  <1> SUFFICES ASSUME TypeOK, FenceInv, [Next]_vars PROVE FenceInv'
    OBVIOUS
  <1> USE TypeParts
  <1>1. CASE UNCHANGED vars
    BY <1>1 DEF FenceInv, vars, manager, task, entry, Active
  <1>2. ASSUME NEW o \in Ops, Request(o) \/ Start(o) \/ OpStep(o)
        PROVE  FenceInv'
    <2>1. UNCHANGED <<accepting, cancelled, life>>
      BY <1>2, EntryStays DEF entry
    <2>2. CASE accepting
      BY <2>1, <2>2 DEF FenceInv
    <2>3. CASE ~accepting
      <3>1. Interrupt(o)
        BY <1>2, <2>3, FencedOnlyEnds
      <3>2. Active' \subseteq Active
        BY <3>1 DEF Interrupt, Leave, Active, TypeTask, Holding, Writes, Loads
      <3>3. UNCHANGED <<snapshots, previews>>
        BY <3>1 DEF Interrupt, manager
      <3> QED BY <2>1, <3>2, <3>3 DEF FenceInv
    <2> QED BY <2>2, <2>3
  <1>3. CASE \E o \in Ops : Expire(o)
    BY <1>3 DEF Expire, FenceInv, task, entry, Active
  <1>4. CASE (\E g \in Gateways : Disconnect(g) \/ Reconnect(g)) \/ EditNode
    BY <1>4 DEF Disconnect, Reconnect, EditNode, FenceInv, manager, task, entry, Active
  <1>5. CASE Quiesce
    BY <1>5 DEF Quiesce, FenceInv, task, Active
  <1>6. CASE FenceDecided
    BY <1>6 DEF FenceDecided, FenceInv, manager, task, Active
  <1>7. CASE Resume
    BY <1>7 DEF Resume, FenceInv, manager, task, Active
  <1>8. CASE CloseEntry
    BY <1>8 DEF CloseEntry, FenceInv, task, Active
  <1> QED BY <1>1, <1>2, <1>3, <1>4, <1>5, <1>6, <1>7, <1>8 DEF Next

\* What the fence promises of a step.
LEMMA FenceStepHolds ==
  ASSUME TypeOK, FenceInv, [Next]_vars, ~accepting
  PROVE  /\ previews = {} /\ \A g \in Gateways : snapshots[g] = None
         /\ \A o \in Ops : pc'[o] \in {pc[o], "done"}
         /\ life \in {"fenced", "closed"} => Active = {}
  <1>1. /\ previews = {} /\ \A g \in Gateways : snapshots[g] = None
        /\ life \in {"fenced", "closed"} => Active = {}
    BY DEF FenceInv
  <1>2. ASSUME NEW q \in Ops PROVE pc'[q] \in {pc[q], "done"}
    <2>1. CASE UNCHANGED pc
      BY <2>1
    <2>2. ASSUME NEW o \in Ops, Request(o) \/ Start(o) \/ OpStep(o)
          PROVE  pc'[q] \in {pc[q], "done"}
      BY <2>2, FencedOnlyEnds, TypeParts DEF Interrupt, Leave, TypeTask
    <2> QED BY <2>1, <2>2, EnvStays DEF Next, vars, task
  <1> QED BY <1>1, <1>2

-----------------------------------------------------------------------------
(* Previews *)

\* What has been answered is not taken up again.
LEMMA DoneStays ==
  ASSUME TypeOK, [Next]_vars, NEW q \in Ops, pc[q] = "done"
  PROVE  /\ pc'[q] = "done" /\ plan'[q] = plan[q] /\ kind'[q] = kind[q] /\ gw'[q] = gw[q]
         /\ of'[q] = of[q]
  <1>1. CASE UNCHANGED <<pc, plan, kind, gw, of>>
    BY <1>1
  <1>2. ASSUME NEW o \in Ops, Request(o) \/ Start(o) \/ OpStep(o)
        PROVE  o # q
    <2>1. pc[o] # "done"
      BY <1>2 DEF Request, RequestGet, RequestPreview, RequestApply, RequestCheck,
         RequestReboot, Ask, Start, StartGet, StartCheck, StartReboot, MakePreview, StartApply,
         Turn, OpStep, ReadSection, ReadFails, FinishGet, CompareRevision, SendBegin,
         SendSection, SendCommit, Packet, WriteCut, FinishApply, ReserveProbe, FinishCheck,
         RebootStep, Interrupt, Loaded, Writes, Loads
    <2> QED BY <2>1
  <1>3. ASSUME NEW o \in Ops, Request(o) \/ Start(o) \/ OpStep(o)
        PROVE  /\ pc'[q] = "done" /\ plan'[q] = plan[q] /\ kind'[q] = kind[q]
               /\ gw'[q] = gw[q] /\ of'[q] = of[q]
    BY <1>2, <1>3, OthersStay
  <1> QED BY <1>1, <1>3, EnvStays DEF Next, vars, task, request, manager

\* When previews only end, and a snapshot moves only away from under none of
\* them, the rest stays current.
LEMMA DraftsShrink ==
  ASSUME TypeOK, PreviewInv, DraftsAreCurrent, [Next]_vars, previews' \subseteq previews,
         \A p \in previews' : snapshots'[plan[p].gw] = snapshots[plan[p].gw]
  PROVE  DraftsAreCurrent' /\ \A p \in previews' : pc'[p] = "done" /\ Drafted(p)' # {}
  <1>1. \A p \in previews' : p \in Ops /\ pc[p] = "done" /\ Drafted(p) # {}
    BY TypeParts DEF TypeMgr, PreviewInv
  <1>2. \A p \in previews' : pc'[p] = "done" /\ plan'[p] = plan[p]
    BY <1>1, DoneStays
  <1>3. DraftsAreCurrent'
    BY <1>2 DEF DraftsAreCurrent
  <1> QED BY <1>1, <1>2, <1>3 DEF Drafted

\* No step but a new preview moves a snapshot away from under a preview.
LEMMA SnapshotsMove ==
  ASSUME TypeOK, StageInv, ApplyInv, [Next]_vars, ~\E o \in Ops : MakePreview(o)
  PROVE  /\ previews' \subseteq previews
         /\ \A p \in previews' : snapshots'[plan[p].gw] = snapshots[plan[p].gw]
  <1> USE TypeParts
  <1> DEFINE Fine == /\ previews' \subseteq previews
                     /\ \A p \in previews' : snapshots'[plan[p].gw] = snapshots[plan[p].gw]
  <1>1. CASE UNCHANGED snapshots /\ previews' \subseteq previews
    BY <1>1
  <1>2. CASE Quiesce \/ CloseEntry
    BY <1>2 DEF Quiesce, CloseEntry
  <1>3. ASSUME NEW o \in Ops, StartReboot(o) \/ FinishGet(o) PROVE Fine
    <2>1. /\ previews' = Invalidated(gw[o])
          /\ \E shown : snapshots' = [snapshots EXCEPT ![gw[o]] = shown]
      BY <1>3 DEF StartReboot, FinishGet
    <2>2. \A p \in previews' : p \in previews /\ plan[p].gw # gw[o]
      BY <2>1 DEF Invalidated
    <2>3. \A p \in previews : plan[p].gw \in Gateways
      BY DEF TypeMgr, Plans
    <2> QED BY <2>1, <2>2, <2>3 DEF TypeMgr
  <1>4. ASSUME NEW o \in Ops, CompareRevision(o) \/ FinishApply(o) PROVE Fine
    <2>1. /\ previews' = previews
          /\ \E shown : snapshots' = [snapshots EXCEPT ![gw[o]] = shown] \/ snapshots' = snapshots
      BY <1>4 DEF CompareRevision, FinishApply
    <2>2. Applying(o)
      BY <1>4 DEF CompareRevision, FinishApply, Loaded, Applying, Loads
    <2>3. \A p \in previews : plan[p].gw # gw[o]
      BY <2>2 DEF ApplyInv
    <2>4. \A p \in previews : plan[p].gw \in Gateways
      BY DEF TypeMgr, Plans
    <2> QED BY <2>1, <2>3, <2>4 DEF TypeMgr
  <1>5. ASSUME NEW o \in Ops, Request(o) \/ Start(o) \/ OpStep(o) PROVE Fine
    <2>1. CASE Request(o)
      BY <1>1, <2>1 DEF Request, RequestGet, RequestPreview, RequestApply, RequestCheck,
                        RequestReboot, Ask
    <2>2. CASE Start(o)
      BY <1>1, <1>3, <2>2 DEF Start, StartGet, StartCheck, StartApply, Consumed, manager
    <2>3. CASE OpStep(o)
      BY <1>1, <1>3, <1>4, <2>3 DEF OpStep, ReadSection, ReadFails, SendBegin, SendSection,
         SendCommit, Packet, WriteCut, ReserveProbe, FinishCheck, RebootStep, Interrupt, manager
    <2> QED BY <1>5, <2>1, <2>2, <2>3
  <1>6. CASE \/ \E o \in Ops : Expire(o)
             \/ \E g \in Gateways : Disconnect(g) \/ Reconnect(g)
             \/ EditNode \/ FenceDecided \/ Resume
    BY <1>1, <1>6 DEF Expire, Disconnect, Reconnect, EditNode, FenceDecided, Resume, manager
  <1> QED BY <1>1, <1>2, <1>5, <1>6 DEF Next, vars, manager

\* A preview that waits will lock the gateway it is for.
LEMMA WaitingStep ==
  ASSUME TypeOK, PreviewInv, [Next]_vars, NEW q \in Ops, kind'[q] = "preview",
         pc'[q] = "waiting"
  PROVE  plan'[q].gw = gw'[q]
  <1> USE TypeParts
  <1>1. CASE UNCHANGED <<pc, plan, kind, gw>>
    BY <1>1 DEF PreviewInv
  <1>2. ASSUME NEW o \in Ops, Request(o) \/ Start(o) \/ OpStep(o)
        PROVE  plan'[q].gw = gw'[q]
    <2>1. CASE q # o
      BY <1>2, <2>1, OthersStay DEF PreviewInv
    <2>2. CASE q = o /\ Request(o)
      <3>1. PICK g \in Gateways : RequestPreview(o, g)
        BY <2>2 DEF Request, RequestGet, RequestApply, RequestCheck, RequestReboot, Ask, TypeMgr
      <3>2. plan'[o].gw = g /\ gw'[o] = g
        BY <3>1 DEF RequestPreview, Ask, TypeMgr
      <3> QED BY <2>2, <3>2
    <2>3. CASE q = o /\ Start(o)
      BY <2>3 DEF Start, StartGet, StartCheck, StartReboot, MakePreview, StartApply, Take,
                  Leave, TypeTask
    <2>4. CASE q = o /\ OpStep(o)
      <3>1. pc[o] # "waiting" \/ Interrupt(o)
        BY <2>4 DEF OpStep, ReadSection, ReadFails, FinishGet, CompareRevision, SendBegin,
           SendSection, SendCommit, Packet, WriteCut, FinishApply, ReserveProbe, FinishCheck,
           RebootStep, Loaded, Writes, Loads
      <3>2. pc'[o] # "waiting"
        BY <3>1, <2>4 DEF OpStep, ReadSection, ReadFails, FinishGet, CompareRevision,
           SendBegin, SendSection, SendCommit, Packet, WriteCut, FinishApply, ReserveProbe,
           FinishCheck, RebootStep, Interrupt, Leave, Go, TypeTask
      <3> QED BY <2>4, <3>2
    <2> QED BY <1>2, <2>1, <2>2, <2>3, <2>4
  <1> QED BY <1>1, <1>2, EnvStays DEF Next, vars, task, request, manager

\* A new preview is for what its gateway shows, and the only one of it.
LEMMA MakePreviewStep ==
  ASSUME TypeOK, PreviewInv, DraftsAreCurrent, [Next]_vars, NEW o \in Ops, MakePreview(o)
  PROVE  DraftsAreCurrent' /\ \A p \in previews' : pc'[p] = "done" /\ Drafted(p)' # {}
  <1> USE TypeParts
  <1> DEFINE changed == [x \in Paths |-> IF plan[o].want[x] = plan[o].rev[x] THEN None
                                         ELSE plan[o].want[x]]
  <1>1. CASE UNCHANGED <<previews, plan>>
    BY <1>1, DraftsShrink DEF MakePreview
  <1>2. CASE /\ snapshots[gw[o]] = plan[o].rev /\ \E x \in Paths : changed[x] # None
             /\ Leave(o, "ready") /\ plan' = [plan EXCEPT ![o].want = changed]
             /\ previews' = Invalidated(gw[o]) \cup {o}
    <2>1. plan[o].gw = gw[o] /\ snapshots' = snapshots /\ plan[o] \in Plans
      BY DEF MakePreview, Turn, PreviewInv, TypeMgr
    <2>2. plan'[o].gw = gw[o] /\ plan'[o].rev = plan[o].rev /\ plan'[o].want = changed
      BY <1>2, <2>1 DEF TypeMgr, Plans
    <2>3. \A p \in Invalidated(gw[o]) :
            /\ p \in Ops \ {o} /\ p \in previews /\ plan'[p] = plan[p] /\ plan[p].gw # gw[o]
            /\ pc'[p] = "done" /\ Drafted(p) # {}
      <3>1. \A p \in previews : p \in Ops /\ pc[p] = "done" /\ Drafted(p) # {}
        BY DEF PreviewInv, TypeMgr
      <3>2. \A p \in previews : pc'[p] = "done" /\ plan'[p] = plan[p]
        BY <3>1, DoneStays
      <3>3. pc[o] # "done"
        BY DEF MakePreview, Turn
      <3> QED BY <3>1, <3>2, <3>3 DEF Invalidated
    <2>4. DraftsAreCurrent'
      <3>1. previews' = Invalidated(gw[o]) \cup {o} /\ snapshots[gw[o]] = plan[o].rev
        BY <1>2
      <3>2. \A p \in previews : snapshots[plan[p].gw] = plan[p].rev
        BY DEF DraftsAreCurrent
      <3>3. \A p \in previews' : snapshots'[plan'[p].gw] = plan'[p].rev
        BY ONLY <3>1, <3>2, <2>1, <2>2, <2>3
      <3>4. \A p, q \in previews' : plan'[p].gw = plan'[q].gw => p = q
        <4>1. \A p, q \in previews : plan[p].gw = plan[q].gw => p = q
          BY DEF DraftsAreCurrent
        <4> QED BY ONLY <3>1, <4>1, <2>2, <2>3
      <3> QED BY <3>3, <3>4 DEF DraftsAreCurrent
    <2>5. pc'[o] = "done" /\ Drafted(o)' # {}
      BY <1>2, <2>2 DEF Leave, TypeTask, Drafted
    <2>6. \A p \in Invalidated(gw[o]) : Drafted(p)' # {}
      BY <2>3 DEF Drafted
    <2> QED BY <1>2, <2>3, <2>4, <2>5, <2>6
  <1> QED BY <1>1, <1>2 DEF MakePreview

\* The previews stay current.
LEMMA PreviewStep ==
  ASSUME TypeOK, StageInv, PreviewInv, DraftsAreCurrent, ApplyInv, [Next]_vars
  PROVE  PreviewInv' /\ DraftsAreCurrent'
  <1>1. DraftsAreCurrent' /\ \A p \in previews' : pc'[p] = "done" /\ Drafted(p)' # {}
    <2>1. CASE \E o \in Ops : MakePreview(o)
      BY <2>1, MakePreviewStep
    <2>2. CASE ~\E o \in Ops : MakePreview(o)
      BY <2>2, SnapshotsMove, DraftsShrink
    <2> QED BY <2>1, <2>2
  <1>2. \A p \in Ops : kind'[p] = "preview" /\ pc'[p] = "waiting" => plan'[p].gw = gw'[p]
    BY WaitingStep
  <1> QED BY <1>1, <1>2 DEF PreviewInv

-----------------------------------------------------------------------------
(* One lock, one owner *)

\* Two operations that await with a lock have different gateways, and so has one
\* that is about to take a free lock.
LEMMA LocksApart ==
  ASSUME TypeOK, NEW o \in Ops, NEW q \in Ops, o # q, pc[q] \in Holding,
         pc[o] \in Holding \/ lock[gw[o]] = None
  PROVE  gw[o] # gw[q]
  <1>1. gw[o] \in Gateways /\ gw[q] \in Gateways
    BY TypeParts DEF TypeMgr
  <1>2. lock[gw[q]] = q
    BY <1>1, TypeParts DEF LockInv
  <1>3. lock[gw[o]] = o \/ lock[gw[o]] = None
    BY <1>1, TypeParts DEF LockInv
  <1> QED BY <1>2, <1>3, RemoteAssumption

\* A preview that was not alive before the step is the one the step has made.
LEMMA PreviewsGrow ==
  ASSUME TypeOK, [Next]_vars, NEW r, r \in previews'
  PROVE  r \notin previews => r \in Ops /\ MakePreview(r)
  <1>1. CASE previews' \subseteq previews
    BY <1>1
  <1>2. ASSUME NEW o \in Ops, Request(o) \/ Start(o) \/ OpStep(o)
        PROVE  r \notin previews => r = o /\ MakePreview(o)
    BY <1>2 DEF Request, RequestGet, RequestPreview, RequestApply, RequestCheck, RequestReboot,
       Ask, Start, StartGet, StartCheck, StartReboot, MakePreview, StartApply, Consumed,
       Invalidated, OpStep, ReadSection, ReadFails, FinishGet, CompareRevision, SendBegin,
       SendSection, SendCommit, Packet, WriteCut, FinishApply, ReserveProbe, FinishCheck,
       RebootStep, Interrupt, manager
  <1>3. CASE \/ \E o \in Ops : Expire(o)
             \/ \E g \in Gateways : Disconnect(g) \/ Reconnect(g)
             \/ EditNode \/ Quiesce \/ FenceDecided \/ Resume \/ CloseEntry
    BY <1>3 DEF Expire, Disconnect, Reconnect, EditNode, Quiesce, FenceDecided, Resume,
                CloseEntry, manager
  <1> QED BY <1>1, <1>2, <1>3 DEF Next, vars, manager

\* Only a section packet of an apply counts as one of its preview.
LEMMA SentMoves ==
  ASSUME TypeOK, [Next]_vars, NEW p \in Ops, \A o \in Ops : SendSection(o) => of[o] # p
  PROVE  sent'[p] = sent[p]
  <1>1. CASE UNCHANGED sent
    BY <1>1
  <1>2. ASSUME NEW o \in Ops, SendSection(o) PROVE sent'[p] = sent[p]
    BY <1>2, TypeParts DEF SendSection, TypeMgr
  <1>3. ASSUME NEW o \in Ops, Request(o) \/ Start(o) \/ OpStep(o)
        PROVE  SendSection(o) \/ UNCHANGED sent
    BY <1>3 DEF Request, RequestGet, RequestPreview, RequestApply, RequestCheck, RequestReboot,
       Ask, Start, StartGet, StartCheck, StartReboot, MakePreview, StartApply, OpStep,
       ReadSection, ReadFails, FinishGet, CompareRevision, SendBegin, SendCommit, Packet,
       WriteCut, FinishApply, ReserveProbe, FinishCheck, RebootStep, Interrupt, writes
  <1> QED BY <1>1, <1>2, <1>3, EnvStays DEF Next, vars, writes

\* The packet of an apply is for a section that was never sent.
LEMMA SectionUnsent ==
  ASSUME TypeOK, StageInv, ApplyInv, NEW o \in Ops, SendSection(o)
  PROVE  /\ Applying(o) /\ of[o] \in Ops /\ NextOf(todo[o]) \in todo[o]
         /\ todo[o] \subseteq Sections
         /\ sent[of[o]][NextOf(todo[o])] = 0
         /\ of[o] \notin previews /\ pc[of[o]] = "done"
  <1>1. pc[o] = "writing" /\ kind[o] = "apply"
    BY DEF SendSection, StageInv, Writes
  <1>2. Applying(o)
    BY <1>1 DEF Applying, Writes
  <1>3. todo[o] \in SUBSET Sections /\ of[o] \in Ops
    BY TypeParts DEF TypeTask, TypeMgr
  <1>4. todo[o] # {}
    BY <1>1, <1>2 DEF ApplyInv
  <1>5. NextOf(todo[o]) \in todo[o]
    BY <1>3, <1>4, NextOfIn
  <1> QED BY <1>1, <1>2, <1>3, <1>5 DEF ApplyInv

\* Nothing is sent for a preview that is alive or still to be made.
LEMMA UnsentStep ==
  ASSUME TypeOK, StageInv, UnsentInv, ApplyInv, [Next]_vars
  PROVE  UnsentInv'
  <1> SUFFICES ASSUME NEW q \in Ops, q \in previews' \/ pc'[q] # "done", NEW s \in Sections
               PROVE  sent'[q][s] = 0
    BY DEF UnsentInv
  <1>1. q \in previews \/ pc[q] # "done"
    BY PreviewsGrow, DoneStays DEF MakePreview, Turn
  <1>2. \A o \in Ops : SendSection(o) => of[o] # q
    BY <1>1, SectionUnsent
  <1>3. sent'[q] = sent[q]
    BY <1>2, SentMoves
  <1> QED BY <1>1, <1>3 DEF UnsentInv

\* No section of a preview is sent twice.
LEMMA SentOnceStep ==
  ASSUME TypeOK, StageInv, SentOnce, ApplyInv, [Next]_vars
  PROVE  SentOnce'
  <1> SUFFICES ASSUME NEW p \in Ops, NEW s \in Sections PROVE sent'[p][s] <= 1
    BY DEF SentOnce
  <1>1. CASE \A o \in Ops : SendSection(o) => of[o] # p
    BY <1>1, SentMoves DEF SentOnce
  <1>2. ASSUME NEW o \in Ops, SendSection(o), of[o] = p PROVE sent'[p][s] <= 1
    <2>1. sent' = [sent EXCEPT ![p][NextOf(todo[o])] = IF @ < 2 THEN @ + 1 ELSE @]
      BY <1>2 DEF SendSection
    <2>2. sent[p] \in [Sections -> 0..2] /\ sent \in [Ops -> [Sections -> 0..2]]
      BY TypeParts DEF TypeMgr
    <2>3. NextOf(todo[o]) \in Sections /\ sent[p][NextOf(todo[o])] = 0
      BY <1>2, SectionUnsent
    <2>4. CASE s = NextOf(todo[o])
      BY ONLY <2>1, <2>2, <2>3, <2>4, p \in Ops
    <2>5. CASE s # NextOf(todo[o])
      <3>1. sent'[p][s] = sent[p][s]
        BY ONLY <2>1, <2>2, <2>5, p \in Ops, s \in Sections
      <3> QED BY <3>1 DEF SentOnce
    <2> QED BY <2>4, <2>5
  <1> QED BY <1>1, <1>2

-----------------------------------------------------------------------------
(* An apply owns its preview *)

\* What ApplyInv says of one apply.
Owns(o) ==
  LET p == of[o] IN
  /\ p \notin previews /\ pc[p] = "done" /\ plan[p].gw = gw[o] /\ Drafted(p) # {}
  /\ \A q \in previews : plan[q].gw # gw[o]

Unwritten(o) ==
  LET p == of[o] IN
  /\ pc[o] \in {"begin", "writing"} => todo[o] # {}
  /\ pc[o] = "loading" => \A s \in Sections : sent[p][s] = 0
  /\ pc[o] \in {"begin", "writing"} => \A s \in todo[o] : sent[p][s] = 0

\* ApplyInv, in two parts.
LEMMA ApplyParts == ApplyInv <=> \A o \in Ops : Applying(o) => Owns(o) /\ Unwritten(o)
  BY DEF ApplyInv, Owns, Unwritten

\* The same of the next state.
LEMMA ApplyPartsNext ==
  ApplyInv' <=> \A o \in Ops : Applying(o)' => Owns(o)' /\ Unwritten(o)'
  BY DEF ApplyInv, Owns, Unwritten

\* An apply holds the lock of its gateway.
LEMMA ApplyHolds ==
  ASSUME NEW o \in Ops, Applying(o)
  PROVE  pc[o] \in Holding
  BY DEF Applying, Holding

\* An apply that goes on, whoever moves, still owns its preview.
LEMMA OwnsStays ==
  ASSUME TypeOK, PreviewInv, [Next]_vars, NEW q \in Ops, Applying(q), Owns(q),
         gw'[q] = gw[q], of'[q] = of[q]
  PROVE  Owns(q)'
  <1> DEFINE p == of[q]
  <1>0. p \in Ops
    BY TypeParts DEF TypeMgr
  <1>1. pc[p] = "done" /\ pc'[p] = "done" /\ plan'[p] = plan[p]
    BY <1>0, DoneStays DEF Owns
  <1>2. ASSUME NEW r, r \in previews'
        PROVE  r # p /\ plan'[r].gw # gw[q]
    <2>1. CASE r \in previews
      <3>1. plan[r].gw # gw[q] /\ r # p
        BY <2>1 DEF Owns
      <3>2. r \in Ops /\ pc[r] = "done"
        BY <2>1, TypeParts DEF TypeMgr, PreviewInv
      <3>3. plan'[r] = plan[r]
        BY <3>2, DoneStays
      <3> QED BY <3>1, <3>3
    <2>2. CASE r \notin previews
      <3>1. r \in Ops /\ MakePreview(r)
        BY <1>2, <2>2, PreviewsGrow
      <3>2. lock[gw[r]] = None /\ pc[r] = "waiting" /\ kind[r] = "preview"
        BY <3>1 DEF MakePreview, Turn
      <3>3. r # q
        BY <3>2 DEF Applying, Loads, Writes
      <3>4. gw[r] # gw[q]
        BY <3>1, <3>2, <3>3, ApplyHolds, LocksApart
      <3>5. plan[r].gw = gw[r] /\ plan[r] \in Plans
        BY <3>1, <3>2, TypeParts DEF PreviewInv, TypeMgr
      <3>6. plan'[r].gw = gw[r]
        BY <3>1, <3>5, TypeParts DEF MakePreview, TypeMgr, Plans
      <3> QED BY <1>1, <3>2, <3>4, <3>6
    <2> QED BY <2>1, <2>2
  <1>3. Drafted(p)' = Drafted(p)
    BY <1>1 DEF Drafted
  <1> QED BY <1>0, <1>1, <1>2, <1>3 DEF Owns, Drafted

\* The sections of an apply are its own: no other apply sends for its preview.
LEMMA SentStays ==
  ASSUME TypeOK, StageInv, ApplyInv, [Next]_vars, NEW q \in Ops, Applying(q), ~SendSection(q)
  PROVE  sent'[of[q]] = sent[of[q]]
  <1>1. of[q] \in Ops
    BY TypeParts DEF TypeMgr
  <1>2. ASSUME NEW o \in Ops, SendSection(o), of[o] = of[q] PROVE FALSE
    <2>1. Applying(o) /\ o # q
      BY <1>2, SectionUnsent
    <2>2. gw[o] = gw[q]
      BY <1>2, <2>1 DEF ApplyInv
    <2> QED BY <2>1, <2>2, ApplyHolds, LocksApart
  <1> QED BY <1>1, <1>2, SentMoves

\* An apply that has just taken its lock owns the preview it has destroyed.
LEMMA ApplyBegins ==
  ASSUME TypeOK, PreviewInv, DraftsAreCurrent, UnsentInv, [Next]_vars, NEW q \in Ops,
         StartApply(q), pc'[q] # "done"
  PROVE  Owns(q)' /\ Unwritten(q)'
  <1> DEFINE p == of[q]
  <1>1. /\ p \in previews /\ plan[p].gw = gw[q] /\ previews' = previews \ {p}
        /\ pc'[q] = "loading" /\ UNCHANGED <<plan, gw, of, sent>>
    BY TypeParts DEF StartApply, Consumed, Leave, Take, TypeTask, request, writes
  <1>2. p \in Ops /\ pc[p] = "done" /\ Drafted(p) # {}
    BY <1>1, TypeParts DEF PreviewInv, TypeMgr
  <1>3. pc'[p] = "done"
    BY <1>2, DoneStays
  <1>4. \A r \in previews' : plan'[r].gw # gw'[q]
    BY <1>1 DEF DraftsAreCurrent
  <1>5. Drafted(p)' # {}
    BY <1>1, <1>2 DEF Drafted
  <1>6. Owns(q)'
    BY <1>1, <1>3, <1>4, <1>5 DEF Owns, Drafted
  <1>7. Unwritten(q)'
    BY <1>1, <1>2 DEF Unwritten, UnsentInv
  <1> QED BY <1>6, <1>7

\* What is left to write is unsent after every step of the apply.
LEMMA ApplyGoesOn ==
  ASSUME TypeOK, StageInv, ApplyInv, [Next]_vars, NEW q \in Ops, OpStep(q), Applying(q)'
  PROVE  Applying(q) /\ Unwritten(q)' /\ gw'[q] = gw[q] /\ of'[q] = of[q]
  <1> USE TypeParts
  <1> DEFINE p == of[q]
  <1>0. /\ UNCHANGED <<kind, gw, of, plan>> /\ pc'[q] # "done"
    BY DEF OpStep, ReadSection, ReadFails, FinishGet, CompareRevision, SendBegin, SendSection,
       SendCommit, Packet, WriteCut, FinishApply, ReserveProbe, FinishCheck, RebootStep,
       Interrupt, manager, request, Applying, Loads, Writes
  <1>1. \A answer : ~Leave(q, answer)
    BY <1>0 DEF Leave, TypeTask
  <1>2. CASE ReadSection(q)
    <2>1. UNCHANGED <<pc, todo, sent>>
      BY <1>2 DEF ReadSection, writes
    <2> QED BY <1>0, <2>1, ApplyParts DEF Applying, Unwritten
  <1>3. CASE CompareRevision(q)
    <2>1. /\ pc[q] = "loading" /\ pc' = [pc EXCEPT ![q] = "begin"] /\ sent' = sent
          /\ todo' = [todo EXCEPT ![q] = Touches(p)] /\ kind[q] = "apply"
      BY <1>1, <1>3 DEF CompareRevision, Loaded, writes
    <2>2. Applying(q)
      BY <2>1 DEF Applying, Loads
    <2>3. Drafted(p) # {} /\ \A s \in Sections : sent[p][s] = 0
      BY <2>1, <2>2 DEF ApplyInv
    <2>4. Touches(p) \in SUBSET Sections /\ Touches(p) # {}
      BY <2>3, RemoteAssumption DEF Touches, Drafted
    <2>5. pc'[q] = "begin" /\ todo'[q] = Touches(p)
      BY <2>1 DEF TypeTask
    <2> QED BY <1>0, <2>1, <2>2, <2>3, <2>4, <2>5 DEF Unwritten
  <1>4. CASE SendBegin(q)
    <2>1. UNCHANGED <<todo, sent>> /\ pc[q] = "begin" /\ pc' = [pc EXCEPT ![q] = "writing"]
      BY <1>1, <1>4 DEF SendBegin, Packet, Go, writes
    <2>2. Applying(q) /\ pc'[q] = "writing"
      BY <2>1 DEF Applying, Writes, StageInv, TypeTask
    <2> QED BY <1>0, <2>1, <2>2 DEF ApplyInv, Unwritten
  <1>5. CASE SendCommit(q)
    <2>1. UNCHANGED <<todo, sent>> /\ pc[q] = "commit" /\ pc' = [pc EXCEPT ![q] = "readback"]
      BY <1>1, <1>5 DEF SendCommit, Packet, Go, writes
    <2>2. Applying(q) /\ pc'[q] = "readback"
      BY <2>1 DEF Applying, Writes, StageInv, TypeTask
    <2> QED BY <1>0, <2>1, <2>2 DEF ApplyInv, Unwritten
  <1>6. CASE SendSection(q)
    <2> DEFINE s == NextOf(todo[q])
    <2>1. /\ pc' = [pc EXCEPT ![q] = IF todo[q] = {s} THEN "commit" ELSE "writing"]
          /\ todo' = [todo EXCEPT ![q] = @ \ {s}]
          /\ sent' = [sent EXCEPT ![p][s] = IF @ < 2 THEN @ + 1 ELSE @]
          /\ pc[q] = "writing"
      BY <1>1, <1>6 DEF SendSection
    <2>2. /\ Applying(q) /\ s \in todo[q] /\ p \in Ops /\ todo[q] \subseteq Sections
      BY <1>6, SectionUnsent
    <2>3. \A t \in todo[q] : sent[p][t] = 0
      BY <2>1, <2>2 DEF ApplyInv
    <2>4. todo'[q] = todo[q] \ {s} /\ pc'[q] \in {"commit", "writing"}
          /\ (pc'[q] = "writing" => todo[q] # {s})
      BY <2>1 DEF TypeTask
    <2>5. \A t \in todo'[q] : sent'[p][t] = 0
      BY <2>1, <2>2, <2>3, <2>4 DEF TypeMgr
    <2> QED BY <1>0, <2>2, <2>4, <2>5 DEF Unwritten
  <1> QED
    BY <1>0, <1>1, <1>2, <1>3, <1>4, <1>5, <1>6
       DEF OpStep, ReadFails, FinishGet, WriteCut, FinishApply, ReserveProbe, FinishCheck,
           RebootStep, Interrupt, Go, Applying, Loads, Writes, TypeTask

\* Applies keep what they own.
LEMMA ApplyStep ==
  ASSUME TypeOK, StageInv, PreviewInv, DraftsAreCurrent, UnsentInv, ApplyInv, [Next]_vars
  PROVE  ApplyInv'
  <1> SUFFICES ASSUME NEW q \in Ops, Applying(q)' PROVE Owns(q)' /\ Unwritten(q)'
    BY ApplyPartsNext
  <1>1. ASSUME ~SendSection(q), pc'[q] = pc[q], kind'[q] = kind[q], gw'[q] = gw[q],
               of'[q] = of[q], todo'[q] = todo[q]
        PROVE  Owns(q)' /\ Unwritten(q)'
    <2>1. Applying(q)
      BY <1>1 DEF Applying
    <2>2. Owns(q) /\ Unwritten(q)
      BY <2>1, ApplyParts
    <2>3. sent'[of[q]] = sent[of[q]]
      BY <1>1, <2>1, SentStays
    <2>4. Owns(q)'
      BY <1>1, <2>1, <2>2, OwnsStays
    <2> QED BY <1>1, <2>2, <2>3, <2>4 DEF Unwritten
  <1>2. ASSUME NEW o \in Ops \ {q}, Request(o) \/ Start(o) \/ OpStep(o), ~SendSection(q)
        PROVE  Owns(q)' /\ Unwritten(q)'
    BY <1>1, <1>2, OthersStay
  <1>3. CASE Request(q)
    BY <1>3, TypeParts DEF Request, RequestGet, RequestPreview, RequestApply, RequestCheck,
       RequestReboot, Ask, Go, TypeTask, Applying, Loads, Writes
  <1>4. CASE Start(q)
    <2>1. StartApply(q) /\ pc'[q] # "done"
      BY <1>4, TypeParts DEF Start, StartGet, StartCheck, StartReboot, MakePreview, Take, Leave,
         Turn, TypeTask, request, Applying, Loads, Writes
    <2> QED BY <2>1, ApplyBegins
  <1>5. CASE OpStep(q)
    BY <1>5, ApplyGoesOn, ApplyParts, OwnsStays
  <1>6. CASE ~SendSection(q) /\ UNCHANGED <<pc, kind, gw, of, todo>>
    BY <1>1, <1>6
  <1>7. SendSection(q) => OpStep(q)
    BY DEF OpStep
  <1> QED
    BY <1>2, <1>3, <1>4, <1>5, <1>6, <1>7, EnvStays DEF Next, vars, task, request

-----------------------------------------------------------------------------
(* What an apply knows of the node *)

\* What NodeInv says of one apply that nobody else has disturbed.
Known(o) ==
  LET p == of[o] IN
  /\ \A x \in Paths : SectionOf[x] \in seen[o] => read[o][x] = node[x]
  /\ pc[o] = "begin" => node = plan[p].rev
  /\ pc[o] \in {"writing", "commit", "readback"} =>
       \A x \in Paths : node[x] \in {plan[p].rev[x], Planned(p)[x]}

\* The invariant, by applies.
LEMMA NodeParts == NodeInv <=> \A o \in Ops : Applying(o) /\ touched[o] = {} => Known(o)
  BY DEF NodeInv, Known

\* The same of the next state.
LEMMA NodePartsNext == NodeInv' <=> \A o \in Ops : (Applying(o) /\ touched[o] = {} => Known(o))'
  BY DEF NodeInv, Known

\* Whoever holds a lock and is not touched sees no change but its own.
LEMMA NodeUntouched ==
  ASSUME TypeOK, [Next]_vars, NEW q \in Ops, pc[q] \in Holding, touched'[q] = {},
         ~SendSection(q)
  PROVE  touched[q] = {} /\ node' = node
  <1> USE TypeParts
  <1>1. CASE EditNode
    <2>1. PICK x \in Paths : Touch(None, {x})
      BY <1>1 DEF EditNode
    <2>2. touched'[q] = touched[q] \cup {x}
      BY <2>1, RemoteAssumption DEF Touch
    <2> QED BY <2>2
  <1>2. ASSUME NEW o \in Ops, SendSection(o) PROVE touched[q] = {} /\ node' = node
    <2>1. o # q
      BY <1>2
    <2>2. touched'[q] = touched[q] \cup {x \in Paths : node'[x] # node[x]}
      BY <1>2, <2>1 DEF SendSection, Touch
    <2>3. node \in Nodes /\ node' \in Nodes
      BY <1>2, TypeStep, TypePartsNext DEF TypeEnv
    <2> QED BY <2>2, <2>3 DEF Nodes
  <1>3. ASSUME NEW o \in Ops, Start(o) PROVE touched[q] = {} /\ node' = node
    <2>1. o # q
      BY <1>3 DEF Start, StartGet, StartCheck, StartReboot, MakePreview, StartApply, Turn,
         Holding, Loads, Writes
    <2>2. node' = node /\ touched'[q] = touched[q]
      BY <1>3, <2>1 DEF Start, StartGet, StartCheck, StartReboot, MakePreview, StartApply, Take,
         radio, TypeEnv
    <2> QED BY <2>2
  <1>4. ASSUME NEW o \in Ops, Request(o) \/ OpStep(o), ~SendSection(o) PROVE UNCHANGED radio
    BY <1>4 DEF Request, RequestGet, RequestPreview, RequestApply, RequestCheck, RequestReboot,
       Ask, OpStep, ReadSection, ReadFails, FinishGet, CompareRevision, SendBegin, SendCommit,
       Packet, WriteCut, FinishApply, ReserveProbe, FinishCheck, RebootStep, Interrupt
  <1>5. ASSUME \/ \E o \in Ops : Expire(o)
               \/ \E g \in Gateways : Disconnect(g) \/ Reconnect(g)
               \/ Quiesce \/ FenceDecided \/ Resume \/ CloseEntry
        PROVE  UNCHANGED radio
    BY <1>5 DEF Expire, Disconnect, Reconnect, Quiesce, FenceDecided, Resume, CloseEntry
  <1> QED BY <1>1, <1>2, <1>3, <1>4, <1>5 DEF Next, vars, radio

\* While neither the node nor the apply moves, what it knows stays true.
LEMMA KnownStays ==
  ASSUME NEW q \in Ops, Known(q), node' = node, pc'[q] = pc[q], seen'[q] = seen[q],
         read'[q] = read[q], of'[q] = of[q], plan'[of[q]] = plan[of[q]]
  PROVE  Known(q)'
  <1>1. Planned(of[q])' = Planned(of[q])
    BY DEF Planned
  <1> QED BY <1>1 DEF Known

\* A section packet leaves the node with what was shown and the draft.
LEMMA SectionWritten ==
  ASSUME TypeOK, NEW q \in Ops, SendSection(q), Known(q)
  PROVE  \A x \in Paths : node'[x] \in {plan[of[q]].rev[x], Planned(of[q])[x]}
  <1> DEFINE s == NextOf(todo[q])
             written == [x \in Paths |-> IF SectionOf[x] = s THEN Planned(of[q])[x]
                                         ELSE node[x]]
  <1>1. node' = written \/ node' = node
    BY DEF SendSection
  <1>2. \A x \in Paths : node[x] \in {plan[of[q]].rev[x], Planned(of[q])[x]}
    BY DEF SendSection, Known
  <1> QED BY <1>1, <1>2

\* An apply has read the whole node as it is.
LEMMA ReadWhole ==
  ASSUME TypeOK, NEW q \in Ops, seen[q] = Sections, Known(q)
  PROVE  read[q] = node
  <1>1. read[q] \in Nodes /\ node \in Nodes
    BY TypeParts DEF TypeTask, TypeEnv
  <1>2. \A x \in Paths : read[q][x] = node[x]
    BY RemoteAssumption DEF Known
  <1> QED BY <1>1, <1>2 DEF Nodes

\* An undisturbed apply knows the node after each of its own steps.
LEMMA KnownGoesOn ==
  ASSUME TypeOK, StageInv, ApplyInv, NodeInv, [Next]_vars, NEW q \in Ops, OpStep(q),
         Applying(q)', touched'[q] = {}
  PROVE  Known(q)'
  <1> USE TypeParts
  <1> DEFINE p == of[q]
  <1>0. /\ UNCHANGED <<kind, gw, of, plan>> /\ pc'[q] # "done"
    BY DEF OpStep, ReadSection, ReadFails, FinishGet, CompareRevision, SendBegin, SendSection,
       SendCommit, Packet, WriteCut, FinishApply, ReserveProbe, FinishCheck, RebootStep,
       Interrupt, manager, request, Applying, Loads, Writes
  <1>1. \A answer : ~Leave(q, answer)
    BY <1>0 DEF Leave, TypeTask
  <1>2. Applying(q) /\ p \in Ops
    BY ApplyGoesOn DEF TypeMgr
  <1>3. ~SendSection(q) => touched[q] = {} /\ node' = node
    BY <1>2, ApplyHolds, NodeUntouched
  <1>4. SendSection(q) => touched[q] = {}
    BY DEF SendSection, Touch
  <1>5. Known(q)
    BY <1>2, <1>3, <1>4, NodeParts
  <1>6. Planned(p)' = Planned(p)
    BY <1>0 DEF Planned
  <1>7. CASE ReadSection(q)
    <2> DEFINE s == NextOf(Sections \ seen[q])
    <2>1. /\ read'[q] = [x \in Paths |-> IF SectionOf[x] = s THEN node[x] ELSE read[q][x]]
          /\ seen'[q] = seen[q] \cup {s} /\ pc' = pc /\ pc[q] \in Loads /\ node' = node
      BY <1>7 DEF ReadSection, TypeTask, radio
    <2>2. \A x \in Paths : SectionOf[x] \in seen'[q] => read'[q][x] = node'[x]
      BY <1>5, <2>1 DEF Known
    <2> QED BY <1>0, <1>5, <1>6, <2>1, <2>2 DEF Known, Loads
  <1>8. CASE CompareRevision(q)
    <2>1. /\ read[q] = plan[p].rev /\ seen[q] = Sections
          /\ pc' = [pc EXCEPT ![q] = "begin"] /\ seen' = [seen EXCEPT ![q] = {}]
          /\ node' = node
      BY <1>1, <1>8 DEF CompareRevision, Loaded, StillShown, radio
    <2>2. node = plan[p].rev
      BY <1>5, <2>1, ReadWhole
    <2>3. pc'[q] = "begin" /\ seen'[q] = {}
      BY <2>1 DEF TypeTask
    <2> QED BY <1>0, <2>1, <2>2, <2>3 DEF Known
  <1>9. CASE SendBegin(q)
    <2>1. /\ pc[q] = "begin" /\ pc' = [pc EXCEPT ![q] = "writing"] /\ seen' = seen
          /\ node' = node
      BY <1>1, <1>9 DEF SendBegin, Packet, Go, radio
    <2>2. pc'[q] = "writing" /\ seen'[q] = {}
      BY <2>1 DEF TypeTask, StageInv, Loads
    <2>3. node = plan[p].rev
      BY <1>5, <2>1 DEF Known
    <2> QED BY <1>0, <2>1, <2>2, <2>3 DEF Known
  <1>10. CASE SendSection(q)
    <2>1. /\ pc' = [pc EXCEPT ![q] = IF todo[q] = {NextOf(todo[q])} THEN "commit"
                                     ELSE "writing"]
          /\ seen' = seen /\ pc[q] = "writing"
      BY <1>1, <1>10 DEF SendSection
    <2>2. pc'[q] \in {"writing", "commit"} /\ seen'[q] = {}
      BY <2>1 DEF TypeTask, StageInv, Loads
    <2>3. \A x \in Paths : node'[x] \in {plan[p].rev[x], Planned(p)[x]}
      BY <1>5, <1>10, SectionWritten
    <2> QED BY <1>0, <1>6, <2>2, <2>3 DEF Known
  <1>11. CASE SendCommit(q)
    <2>1. /\ pc[q] = "commit" /\ pc' = [pc EXCEPT ![q] = "readback"] /\ seen' = seen
          /\ node' = node
      BY <1>1, <1>11 DEF SendCommit, Packet, Go, radio
    <2>2. pc'[q] = "readback" /\ seen'[q] = {}
      BY <2>1 DEF TypeTask, StageInv, Loads
    <2> QED BY <1>0, <1>5, <1>6, <2>1, <2>2 DEF Known
  <1> QED
    BY <1>0, <1>1, <1>7, <1>8, <1>9, <1>10, <1>11
       DEF OpStep, ReadFails, FinishGet, WriteCut, FinishApply, ReserveProbe, FinishCheck,
           RebootStep, Interrupt, Go, Applying, Loads, Writes, TypeTask

\* What an undisturbed apply knows stays true.
LEMMA NodeStep ==
  ASSUME TypeOK, StageInv, ApplyInv, NodeInv, [Next]_vars
  PROVE  NodeInv'
  <1> SUFFICES ASSUME NEW q \in Ops, Applying(q)', touched'[q] = {} PROVE Known(q)'
    BY NodePartsNext
  <1>1. ASSUME ~SendSection(q), pc'[q] = pc[q], kind'[q] = kind[q], seen'[q] = seen[q],
               read'[q] = read[q], of'[q] = of[q]
        PROVE  Known(q)'
    <2>1. Applying(q)
      BY <1>1 DEF Applying
    <2>2. touched[q] = {} /\ node' = node
      BY <1>1, <2>1, ApplyHolds, NodeUntouched
    <2>3. of[q] \in Ops /\ pc[of[q]] = "done"
      BY <2>1, TypeParts DEF ApplyInv, TypeMgr
    <2>4. plan'[of[q]] = plan[of[q]]
      BY <2>3, DoneStays
    <2> QED BY <1>1, <2>1, <2>2, <2>4, NodeParts, KnownStays
  <1>2. ASSUME NEW o \in Ops \ {q}, Request(o) \/ Start(o) \/ OpStep(o), ~SendSection(q)
        PROVE  Known(q)'
    BY <1>1, <1>2, OthersStay
  <1>3. CASE Request(q)
    BY <1>3, TypeParts DEF Request, RequestGet, RequestPreview, RequestApply, RequestCheck,
       RequestReboot, Ask, Go, TypeTask, Applying, Loads, Writes
  <1>4. CASE Start(q)
    <2>1. StartApply(q) /\ pc'[q] # "done"
      BY <1>4, TypeParts DEF Start, StartGet, StartCheck, StartReboot, MakePreview, Take, Leave,
         Turn, TypeTask, request, Applying, Loads, Writes
    <2>2. pc'[q] = "loading" /\ seen' = seen /\ pc[q] = "waiting"
      BY <2>1, TypeParts DEF StartApply, Turn, Take, Leave, TypeTask
    <2>3. seen'[q] = {}
      BY <2>2 DEF StageInv, Loads
    <2> QED BY <2>2, <2>3 DEF Known
  <1>5. CASE OpStep(q)
    BY <1>5, KnownGoesOn
  <1>6. CASE ~SendSection(q) /\ UNCHANGED <<pc, kind, seen, read, of>>
    BY <1>1, <1>6
  <1>7. SendSection(q) => OpStep(q)
    BY DEF OpStep
  <1> QED
    BY <1>2, <1>3, <1>4, <1>5, <1>6, <1>7, EnvStays DEF Next, vars, task, request

-----------------------------------------------------------------------------
(* The theorems *)

\* The inductive invariant holds at the start.
LEMMA InvInit == Init => IInv
  <1> SUFFICES ASSUME Init PROVE IInv
    OBVIOUS
  <1>1. TypeOK
    BY TypeInit
  <1>2. /\ pc = [o \in Ops |-> "new"] /\ seen = [o \in Ops |-> {}] /\ previews = {}
        /\ snapshots = [g \in Gateways |-> None] /\ accepting = TRUE /\ life = "loaded"
        /\ sent = [p \in Ops |-> [s \in Sections |-> 0]]
    BY DEF Init
  <1>3. StageInv /\ PreviewInv /\ ApplyInv /\ NodeInv
    BY <1>2 DEF StageInv, PreviewInv, ApplyInv, NodeInv, Applying, Loads, Writes
  <1>4. FenceInv /\ DraftsAreCurrent
    BY <1>2 DEF FenceInv, DraftsAreCurrent
  <1>5. UnsentInv /\ SentOnce
    BY <1>2 DEF UnsentInv, SentOnce
  <1> QED BY <1>1, <1>3, <1>4, <1>5 DEF IInv

\* Every step keeps it.
LEMMA InvStep == IInv /\ [Next]_vars => IInv'
  BY TypeStep, StageStep, FenceStep, PreviewStep, UnsentStep, SentOnceStep, ApplyStep, NodeStep
     DEF IInv

\* The inductive invariant of the remote administration.
THEOREM Invariant == Spec => []IInv
  BY InvInit, InvStep, PTL DEF Spec

\* A preview that can still be applied is one for what its gateway shows now, and
\* there is one for a gateway at most.
THEOREM DraftsCorrect == Spec => []DraftsAreCurrent
  <1>1. IInv => DraftsAreCurrent
    BY DEF IInv
  <1> QED BY <1>1, Invariant, PTL

\* However often an apply is asked for, times out or is interrupted, no section of
\* a preview is put on the air twice.
THEOREM SentCorrect == Spec => []SentOnce
  <1>1. IInv => SentOnce
    BY DEF IInv
  <1> QED BY <1>1, Invariant, PTL

\* Behind the fence nothing is kept, work does nothing but end, and an unload goes
\* on when none is left.
THEOREM FenceCorrect == Spec => FenceHolds
  <1> DEFINE Fenced == ~accepting =>
               /\ previews = {} /\ \A g \in Gateways : snapshots[g] = None
               /\ \A o \in Ops : pc'[o] \in {pc[o], "done"}
               /\ life \in {"fenced", "closed"} => Active = {}
  <1>1. IInv /\ [Next]_vars => Fenced
    BY FenceStepHolds DEF IInv
  <1>2. IInv /\ [Next]_vars => [Fenced]_vars
    BY <1>1
  <1> QED BY <1>2, Invariant, PTL DEF Spec, FenceHolds

\* Only the readback of an apply calls it verified.
LEMMA VerifiedBy ==
  ASSUME TypeOK, [Next]_vars, NEW q \in Ops, outcome[q] # "verified", outcome'[q] = "verified"
  PROVE  FinishApply(q)
  <1> USE TypeParts DEF TypeTask
  <1>1. ASSUME NEW o \in Ops, NEW answer, Leave(o, answer)
        PROVE  o = q /\ answer = "verified"
    BY <1>1 DEF Leave
  <1>2. outcome' # outcome
    OBVIOUS
  <1>3. ASSUME NEW o \in Ops, Request(o) PROVE FALSE
    BY <1>2, <1>3 DEF Request, RequestGet, RequestPreview, RequestApply, RequestCheck,
       RequestReboot, Ask, Go
  <1>4. ASSUME NEW o \in Ops, Start(o) PROVE FALSE
    BY <1>1, <1>2, <1>4 DEF Start, StartGet, StartCheck, StartReboot, MakePreview, StartApply,
       Take
  <1>5. ASSUME NEW o \in Ops, OpStep(o), ~FinishApply(o) PROVE FALSE
    <2>1. \A answer : Leave(o, answer) => answer = "verified"
      BY <1>1
    <2>2. ASSUME SendSection(o) PROVE FALSE
      BY ONLY <2>1, <2>2, <1>2 DEF SendSection
    <2>3. ASSUME SendBegin(o) \/ SendCommit(o) PROVE FALSE
      BY ONLY <2>1, <2>3, <1>2 DEF SendBegin, SendCommit, Packet, Go
    <2>4. ASSUME ReadFails(o) \/ WriteCut(o) \/ Interrupt(o) PROVE FALSE
      BY ONLY <2>1, <2>4 DEF ReadFails, WriteCut, Interrupt
    <2>5. ASSUME ReserveProbe(o) \/ FinishCheck(o) \/ RebootStep(o) PROVE FALSE
      BY ONLY <2>1, <2>5, <1>2 DEF ReserveProbe, FinishCheck, RebootStep, Go
    <2>6. ASSUME ReadSection(o) \/ FinishGet(o) \/ CompareRevision(o) PROVE FALSE
      BY ONLY <2>1, <2>6, <1>2 DEF ReadSection, FinishGet, CompareRevision
    <2> QED BY <1>5, <2>2, <2>3, <2>4, <2>5, <2>6 DEF OpStep
  <1>6. ASSUME NEW o \in Ops, FinishApply(o) PROVE FinishApply(q)
    BY <1>1, <1>6 DEF FinishApply
  <1> QED BY <1>2, <1>3, <1>4, <1>5, <1>6, EnvStays DEF Next, vars, task

\* What an undisturbed readback calls verified is what the plan wants.
LEMMA VerifiedNode ==
  ASSUME IInv, [Next]_vars, NEW q \in Ops, FinishApply(q), outcome'[q] = "verified",
         touched[q] = {}
  PROVE  node = Planned(of[q])
  <1> USE TypeParts DEF IInv
  <1> DEFINE p == of[q]
  <1>1. /\ pc[q] = "readback" /\ kind[q] = "apply" /\ seen[q] = Sections /\ p \in Ops
    BY DEF FinishApply, Loaded, TypeMgr
  <1>2. \A x \in Paths : SectionOf[x] \in Touches(p) => read[q][x] = Planned(p)[x]
    BY DEF FinishApply, Leave, TypeTask
  <1>3. Known(q)
    BY <1>1, NodeParts DEF Applying, Loads
  <1>4. read[q] = node
    BY <1>1, <1>3, ReadWhole
  <1>5. ASSUME NEW x \in Paths PROVE node[x] = Planned(p)[x]
    <2>1. CASE SectionOf[x] \in Touches(p)
      BY <1>2, <1>4, <2>1
    <2>2. CASE SectionOf[x] \notin Touches(p)
      <3>1. plan[p].want[x] = None
        BY <2>2 DEF Touches, Drafted
      <3>2. Planned(p)[x] = plan[p].rev[x]
        BY <3>1 DEF Planned
      <3> QED BY <1>1, <1>3, <3>2 DEF Known
    <2> QED BY <2>1, <2>2
  <1>6. node \in Nodes /\ Planned(p) \in Nodes
    BY <1>1, PlannedTyped DEF TypeEnv
  <1> QED BY <1>5, <1>6 DEF Nodes

\* Unless others change the node, an apply leaves it with nothing but what was
\* shown and the draft, and verifies nothing less than the whole draft.
THEOREM OnlyDraftCorrect == Spec => OnlyTheDraft
  <1> DEFINE Draft ==
        \A o \in Ops :
          /\ pc[o] = "writing" /\ sent'[of[o]] # sent[of[o]] /\ touched[o] = {}
               => \A x \in Paths : node'[x] \in {plan[of[o]].rev[x], Planned(of[o])[x]}
          /\ outcome[o] # "verified" /\ outcome'[o] = "verified" /\ touched[o] = {}
               => node = Planned(of[o])
  <1>1. IInv /\ [Next]_vars => Draft
    <2> SUFFICES ASSUME IInv, [Next]_vars, NEW o \in Ops, touched[o] = {}
                 PROVE  /\ pc[o] = "writing" /\ sent'[of[o]] # sent[of[o]]
                             => \A x \in Paths :
                                  node'[x] \in {plan[of[o]].rev[x], Planned(of[o])[x]}
                        /\ outcome[o] # "verified" /\ outcome'[o] = "verified"
                             => node = Planned(of[o])
      OBVIOUS
    <2>1. ASSUME pc[o] = "writing", sent'[of[o]] # sent[of[o]]
          PROVE  \A x \in Paths : node'[x] \in {plan[of[o]].rev[x], Planned(of[o])[x]}
      <3>1. Applying(o)
        BY <2>1 DEF IInv, StageInv, Applying, Writes
      <3>2. SendSection(o)
        BY <2>1, <3>1, SentStays DEF IInv
      <3>3. Known(o)
        BY <3>1, NodeParts DEF IInv
      <3> QED BY <3>2, <3>3, SectionWritten DEF IInv
    <2>2. ASSUME outcome[o] # "verified", outcome'[o] = "verified"
          PROVE  node = Planned(of[o])
      BY <2>2, VerifiedBy, VerifiedNode DEF IInv
    <2> QED BY <2>1, <2>2
  <1>2. IInv /\ [Next]_vars => [Draft]_vars
    BY <1>1
  <1> QED BY <1>2, Invariant, PTL DEF Spec, OnlyTheDraft

=============================================================================

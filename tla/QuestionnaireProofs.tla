-------------------------- MODULE QuestionnaireProofs --------------------------
(***************************************************************************)
(* Proofs about ConfigAgent and Questionnaire, for any pack, any number of  *)
(* agents, handlers and businesses, any answers and any interleaving of     *)
(* their steps with edits by hand.                                          *)
(***************************************************************************)
EXTENDS Questionnaire, TLAPS

\* The throwaway copy is there only while it is validated.
HoldsCopy(a) == loc[a].files # NotCopied \/ loc[a].rest # NotCopied => loc[a].pc = "copy"

\* What an agent that applies its proposal knows of the pack, unless overtaken
Knows(a) ==
    /\ loc[a].files # NotCopied => loc[a].files = With(loc[a].file, loc[a].new)
    /\ loc[a].rest # NotCopied => loc[a].rest = other
    /\ loc[a].pc \in {"open", "write"} => With(loc[a].file, loc[a].new) \in Loads[other]

ApplyInv == TypeOK /\ \A a \in Agents : HoldsCopy(a) /\ (a \notin overtaken => Knows(a))

\* A request that creates a business, if it has read the other files as they are
CreatorHolds(h) ==
    h \in upToDate => /\ handler[h].pc = "entities" /\ handler[h].business = NoBusiness
                      /\ handler[h].rest = other

\* A business created from the other files as they are has every setting they refer to,
\* but those that were lost to a repeated id.
BusinessHolds(b) ==
    b \in upToDate =>
       /\ businesses[b] # NoBusiness
       /\ \A key \in UNION Prompts[other] : key \in businesses[b] \/ IsLost(key, Asked[answered[b]])

LostOne(b) == \E key \in UNION Prompts[other] : IsLost(key, Asked[answered[b]])

\* An event reads the row of its business before it reads the pack.
EventHolds(h) ==
    handler[h].business # NoBusiness =>
       /\ businesses[handler[h].business] # NoBusiness
       /\ handler[h].business \in upToDate =>
             /\ handler[h].pc = "entities" => handler[h].rest = other
             /\ handler[h].pc = "unrendered" => LostOne(handler[h].business)

QuestionnaireInv ==
    /\ QuestionnaireTypeOK
    /\ \A h \in Handlers : CreatorHolds(h) /\ EventHolds(h)
    /\ \A b \in Businesses : BusinessHolds(b)
    /\ \A h \in Handlers : handler[h].pc = "unrendered" => handler[h].business # NoBusiness
-----------------------------------------------------------------------------
(* The agent.                                                               *)

LEMMA FreshIsLocal ==
    \A pc \in {"idle", "ask", "held"} :
       /\ Fresh(pc) \in Local /\ Fresh(pc).pc = pc
       /\ Fresh(pc).files = NotCopied /\ Fresh(pc).rest = NotCopied
BY ConfigAgentAssumption DEF Fresh, Local, Packs

LEMMA WithIsPack ==
    ASSUME TypeOK, NEW f \in Files, NEW content \in Contents
    PROVE  /\ With(f, content) \in Packs
           /\ With(f, content)[f] = content
           /\ \A g \in Files \ {f} : With(f, content)[g] = pack[g]
BY DEF TypeOK, With, Packs

LEMMA AgentInit == Init => TypeOK /\ ApplyInv
<1> SUFFICES ASSUME Init PROVE TypeOK /\ ApplyInv
  OBVIOUS
<1>1. PICK idle : idle = Fresh("idle")
  OBVIOUS
<1>2. idle \in Local /\ idle.pc = "idle" /\ idle.files = NotCopied /\ idle.rest = NotCopied
  BY <1>1, FreshIsLocal
<1>3. loc = [a \in Agents |-> idle]
  BY <1>1 DEF Init
<1>4. TypeOK
  BY <1>2, <1>3, ConfigAgentAssumption DEF Init, TypeOK, Applying
<1> QED
  BY <1>2, <1>3, <1>4 DEF ApplyInv, HoldsCopy, Knows

\* An agent whose step leaves the pack alone or writes a pack
LEMMA TypesMove ==
    ASSUME TypeOK, Next, NEW a \in Agents, NEW new \in Local, loc' = [loc EXCEPT ![a] = new],
           new.pc \in {"compare", "copy", "open", "write"} => new.file \in Files,
           pack' \in Packs, other' \in Others
    PROVE  TypeOK'
<1>1. overtaken' \in SUBSET Agents
  BY DEF Next
<1> QED
  BY <1>1 DEF TypeOK, Applying

\* Every step of an agent or of the owner keeps the types.
LEMMA AgentTypes == TypeOK /\ Next => TypeOK'
<1> SUFFICES ASSUME TypeOK, Next PROVE TypeOK'
  OBVIOUS
<1>0. /\ pack \in Packs /\ other \in Others /\ overtaken' \in SUBSET Agents
      /\ \A a \in Agents : loc[a] \in Local /\ (Applying(a) => loc[a].file \in Files)
  BY DEF TypeOK, Next
<1>1. CASE EditByHand
  BY <1>0, <1>1, WithIsPack DEF TypeOK, EditByHand, Applying
<1>g. ASSUME NEW a \in Agents, GiveUp(a), pack' \in Packs, other' \in Others PROVE TypeOK'
  BY <1>g, FreshIsLocal, TypesMove DEF GiveUp
<1>2. ASSUME NEW a \in Agents, Propose(a) PROVE TypeOK'
  <2> DEFINE new == [Fresh("ask") EXCEPT !.old = pack]
  <2>1. new \in Local /\ new.pc = "ask"
    BY <1>0, ConfigAgentAssumption DEF Fresh, Local
  <2> QED
    BY <1>0, <1>2, <2>1, TypesMove DEF Propose
<1>3. ASSUME NEW a \in Agents, NEW f \in Files \cup {NotEditable}, NEW content \in Contents,
             Hold(a, f, content)
      PROVE  TypeOK'
  <2> DEFINE read == [g \in Files |-> IF g = f THEN loc[a].old[g] ELSE Empty]
             new == [Fresh("held") EXCEPT !.file = f, !.new = content, !.old = read]
  <2>1. read \in Packs
    BY <1>0, ConfigAgentAssumption DEF Local, Packs
  <2>2. new \in Local /\ new.pc = "held"
    <3> HIDE DEF read
    <3>1. PICK fresh : fresh = Fresh("held")
      OBVIOUS
    <3>2. fresh \in Local /\ fresh.pc = "held"
      BY <3>1, FreshIsLocal
    <3> QED
      BY <2>1, <3>1, <3>2 DEF Local
  <2>3. loc' = [loc EXCEPT ![a] = new] /\ UNCHANGED <<pack, other>>
    BY <1>3 DEF Hold
  <2> HIDE DEF new
  <2> QED
    BY <1>0, <2>2, <2>3, TypesMove
<1>4. ASSUME NEW a \in Agents, StartApply(a) PROVE TypeOK'
  <2>1. CASE IsEditable(a)
    <3> DEFINE new == [loc[a] EXCEPT !.pc = "compare"]
    <3>1. new \in Local /\ new.file \in Files /\ loc' = [loc EXCEPT ![a] = new]
      BY <1>0, <1>4, <2>1 DEF StartApply, Goto, IsEditable, Local, TypeOK
    <3> QED
      BY <1>0, <1>4, <3>1, TypesMove DEF StartApply
  <2> QED
    BY <1>0, <1>4, <1>g, <2>1 DEF StartApply
<1>5. ASSUME NEW a \in Agents, Compare(a) PROVE TypeOK'
  <2>1. CASE IsAsRead(a)
    <3> DEFINE new == [loc[a] EXCEPT !.pc = "copy"]
    <3>1. new \in Local /\ new.file \in Files /\ loc' = [loc EXCEPT ![a] = new]
      BY <1>0, <1>5, <2>1 DEF Compare, At, Applying, Goto, Local, TypeOK
    <3> QED
      BY <1>0, <1>5, <3>1, TypesMove DEF Compare
  <2> QED
    BY <1>0, <1>5, <1>g, <2>1 DEF Compare
<1>6. ASSUME NEW a \in Agents, CopyFiles(a) PROVE TypeOK'
  <2> DEFINE new == [loc[a] EXCEPT !.files = With(loc[a].file, loc[a].new)]
  <2>1. loc[a].file \in Files /\ With(loc[a].file, loc[a].new) \in Packs
    BY <1>0, <1>6, WithIsPack DEF CopyFiles, At, Applying, Local
  <2>2. new \in Local /\ new.file \in Files /\ loc' = [loc EXCEPT ![a] = new]
    BY <1>0, <1>6, <2>1 DEF CopyFiles, Local, TypeOK
  <2> QED
    BY <1>0, <1>6, <2>2, TypesMove DEF CopyFiles
<1>7. ASSUME NEW a \in Agents, CopyRest(a) PROVE TypeOK'
  <2> DEFINE new == [loc[a] EXCEPT !.rest = other]
  <2>1. new \in Local /\ new.file \in Files /\ loc' = [loc EXCEPT ![a] = new]
    BY <1>0, <1>7 DEF CopyRest, At, Applying, Local, TypeOK
  <2> QED
    BY <1>0, <1>7, <2>1, TypesMove DEF CopyRest
<1>8. ASSUME NEW a \in Agents, Validate(a) PROVE TypeOK'
  <2>1. CASE IsValid(a)
    <3> DEFINE new == [loc[a] EXCEPT !.pc = "open", !.files = NotCopied, !.rest = NotCopied]
    <3>1. new \in Local /\ new.file \in Files /\ loc' = [loc EXCEPT ![a] = new]
      BY <1>0, <1>8, <2>1 DEF Validate, At, Applying, Local, TypeOK
    <3> QED
      BY <1>0, <1>8, <3>1, TypesMove DEF Validate
  <2> QED
    BY <1>0, <1>8, <1>g, <2>1 DEF Validate
<1>9. ASSUME NEW a \in Agents, Open(a) PROVE TypeOK'
  <2> DEFINE new == [loc[a] EXCEPT !.pc = "write"]
  <2>1. new \in Local /\ new.file \in Files /\ loc' = [loc EXCEPT ![a] = new] /\ loc[a].file \in Files
    BY <1>0, <1>9 DEF Open, At, Applying, Goto, Local, TypeOK
  <2>2. pack' \in Packs
    BY <1>9, <2>1, WithIsPack, ConfigAgentAssumption DEF Open
  <2> QED
    BY <1>0, <1>9, <2>1, <2>2, TypesMove DEF Open
<1>10. ASSUME NEW a \in Agents, Write(a) PROVE TypeOK'
  <2>1. loc[a].file \in Files /\ loc[a].new \in Contents
    BY <1>0, <1>10 DEF Write, At, Applying, Local
  <2> QED
    BY <1>0, <1>10, <1>g, <2>1, WithIsPack DEF Write
<1>11. ASSUME NEW a \in Agents, Stop(a) PROVE TypeOK'
  BY <1>0, <1>11, <1>g DEF Stop
<1> QED
  BY <1>1, <1>2, <1>3, <1>4, <1>5, <1>6, <1>7, <1>8, <1>9, <1>10, <1>11 DEF Next, Step

\* Who is not overtaken by a step finds the other files as they were.
LEMMA NotOvertaken ==
    ASSUME TypeOK, TypeOK', Next, NEW b \in Agents, b \notin overtaken',
           (HasFiles(b) \/ HasRest(b))', HasFiles(b) \/ HasRest(b),
           loc'[b].file = loc[b].file, loc'[b].new = loc[b].new
    PROVE  /\ b \notin overtaken
           /\ HasFiles(b) => With(loc[b].file, loc[b].new)' = With(loc[b].file, loc[b].new)
           /\ HasRest(b) => other' = other
<1>1. b \notin overtaken /\ ~Overtakes(b)
  BY DEF Next
<1>2. ASSUME HasFiles(b) PROVE With(loc[b].file, loc[b].new)' = With(loc[b].file, loc[b].new)
  <2>1. \A f \in Files \ {loc[b].file} : pack'[f] = pack[f]
    BY <1>1, <1>2 DEF Overtakes
  <2> QED
    BY <2>1 DEF With, TypeOK, Packs
<1> QED
  BY <1>1, <1>2 DEF Overtakes

LEMMA OthersKeep ==
    ASSUME ApplyInv, TypeOK', Next, NEW b \in Agents, loc'[b] = loc[b]
    PROVE  HoldsCopy(b)' /\ (b \notin overtaken' => Knows(b)')
<1>1. HoldsCopy(b)'
  BY DEF ApplyInv, HoldsCopy
<1>2. ASSUME b \notin overtaken' PROVE Knows(b)'
  <2>1. CASE HasFiles(b) \/ HasRest(b)
    <3>1. /\ Knows(b)
          /\ HasFiles(b) => With(loc[b].file, loc[b].new)' = With(loc[b].file, loc[b].new)
          /\ HasRest(b) => other' = other
      BY <1>2, <2>1, NotOvertaken DEF ApplyInv, HasFiles, HasRest
    <3> QED
      BY <3>1 DEF Knows, HasFiles, HasRest
  <2>2. CASE ~(HasFiles(b) \/ HasRest(b))
    BY <2>2 DEF Knows, HasFiles, HasRest
  <2> QED
    BY <2>1, <2>2
<1> QED
  BY <1>1, <1>2

LEMMA AgentStep == ApplyInv /\ Next => ApplyInv'
<1> SUFFICES ASSUME ApplyInv, Next PROVE ApplyInv'
  OBVIOUS
<1>0. TypeOK /\ TypeOK'
  BY AgentTypes DEF ApplyInv
<1>o. ASSUME NEW a \in Agents, \A b \in Agents \ {a} : loc'[b] = loc[b],
             HoldsCopy(a)', a \notin overtaken' => Knows(a)'
      PROVE  ApplyInv'
  BY <1>0, <1>o, OthersKeep DEF ApplyInv
\* An agent that has no copy, and does not write yet
<1>q. ASSUME NEW a \in Agents, \A b \in Agents \ {a} : loc'[b] = loc[b],
             loc'[a].files = NotCopied, loc'[a].rest = NotCopied,
             loc'[a].pc \notin {"open", "write"}
      PROVE  ApplyInv'
  BY <1>o, <1>q DEF HoldsCopy, Knows
<1>g. ASSUME NEW a \in Agents, GiveUp(a) PROVE ApplyInv'
  <2>1. loc'[a] = Fresh("idle") /\ \A b \in Agents \ {a} : loc'[b] = loc[b]
    BY <1>0, <1>g DEF TypeOK, GiveUp
  <2> QED
    BY <1>q, <2>1, FreshIsLocal
<1>1. CASE EditByHand
  BY <1>0, <1>1, OthersKeep DEF ApplyInv, EditByHand
<1>2. ASSUME NEW a \in Agents, Propose(a) PROVE ApplyInv'
  <2>1. /\ loc'[a].pc = "ask" /\ loc'[a].files = NotCopied /\ loc'[a].rest = NotCopied
        /\ \A b \in Agents \ {a} : loc'[b] = loc[b]
    BY <1>0, <1>2 DEF TypeOK, Propose, Fresh
  <2> QED
    BY <1>q, <2>1
<1>3. ASSUME NEW a \in Agents, NEW f \in Files \cup {NotEditable}, NEW content \in Contents,
             Hold(a, f, content)
      PROVE  ApplyInv'
  <2>1. /\ loc'[a].pc = "held" /\ loc'[a].files = NotCopied /\ loc'[a].rest = NotCopied
        /\ \A b \in Agents \ {a} : loc'[b] = loc[b]
    BY <1>0, <1>3 DEF TypeOK, Hold, Fresh
  <2> QED
    BY <1>q, <2>1
<1>4. ASSUME NEW a \in Agents, NEW pc \in {"held", "compare"}, At(a, pc),
             NEW next \in {"compare", "copy"}, Goto(a, next)
      PROVE  ApplyInv'
  <2>1. /\ loc'[a].pc = next /\ loc'[a].files = loc[a].files /\ loc'[a].rest = loc[a].rest
        /\ \A b \in Agents \ {a} : loc'[b] = loc[b]
    BY <1>0, <1>4 DEF TypeOK, Goto, Local
  <2>2. loc[a].files = NotCopied /\ loc[a].rest = NotCopied
    BY <1>4 DEF ApplyInv, HoldsCopy, At
  <2> QED
    BY <1>4, <1>q, <2>1, <2>2
<1>5. ASSUME NEW a \in Agents, CopyFiles(a) PROVE ApplyInv'
  <2>1. /\ loc'[a].pc = "copy" /\ loc'[a].rest = loc[a].rest
        /\ loc'[a].file = loc[a].file /\ loc'[a].new = loc[a].new
        /\ loc'[a].files = With(loc[a].file, loc[a].new)
        /\ \A b \in Agents \ {a} : loc'[b] = loc[b]
    BY <1>0, <1>5 DEF TypeOK, CopyFiles, At, Local
  <2>2. With(loc[a].file, loc[a].new)' = With(loc[a].file, loc[a].new) /\ other' = other
    BY <1>5, <2>1 DEF CopyFiles, With
  <2>3. ASSUME a \notin overtaken', loc[a].rest # NotCopied PROVE loc[a].rest = other
    <3>1. HasRest(a) /\ HasRest(a)'
      BY <2>1, <2>3 DEF HasRest
    <3> QED
      BY <1>0, <2>1, <2>3, <3>1, NotOvertaken DEF ApplyInv, Knows
  <2> QED
    BY <1>o, <2>1, <2>2, <2>3 DEF HoldsCopy, Knows
<1>6. ASSUME NEW a \in Agents, CopyRest(a) PROVE ApplyInv'
  <2>1. /\ loc'[a].pc = "copy" /\ loc'[a].files = loc[a].files /\ loc'[a].rest = other
        /\ loc'[a].file = loc[a].file /\ loc'[a].new = loc[a].new
        /\ \A b \in Agents \ {a} : loc'[b] = loc[b]
    BY <1>0, <1>6 DEF TypeOK, CopyRest, At, Local
  <2>2. With(loc[a].file, loc[a].new)' = With(loc[a].file, loc[a].new) /\ other' = other
    BY <1>6, <2>1 DEF CopyRest, With
  <2>3. ASSUME a \notin overtaken', loc[a].files # NotCopied
        PROVE  loc[a].files = With(loc[a].file, loc[a].new)
    <3>1. HasFiles(a) /\ HasFiles(a)'
      BY <2>1, <2>3 DEF HasFiles
    <3> QED
      BY <1>0, <2>1, <2>3, <3>1, NotOvertaken DEF ApplyInv, Knows
  <2> QED
    BY <1>o, <2>1, <2>2, <2>3 DEF HoldsCopy, Knows
<1>7. ASSUME NEW a \in Agents, Validate(a), IsValid(a) PROVE ApplyInv'
  <2>1. /\ loc'[a].pc = "open" /\ loc'[a].files = NotCopied /\ loc'[a].rest = NotCopied
        /\ loc'[a].file = loc[a].file /\ loc'[a].new = loc[a].new
        /\ \A b \in Agents \ {a} : loc'[b] = loc[b]
    <3> DEFINE new == [loc[a] EXCEPT !.pc = "open", !.files = NotCopied, !.rest = NotCopied]
    <3>1. loc' = [loc EXCEPT ![a] = new]
      BY <1>7 DEF Validate
    <3>2. /\ new.pc = "open" /\ new.files = NotCopied /\ new.rest = NotCopied
          /\ new.file = loc[a].file /\ new.new = loc[a].new
      BY <1>0 DEF TypeOK, Local
    <3> HIDE DEF new
    <3>3. loc'[a] = new /\ \A b \in Agents \ {a} : loc'[b] = loc[b]
      BY <1>0, <3>1 DEF TypeOK
    <3> QED
      BY <3>2, <3>3
  <2>2. With(loc[a].file, loc[a].new)' = With(loc[a].file, loc[a].new) /\ other' = other
    BY <1>7, <2>1 DEF Validate, With
  <2>3. ASSUME a \notin overtaken' PROVE With(loc[a].file, loc[a].new) \in Loads[other]
    <3>1. HasFiles(a) /\ HasFiles(a)'
      BY <1>7, <2>1 DEF HasFiles, Validate
    <3>2. Knows(a) /\ loc[a].files # NotCopied /\ loc[a].rest # NotCopied
      BY <1>0, <1>7, <2>1, <2>3, <3>1, NotOvertaken DEF ApplyInv, Validate
    <3> QED
      BY <1>7, <3>2 DEF Knows, IsValid
  <2> QED
    BY <1>o, <2>1, <2>2, <2>3 DEF HoldsCopy, Knows
<1>8. ASSUME NEW a \in Agents, Open(a) PROVE ApplyInv'
  <2>1. /\ loc'[a].pc = "write" /\ loc'[a].file = loc[a].file /\ loc'[a].new = loc[a].new
        /\ loc'[a].files = loc[a].files /\ loc'[a].rest = loc[a].rest
        /\ \A b \in Agents \ {a} : loc'[b] = loc[b]
    BY <1>0, <1>8 DEF TypeOK, Open, Goto, Local
  <2>2. loc[a].pc = "open" /\ loc[a].files = NotCopied /\ loc[a].rest = NotCopied /\ other' = other
    BY <1>8 DEF ApplyInv, HoldsCopy, Open, At
  <2>3. HasFiles(a) /\ HasFiles(a)'
    BY <2>1, <2>2 DEF HasFiles
  <2>4. a \notin overtaken' => With(loc[a].file, loc[a].new)' \in Loads[other]
    BY <1>0, <2>1, <2>2, <2>3, NotOvertaken DEF ApplyInv, Knows
  <2> QED
    BY <1>o, <2>1, <2>2, <2>4 DEF HoldsCopy, Knows
<1>9. ASSUME NEW a \in Agents, StartApply(a) PROVE ApplyInv'
  BY <1>4, <1>9, <1>g DEF StartApply
<1>10. ASSUME NEW a \in Agents, Compare(a) PROVE ApplyInv'
  BY <1>4, <1>10, <1>g DEF Compare
<1>11. ASSUME NEW a \in Agents, Validate(a) PROVE ApplyInv'
  <2>1. IsValid(a) \/ GiveUp(a)
    BY <1>11 DEF Validate
  <2> QED
    BY <1>7, <1>11, <1>g, <2>1
<1>12. ASSUME NEW a \in Agents, Write(a) \/ Stop(a) PROVE ApplyInv'
  BY <1>12, <1>g DEF Write, Stop
<1> QED
  BY <1>1, <1>2, <1>3, <1>5, <1>6, <1>8, <1>9, <1>10, <1>11, <1>12 DEF Next, Step

LEMMA WrittenLoads ==
    ASSUME ApplyInv, NEW a \in Agents, Write(a), a \notin overtaken
    PROVE  pack' \in Loads[other]
BY DEF ApplyInv, Knows, Write, At

-----------------------------------------------------------------------------
(* The businesses.                                                          *)

LEMMA NoRequestIsRequest == Others # {} => NoRequest \in Request
BY ConfigAgentAssumption DEF NoRequest, Request

LEMMA QuestionnaireInit == QInit => QuestionnaireInv
<1> SUFFICES ASSUME QInit PROVE QuestionnaireInv
  OBVIOUS
<1>1. other \in Others /\ NoRequest \in Request /\ NoRequest.business = NoBusiness
      /\ NoRequest.pc = "idle"
  BY NoRequestIsRequest DEF QInit, Init, NoRequest
<1>2. TypeOK
  BY AgentInit DEF QInit
<1> QED
  <2>1. QuestionnaireTypeOK
    <3>1. businesses \in [Businesses -> (SUBSET SettingsKeys) \cup {NoBusiness}]
      BY DEF QInit
    <3>2. handler \in [Handlers -> Request]
      BY <1>1 DEF QInit
    <3>3. upToDate \in SUBSET (Handlers \cup Businesses) /\ answered \in [Businesses -> Contents]
      BY ConfigAgentAssumption DEF QInit
    <3> QED
      BY <1>2, <3>1, <3>2, <3>3 DEF QuestionnaireTypeOK
  <2>2. \A h \in Handlers : handler[h].business = NoBusiness /\ handler[h].pc = "idle"
    BY <1>1 DEF QInit
  <2>3. upToDate = {}
    BY DEF QInit
  <2> QED
    BY <2>1, <2>2, <2>3 DEF QuestionnaireInv, CreatorHolds, EventHolds, BusinessHolds

\* A handler that goes on, and what it must show of its own new state
LEMMA HandlerMoves ==
    ASSUME QuestionnaireInv, NEW h \in Handlers, UNCHANGED <<vars, businesses, answered>>,
           NEW new \in Request, handler' = [handler EXCEPT ![h] = new],
           upToDate' \in {upToDate, upToDate \ {h}, upToDate \cup {h}},
           h \in upToDate' => new.pc = "entities" /\ new.business = NoBusiness /\ new.rest = other,
           new.pc = "unrendered" => new.business # NoBusiness,
           new.business # NoBusiness =>
              /\ businesses[new.business] # NoBusiness
              /\ new.business \in upToDate =>
                    /\ new.pc = "entities" => new.rest = other
                    /\ new.pc = "unrendered" => LostOne(new.business)
    PROVE  QuestionnaireInv'
<1>1. handler'[h] = new /\ \A g \in Handlers \ {h} : handler'[g] = handler[g]
  BY DEF QuestionnaireInv, QuestionnaireTypeOK
<1>2. UNCHANGED <<pack, other, loc, overtaken>>
  BY DEF vars
<1>3. \A b \in Businesses : b \in upToDate' <=> b \in upToDate
  BY QuestionnaireAssumption
<1>4. \A g \in Handlers : handler[g].business \in Businesses \cup {NoBusiness}
  BY DEF QuestionnaireInv, QuestionnaireTypeOK, Request
<1>5. new.business \in Businesses \cup {NoBusiness}
  BY DEF Request
<1>6. QuestionnaireTypeOK'
  BY <1>2 DEF QuestionnaireInv, QuestionnaireTypeOK, TypeOK, Applying
<1>7. \A b \in Businesses : BusinessHolds(b)'
  BY <1>2, <1>3 DEF QuestionnaireInv, BusinessHolds
<1>8. ASSUME NEW g \in Handlers
      PROVE  CreatorHolds(g)' /\ EventHolds(g)'
             /\ (handler'[g].pc = "unrendered" => handler'[g].business # NoBusiness)
  <2>1. CASE g = h
    BY <1>1, <1>2, <1>3, <1>5, <2>1 DEF CreatorHolds, EventHolds, LostOne
  <2>2. CASE g # h
    <3>1. g \in upToDate' <=> g \in upToDate
      BY <2>2
    <3>2. handler'[g] = handler[g] /\ CreatorHolds(g) /\ EventHolds(g)
      BY <1>1, <2>2 DEF QuestionnaireInv
    <3> QED
      BY <1>2, <1>3, <1>4, <3>1, <3>2 DEF QuestionnaireInv, CreatorHolds, EventHolds, LostOne
  <2> QED
    BY <2>1, <2>2
<1> QED
  BY <1>6, <1>7, <1>8 DEF QuestionnaireInv

\* Every setting the prompts refer to is asked for, and so answered, and stored unless a
\* later question has the same id.
LEMMA SettingsSuffice ==
    ASSUME TypeOK, NEW h \in Handlers, handler[h].file \in Contents, handler[h].rest = other,
           IsLoaded(h), NEW answers, AreValid(Asked[handler[h].file], answers)
    PROVE  \A key \in UNION Prompts[other] :
              \/ key \in SettingsOf(Asked[handler[h].file], answers)
              \/ IsLost(key, Asked[handler[h].file])
<1> DEFINE p == [pack EXCEPT ![Questions] = handler[h].file]
<1>1. p \in Loads[other] /\ p[Questions] = handler[h].file /\ other \in Others
  BY QuestionnaireAssumption DEF TypeOK, Packs, IsLoaded
<1>2. UNION Prompts[other] \subseteq KeysOf(Asked[p[Questions]])
  BY <1>1, QuestionnaireAssumption
<1>3. PICK questions : questions = Asked[handler[h].file]
  OBVIOUS
<1>4. ASSUME NEW key \in UNION Prompts[other], ~IsLost(key, questions)
      PROVE  key \in SettingsOf(questions, answers)
  <2>1. PICK i \in DOMAIN questions : questions[i].settings_key = key /\ ~IsReplaced(i, questions)
    BY <1>4 DEF IsLost
  <2>2. questions[i].id \in DOMAIN answers
    BY <1>3 DEF AreValid
  <2> QED
    BY <2>1, <2>2 DEF SettingsOf
<1> QED
  BY <1>3, <1>4

LEMMA CreateHolds ==
    ASSUME QuestionnaireInv, NEW h \in Handlers, NEW answers, CreateBusiness(h, answers)
    PROVE  QuestionnaireInv'
<1> DEFINE asked == Asked[handler[h].file]
<1>0. /\ handler[h] \in Request /\ handler[h].file \in Contents /\ TypeOK
      /\ handler' = [handler EXCEPT ![h] = NoRequest] /\ UNCHANGED vars
      /\ handler[h].business = NoBusiness /\ IsLoaded(h)
  BY DEF QuestionnaireInv, QuestionnaireTypeOK, CreateBusiness, Leave, Request
<1>1. NoRequest \in Request /\ NoRequest.business = NoBusiness /\ NoRequest.pc = "idle"
  BY <1>0, NoRequestIsRequest DEF TypeOK, NoRequest
<1>2. CASE ~AreValid(asked, answers)
  <2>1. UNCHANGED <<businesses, answered>> /\ upToDate' = upToDate \ {h}
    BY <1>2 DEF CreateBusiness
  <2> QED
    BY <1>0, <1>1, <2>1, HandlerMoves
<1>3. CASE AreValid(asked, answers)
  <2>1. PICK b \in Businesses :
           /\ businesses[b] = NoBusiness
           /\ businesses' = [businesses EXCEPT ![b] = SettingsOf(asked, answers)]
           /\ upToDate' = IF h \in upToDate THEN (upToDate \ {h}) \cup {b} ELSE upToDate
           /\ answered' = [answered EXCEPT ![b] = handler[h].file]
    BY <1>3 DEF CreateBusiness
  <2>2. PICK settings : settings = SettingsOf(asked, answers)
    OBVIOUS
  <2>3. settings \subseteq SettingsKeys /\ settings # NoBusiness
    BY <1>0, <2>2, QuestionnaireAssumption DEF SettingsOf, SettingsKeys, KeysOf
  <2>4. h \in upToDate => \A key \in UNION Prompts[other] : key \in settings \/ IsLost(key, asked)
    BY <1>0, <1>3, <2>2, SettingsSuffice DEF QuestionnaireInv, CreatorHolds
  <2>5. handler'[h] = NoRequest /\ \A g \in Handlers \ {h} : handler'[g] = handler[g]
    BY <1>0 DEF QuestionnaireInv, QuestionnaireTypeOK
  <2>6. /\ businesses'[b] = settings /\ answered'[b] = handler[h].file
        /\ \A c \in Businesses \ {b} : businesses'[c] = businesses[c] /\ answered'[c] = answered[c]
    BY <2>1, <2>2 DEF QuestionnaireInv, QuestionnaireTypeOK
  <2>7. /\ h \in Handlers \ Businesses /\ b \in Businesses \ Handlers
        /\ UNCHANGED <<pack, other, loc, overtaken>>
    BY <1>0, QuestionnaireAssumption DEF vars
  <2>8. QuestionnaireTypeOK'
    BY <1>0, <1>1, <2>1, <2>2, <2>3, <2>7
       DEF QuestionnaireInv, QuestionnaireTypeOK, TypeOK, Applying
  <2>9. ASSUME NEW c \in Businesses PROVE BusinessHolds(c)'
    <3>1. CASE c = b
      <4>1. b \notin upToDate
        BY <2>1 DEF QuestionnaireInv, BusinessHolds
      <4> QED
        BY <2>1, <2>3, <2>4, <2>6, <2>7, <3>1, <4>1 DEF BusinessHolds
    <3>2. CASE c # b
      BY <2>1, <2>6, <2>7, <3>2 DEF QuestionnaireInv, BusinessHolds
    <3> QED
      BY <3>1, <3>2
  <2>10. ASSUME NEW g \in Handlers
         PROVE  CreatorHolds(g)' /\ EventHolds(g)'
                /\ (handler'[g].pc = "unrendered" => handler'[g].business # NoBusiness)
    <3>1. CASE g = h
      <4>1. h \notin upToDate'
        BY <2>1, <2>7
      <4> QED
        BY <1>1, <2>5, <3>1, <4>1 DEF CreatorHolds, EventHolds
    <3>2. CASE g # h
      <4>1. /\ handler'[g] = handler[g] /\ CreatorHolds(g) /\ EventHolds(g)
            /\ handler[g].business \in Businesses \cup {NoBusiness}
            /\ handler[g].pc = "unrendered" => handler[g].business # NoBusiness
        BY <2>5, <3>2 DEF QuestionnaireInv, QuestionnaireTypeOK, Request
      <4>2. g \in upToDate' => g \in upToDate
        BY <2>1, <2>7
      <4>3. handler[g].business # b
        BY <2>1, <2>7, <4>1, QuestionnaireAssumption DEF EventHolds
      <4>4. handler[g].business \in upToDate' => handler[g].business \in upToDate
        BY <2>1, <4>3
      <4> QED
        BY <2>6, <2>7, <4>1, <4>2, <4>3, <4>4 DEF CreatorHolds, EventHolds, LostOne
    <3> QED
      BY <3>1, <3>2
  <2> QED
    BY <2>8, <2>9, <2>10 DEF QuestionnaireInv
<1> QED
  BY <1>2, <1>3

LEMMA RenderHolds ==
    ASSUME QuestionnaireInv, NEW h \in Handlers, NEW prompt, RenderTemplate(h, prompt)
    PROVE  QuestionnaireInv'
<1>0. /\ handler[h] \in Request /\ handler[h].pc = "entities"
      /\ handler[h].business \in Businesses /\ businesses[handler[h].business] # NoBusiness
      /\ TypeOK /\ UNCHANGED <<vars, businesses, upToDate, answered>>
      /\ CreatorHolds(h) /\ EventHolds(h)
  BY DEF QuestionnaireInv, QuestionnaireTypeOK, RenderTemplate, In, Request, EventHolds
<1>1. h \notin upToDate
  BY <1>0, QuestionnaireAssumption DEF CreatorHolds
<1>2. CASE prompt \subseteq businesses[handler[h].business]
  <2>1. NoRequest \in Request /\ NoRequest.business = NoBusiness /\ NoRequest.pc = "idle"
    BY <1>0, NoRequestIsRequest DEF TypeOK, NoRequest
  <2> QED
    BY <1>0, <1>1, <1>2, <2>1, HandlerMoves DEF RenderTemplate, Leave
<1>3. CASE ~(prompt \subseteq businesses[handler[h].business])
  <2>1. handler[h].business \in upToDate => LostOne(handler[h].business)
    <3> SUFFICES ASSUME handler[h].business \in upToDate PROVE LostOne(handler[h].business)
      OBVIOUS
    <3>1. prompt \in Prompts[other]
      BY <1>0, QuestionnaireAssumption DEF EventHolds, RenderTemplate
    <3>2. \A key \in UNION Prompts[other] :
             \/ key \in businesses[handler[h].business]
             \/ IsLost(key, Asked[answered[handler[h].business]])
      BY <1>0 DEF QuestionnaireInv, BusinessHolds
    <3>3. PICK key \in prompt : key \notin businesses[handler[h].business]
      BY <1>3
    <3>4. key \in UNION Prompts[other]
      BY <3>1, <3>3
    <3> QED
      BY <3>2, <3>3, <3>4 DEF LostOne
  <2> DEFINE new == [handler[h] EXCEPT !.pc = "unrendered"]
  <2>2. /\ new \in Request /\ handler' = [handler EXCEPT ![h] = new]
        /\ new.pc = "unrendered" /\ new.business = handler[h].business
    BY <1>0, <1>3 DEF RenderTemplate, Request, QuestionnaireInv, QuestionnaireTypeOK
  <2> HIDE DEF new
  <2> QED
    BY <1>0, <1>1, <2>1, <2>2, QuestionnaireAssumption, HandlerMoves
<1> QED
  BY <1>2, <1>3

LEMMA QuestionnaireStep == QuestionnaireInv /\ [QNext]_qvars => QuestionnaireInv'
<1> SUFFICES ASSUME QuestionnaireInv, [QNext]_qvars PROVE QuestionnaireInv'
  OBVIOUS
<1>0. /\ TypeOK /\ other \in Others /\ pack[Questions] \in Contents
      /\ NoRequest \in Request /\ NoRequest.business = NoBusiness /\ NoRequest.pc = "idle"
      /\ NoBusiness \notin Businesses
  BY NoRequestIsRequest, QuestionnaireAssumption
     DEF QuestionnaireInv, QuestionnaireTypeOK, TypeOK, Packs, NoRequest
<1>t. \A h \in Handlers : handler[h] \in Request
  BY DEF QuestionnaireInv, QuestionnaireTypeOK
<1>1. CASE ChangePack
  <2>1. TypeOK' /\ UNCHANGED <<businesses, handler, answered>>
    BY <1>0, <1>1, AgentTypes DEF ChangePack
  <2>2. \/ upToDate' = upToDate /\ other' = other
        \/ upToDate' = {}
    BY <1>1 DEF ChangePack
  <2>3. QuestionnaireTypeOK'
    BY <2>1, <2>2 DEF QuestionnaireInv, QuestionnaireTypeOK
  <2> QED
    BY <2>1, <2>2, <2>3 DEF QuestionnaireInv, CreatorHolds, EventHolds, BusinessHolds, LostOne
<1>2. ASSUME NEW h \in Handlers, NEW b \in Businesses, StartEvent(h, b) PROVE QuestionnaireInv'
  <2> DEFINE new == [handler[h] EXCEPT !.pc = "questions", !.business = b]
  <2>1. /\ new \in Request /\ handler' = [handler EXCEPT ![h] = new]
        /\ new.pc = "questions" /\ new.business = b
    BY <1>2, <1>t DEF StartEvent, Request, QuestionnaireInv, QuestionnaireTypeOK
  <2>2. h \notin upToDate
    BY <1>2 DEF QuestionnaireInv, CreatorHolds, StartEvent, In
  <2> HIDE DEF new
  <2> QED
    BY <1>2, <2>1, <2>2, HandlerMoves DEF StartEvent
<1>3. ASSUME NEW h \in Handlers, StartCreate(h) PROVE QuestionnaireInv'
  <2> DEFINE new == [handler[h] EXCEPT !.pc = "questions"]
  <2>1. /\ new \in Request /\ handler' = [handler EXCEPT ![h] = new]
        /\ new.pc = "questions" /\ new.business = handler[h].business
    BY <1>3, <1>t DEF StartCreate, Request, QuestionnaireInv, QuestionnaireTypeOK
  <2>2. h \notin upToDate /\ EventHolds(h)
    BY <1>3 DEF QuestionnaireInv, CreatorHolds, StartCreate, In
  <2> HIDE DEF new
  <2> QED
    BY <1>3, <2>1, <2>2, HandlerMoves DEF StartCreate, EventHolds
<1>4. ASSUME NEW h \in Handlers, ReadQuestions(h) PROVE QuestionnaireInv'
  <2> DEFINE new == [handler[h] EXCEPT !.pc = "others", !.file = pack[Questions]]
  <2>1. /\ new \in Request /\ handler' = [handler EXCEPT ![h] = new]
        /\ new.pc = "others" /\ new.business = handler[h].business
    BY <1>0, <1>4, <1>t DEF ReadQuestions, Request, QuestionnaireInv, QuestionnaireTypeOK
  <2>2. h \notin upToDate /\ EventHolds(h)
    BY <1>4 DEF QuestionnaireInv, CreatorHolds, ReadQuestions, In
  <2> HIDE DEF new
  <2> QED
    BY <1>4, <2>1, <2>2, HandlerMoves DEF ReadQuestions, EventHolds
<1>5. ASSUME NEW h \in Handlers, ReadOthers(h) PROVE QuestionnaireInv'
  <2> DEFINE new == [handler[h] EXCEPT !.pc = "entities", !.rest = other]
  <2>1. /\ new \in Request /\ handler' = [handler EXCEPT ![h] = new]
        /\ new.pc = "entities" /\ new.business = handler[h].business /\ new.rest = other
    BY <1>0, <1>5, <1>t DEF ReadOthers, Request, QuestionnaireInv, QuestionnaireTypeOK
  <2>2. h \notin upToDate /\ EventHolds(h)
    BY <1>5 DEF QuestionnaireInv, CreatorHolds, ReadOthers, In
  <2>3. upToDate' = IF new.business = NoBusiness THEN upToDate \cup {h} ELSE upToDate
    BY <1>5, <2>1 DEF ReadOthers
  <2> HIDE DEF new
  <2> QED
    BY <1>5, <2>1, <2>2, <2>3, HandlerMoves DEF ReadOthers, EventHolds
<1>6. ASSUME NEW h \in Handlers, FailToLoad(h) PROVE QuestionnaireInv'
  BY <1>0, <1>6, HandlerMoves DEF FailToLoad, Leave
<1>7. ASSUME NEW h \in Handlers, FailToRender(h) PROVE QuestionnaireInv'
  <2>1. h \notin upToDate
    BY <1>7 DEF QuestionnaireInv, CreatorHolds, FailToRender, In
  <2> QED
    BY <1>0, <1>7, <2>1, HandlerMoves DEF FailToRender, Leave
<1>8. CASE UNCHANGED qvars
  BY <1>8 DEF qvars, vars, QuestionnaireInv, QuestionnaireTypeOK, TypeOK, Applying,
     CreatorHolds, EventHolds, BusinessHolds, LostOne
<1> QED
  BY <1>1, <1>2, <1>3, <1>4, <1>5, <1>6, <1>7, <1>8, CreateHolds, RenderHolds DEF QNext
-----------------------------------------------------------------------------

\* What holds of the pack, the businesses and the requests at every moment.
THEOREM Invariance == QSpec => []QuestionnaireInv
BY QuestionnaireInit, QuestionnaireStep, PTL DEF QSpec

\* The variables stay within their types.
THEOREM TypeCorrect == QSpec => []QuestionnaireTypeOK
BY Invariance, PTL DEF QuestionnaireInv

\* Whatever is written to the pack and whenever its files are read, a prompt lacks a
\* setting for only two reasons: the prompts changed since the business was created, or
\* answers_to_settings lost the setting to a later question of the same id.
THEOREM RenderedIfUnchanged == QSpec => []EventsRender
<1>1. QuestionnaireInv => EventsRender
  BY DEF QuestionnaireInv, QuestionnaireTypeOK, Request, EventHolds, LostOne, EventsRender, In
<1> QED
  BY <1>1, Invariance, PTL

LEMMA AgentInvariance == QSpec => []ApplyInv
<1>1. QInit => ApplyInv
  BY AgentInit DEF QInit
<1>2. ApplyInv /\ [QNext]_qvars => ApplyInv'
  <2> SUFFICES ASSUME ApplyInv, [QNext]_qvars PROVE ApplyInv'
    OBVIOUS
  <2>1. CASE Next
    BY <2>1, AgentStep
  <2>2. CASE UNCHANGED vars
    BY <2>2 DEF vars, ApplyInv, TypeOK, Applying, HoldsCopy, Knows, With
  <2>3. Next \/ UNCHANGED vars
    BY DEF QNext, qvars, ChangePack, StartEvent, StartCreate, ReadQuestions, ReadOthers,
       FailToLoad, CreateBusiness, RenderTemplate, FailToRender
  <2> QED
    BY <2>1, <2>2, <2>3
<1> QED
  BY <1>1, <1>2, PTL DEF QSpec

\* However old a proposal is and whoever edits the pack meanwhile, the pack loads when it
\* is written, unless another file was changed after it was copied for the validation
\* (service.apply's second validation).
THEOREM WritesWhatLoads == QSpec => AppliedLoads
<1>1. ApplyInv /\ [QNext]_qvars =>
         [\A a \in Agents : Write(a) /\ a \notin overtaken => pack' \in Loads[other]]_vars
  BY WrittenLoads
<1> QED
  BY <1>1, AgentInvariance, PTL DEF QSpec, AppliedLoads
=============================================================================

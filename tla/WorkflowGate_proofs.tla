------------------------ MODULE WorkflowGate_proofs ------------------------
(***************************************************************************)
(* Proofs about WorkflowGate for every workflow, any agents, commands,      *)
(* chunks and overrides.                                                    *)
(*                                                                          *)
(* A closed ticket stays closed because a command that would move it has to *)
(* get past the re-entry guard, which believes the applied state before the *)
(* label: while the applied state names a terminal state no lag matters,    *)
(* and when it is gone the reads have caught up and no request holds an     *)
(* older label (Remembered).  A command that got past the guard before the  *)
(* ticket was closed would undo that; the ticket lock rules it out          *)
(* (OneAtATime), which takes one spelling of the ticket id.                 *)
(***************************************************************************)
EXTENDS WorkflowGate, TLAPS

Kinds == Requests \cup {Idle, Over}

(* A command knows where the ticket goes when it writes.                     *)
Destined == \A c \in Commands : cmd[c].pc = "write" => cmd[c].dest # None

IInv == TypeOK /\ Destined /\ HandoverIsWhole

-----------------------------------------------------------------------------
(* Types *)

LEMMA WorkflowTyped ==
    ASSUME TypeOK
    PROVE  /\ Definition(wf) /\ lags \in BOOLEAN
           /\ Start(wf) \in Tickets
           /\ \A s : OwnerOf(s) \in Agents \cup {Nobody} \/ s \notin States
           /\ OwnerOf(AdHoc) \in Agents \cup {Nobody}
           /\ {e.verb : e \in wf.edges} \subseteq Verbs
<1>1. <<wf, lags>> \in Settings
  BY DEF TypeOK
<1>2. Definition(wf) /\ lags \in BOOLEAN
  BY <1>1, SettingsAssumption
<1>3. wf.owner \in [States -> Agents \cup {Nobody}] /\ wf.entry \in States
  BY <1>2 DEF Definition
<1>4. Start(wf) \in Tickets
  BY <1>3 DEF Start, Tickets
<1>5. \A s : OwnerOf(s) \in Agents \cup {Nobody} \/ s \notin States
  BY <1>3 DEF OwnerOf
<1>6. OwnerOf(AdHoc) \in Agents \cup {Nobody}
  BY DEF OwnerOf
<1>7. {e.verb : e \in wf.edges} \subseteq Verbs
  <2>1. wf.edges \in {x[1].edges : x \in Settings}
    BY <1>1
  <2> QED
    BY <2>1 DEF Verbs
<1> QED
  BY <1>2, <1>4, <1>5, <1>6, <1>7

(* A verb that stands for an edge is one of the verbs, and for one edge.    *)
LEMMA MatchTyped ==
    ASSUME TypeOK, NEW s, NEW v, NEW e \in Matches(s, v)
    PROVE  /\ s \in States /\ v \in Verbs
           /\ e \in wf.edges /\ e.from = s /\ e.to \in States
           /\ \A f \in Matches(s, v) : f = e
<1>1. Definition(wf) /\ {f.verb : f \in wf.edges} \subseteq Verbs
  BY WorkflowTyped
<1>2. "force-deploy" \in Verbs
  BY DEF Verbs
<1>3. /\ e \in wf.edges /\ e.from = s
      /\ e.verb = v \/ v = "force-deploy"
      /\ \A f \in Matches(s, v) : f \in wf.edges /\ f.from = s /\ f.verb = e.verb
  BY DEF Matches, Edges
<1>4. s \in States /\ e.to \in States
  BY <1>1, <1>3 DEF Definition
<1>5. \A f \in Matches(s, v) : f = e
  BY <1>1, <1>3 DEF Definition
<1>6. v \in Verbs
  BY <1>1, <1>2, <1>3
<1> QED
  BY <1>3, <1>4, <1>5, <1>6

(* A command with a request being served, or between two, is a record.      *)
LEMMA LiveTyped ==
    ASSUME TypeOK, NEW c \in Commands, cmd[c].pc \in Pcs \cup {"between"}
    PROVE  cmd[c] \in Requests
<1>1. cmd[c] \in Requests \cup {Idle, Over}
  BY DEF TypeOK
<1>2. cmd[c] # Idle
  BY DEF Idle, Pcs
<1>3. cmd[c] # Over
  BY DEF Over, Pcs
<1> QED
  BY <1>1, <1>2, <1>3

LEMMA SetKind ==
    ASSUME TypeOK, NEW c \in Commands, NEW r \in Kinds, cmd' = [cmd EXCEPT ![c] = r]
    PROVE  cmd' \in [Commands -> Kinds]
  BY DEF TypeOK, Kinds

(* The answer to a request: the command is over or waits for the next.      *)
LEMMA AnsweredTyped ==
    ASSUME TypeOK, NEW c \in Commands, cmd[c] \in Requests
    PROVE  /\ Answered(c) \in Kinds
           /\ Answered(c).pc \in {"over", "between"}
           /\ Answered(c).pc = "between" =>
                Answered(c).src = Unknown /\ Answered(c).intent = cmd[c].intent
<1>1. CASE cmd[c].chunk = MaxChunks
  BY <1>1 DEF Answered, Over, Kinds
<1>2. CASE cmd[c].chunk # MaxChunks
  <2> DEFINE rest(u) == [cmd[c] EXCEPT !.pc = "between", !.update = FALSE, !.verb = None,
                           !.src = Unknown, !.dest = None, !.undo = u, !.auth = None,
                           !.overtaken = FALSE]
  <2>1. Start(wf) \in Tickets
    BY WorkflowTyped
  <2>2. Answered(c) = rest(Start(wf))
    BY <1>2 DEF Answered
  <2>3. \A u \in Tickets : rest(u) \in Requests
    BY DEF Requests
  <2>4. \A u \in Tickets : /\ rest(u).pc = "between" /\ rest(u).src = Unknown
                           /\ rest(u).intent = cmd[c].intent
    BY DEF Requests
  <2> HIDE DEF rest
  <2> QED
    BY <2>1, <2>2, <2>3, <2>4 DEF Kinds
<1> QED
  BY <1>1, <1>2

(* What a request that is answered does.                                     *)
LEMMA ReplyTyped ==
    ASSUME TypeOK, Destined, NEW c \in Commands, cmd[c].pc \in Pcs, Reply(c)
    PROVE  cmd' \in [Commands -> Kinds] /\ Destined'
<1>1. Answered(c) \in Kinds /\ Answered(c).pc \in {"over", "between"}
  BY LiveTyped, AnsweredTyped
<1>2. cmd' = [cmd EXCEPT ![c] = Answered(c)]
  BY DEF Reply
<1>3. cmd' \in [Commands -> Kinds]
  BY <1>1, <1>2, SetKind
<1>4. \A d \in Commands : cmd'[d] = IF d = c THEN Answered(c) ELSE cmd[d]
  BY <1>2 DEF TypeOK
<1>5. Destined'
  BY <1>1, <1>4 DEF Destined
<1> QED
  BY <1>3, <1>5

(* A step of a request that goes on.                                        *)
Aims(r) == r.pc = "write" => r.dest # None

LEMMA StepTyped ==
    ASSUME TypeOK, Destined, NEW c \in Commands, NEW r \in Requests, Aims(r),
           cmd' = [cmd EXCEPT ![c] = r]
    PROVE  cmd' \in [Commands -> Kinds] /\ Destined'
<1>1. cmd' \in [Commands -> Kinds]
  BY SetKind DEF Kinds
<1>2. \A d \in Commands : cmd'[d] = IF d = c THEN r ELSE cmd[d]
  BY DEF TypeOK
<1>3. Destined'
  BY <1>2 DEF Destined, Aims
<1> QED
  BY <1>1, <1>3

LEMMA WriteTyped ==
    ASSUME TypeOK, NEW t \in Tickets, WriteTicket(t)
    PROVE  tix' = t /\ tix' \in Tickets /\ old' \in Tickets
  BY WorkflowTyped DEF WriteTicket, TypeOK

LEMMA ReadTyped ==
    ASSUME TypeOK
    PROVE  /\ \A read \in Reads : read \in Tickets
           /\ SeenStates \subseteq States \cup {Unknown}
<1>1. \A read \in Reads : read \in Tickets
  BY DEF Reads, TypeOK
<1>2. SeenStates \subseteq States \cup {Unknown}
  BY <1>1 DEF SeenStates, Tickets
<1> QED
  BY <1>1, <1>2

-----------------------------------------------------------------------------
(* The actions *)

(* An action that changes only the requests keeps the rest of the invariant.  *)
LEMMA OnlyCommands ==
    ASSUME IInv, cmd' \in [Commands -> Kinds], Destined',
           UNCHANGED <<ticket, applied, snap, bounds, history>>
    PROVE  IInv'
<1> USE DEF IInv
<1>1. TypeOK'
  BY DEF TypeOK, Kinds, ticket, bounds, history
<1>2. HandoverIsWhole'
  BY DEF HandoverIsWhole, OwnerOf, ticket, bounds, history
<1> QED
  BY <1>1, <1>2

LEMMA BeginInv == ASSUME IInv, NEW c \in Commands, Begin(c) PROVE IInv'
<1> USE DEF IInv
<1>1. PICK by \in Agents, intent \in Intents, k \in Keys, update \in BOOLEAN :
        cmd' = [cmd EXCEPT ![c] =
                     [pc |-> "resolve", by |-> by, intent |-> intent, key |-> k, update |-> update,
                      chunk |-> 1, verb |-> None, src |-> Unknown, dest |-> None,
                      undo |-> Start(wf), auth |-> None, overtaken |-> FALSE]]
  BY DEF Begin
<1> DEFINE r == [pc |-> "resolve", by |-> by, intent |-> intent, key |-> k, update |-> update,
                 chunk |-> 1, verb |-> None, src |-> Unknown, dest |-> None,
                 undo |-> Start(wf), auth |-> None, overtaken |-> FALSE]
<1>2. intent \in Verbs \cup Meta
  <2>1. {e.verb : e \in {f \in wf.edges : f.tag # "continue" \/ f.approver}} \subseteq Verbs
    BY WorkflowTyped
  <2>2. {"escape", "force-deploy"} \subseteq Verbs
    BY DEF Verbs
  <2> QED
    BY <2>1, <2>2 DEF Intents
<1>3. Start(wf) \in Tickets
  BY WorkflowTyped
<1>4. 1 \in 1..MaxChunks
  BY BoundsAssumption
<1>5. r \in Requests
  BY <1>2, <1>3, <1>4 DEF Requests, Pcs
<1>6. cmd' \in [Commands -> Kinds] /\ Destined'
  BY <1>1, <1>5, StepTyped DEF Aims
<1> QED
  BY <1>6, OnlyCommands DEF Begin

LEMMA FollowInv == ASSUME IInv, NEW c \in Commands, Follow(c) PROVE IInv'
<1> USE DEF IInv
<1>1. /\ cmd[c].pc = "between" /\ cmd[c].chunk < MaxChunks
      /\ cmd' = [cmd EXCEPT ![c].pc = "resolve", ![c].chunk = @ + 1]
  BY DEF Follow
<1>2. cmd[c] \in Requests
  BY <1>1, LiveTyped
<1> DEFINE r == [cmd[c] EXCEPT !.pc = "resolve", !.chunk = @ + 1]
<1>3. cmd' = [cmd EXCEPT ![c] = r]
  BY <1>1, <1>2 DEF TypeOK
<1>4. cmd[c].chunk \in 1..MaxChunks
  BY <1>2 DEF Requests
<1>5. cmd[c].chunk + 1 \in 1..MaxChunks
  BY <1>1, <1>4, BoundsAssumption
<1>6. r \in Requests
  BY <1>2, <1>5 DEF Requests, Pcs
<1>7. Aims(r)
  BY <1>2 DEF Requests, Aims
<1>8. cmd' \in [Commands -> Kinds] /\ Destined'
  BY <1>3, <1>6, <1>7, StepTyped
<1> QED
  BY <1>8, OnlyCommands DEF Follow

LEMMA RoutineTyped ==
    ASSUME TypeOK, NEW intent, NEW s
    PROVE  RoutineVerbs(intent, s) \subseteq Verbs
<1>1. \A es \in SUBSET wf.edges : VerbsOf(es) \subseteq Verbs
  BY WorkflowTyped DEF VerbsOf
<1>2. From(s) \in SUBSET wf.edges
  BY DEF From
<1>3. RoutineForward(s) \subseteq Verbs
  BY <1>1, <1>2 DEF RoutineForward, Tagged
<1>4. RoutineRevision(s) \subseteq Verbs
  BY <1>1, <1>2 DEF RoutineRevision, Tagged
<1> QED
  BY <1>3, <1>4 DEF RoutineVerbs

LEMMA ResolveInv == ASSUME IInv, NEW c \in Commands, Resolve(c) PROVE IInv'
<1> USE DEF IInv
<1>0. cmd[c].pc = "resolve" /\ UNCHANGED <<ticket, applied, snap, bounds, history>>
  BY DEF Resolve
<1>1. cmd[c] \in Requests /\ cmd[c].pc \in Pcs
  BY <1>0, LiveTyped DEF Pcs
<1>2. ASSUME NEW v \in Verbs, cmd' = [cmd EXCEPT ![c].pc = "check", ![c].verb = v]
      PROVE  IInv'
  <2> DEFINE r == [cmd[c] EXCEPT !.pc = "check", !.verb = v]
  <2>1. cmd' = [cmd EXCEPT ![c] = r]
    BY <1>2 DEF TypeOK
  <2>2. r \in Requests /\ Aims(r)
    BY <1>1 DEF Requests, Pcs, Aims
  <2> QED
    BY <1>0, <1>1, <2>1, <2>2, StepTyped, OnlyCommands
<1>3. CASE Reply(c)
  BY <1>0, <1>1, <1>3, ReplyTyped, OnlyCommands
<1>4. CASE cmd[c].intent \notin Meta /\ cmd' = [cmd EXCEPT ![c].pc = "check", ![c].verb = cmd[c].intent]
  <2>1. cmd[c].intent \in Verbs
    BY <1>1, <1>4 DEF Requests
  <2> QED
    BY <1>2, <1>4, <2>1
<1>5. CASE \E read \in Reads :
              LET st == IF Hit(c) /\ snap[c] # Unknown THEN snap[c] ELSE read.st
                  verbs == IF read.st = AdHoc \/ GateRests(c, read.st) THEN {}
                           ELSE RoutineVerbs(cmd[c].intent, st)
              IN  \/ \E v \in verbs : cmd' = [cmd EXCEPT ![c].pc = "check", ![c].verb = v]
                  \/ verbs = {} /\ Reply(c)
  <2>1. PICK read \in Reads :
              LET st == IF Hit(c) /\ snap[c] # Unknown THEN snap[c] ELSE read.st
                  verbs == IF read.st = AdHoc \/ GateRests(c, read.st) THEN {}
                           ELSE RoutineVerbs(cmd[c].intent, st)
              IN  \/ \E v \in verbs : cmd' = [cmd EXCEPT ![c].pc = "check", ![c].verb = v]
                  \/ verbs = {} /\ Reply(c)
    BY <1>5
  <2>2. ASSUME ~ Reply(c)
        PROVE  \E v \in Verbs : cmd' = [cmd EXCEPT ![c].pc = "check", ![c].verb = v]
    BY <2>1, <2>2, RoutineTyped
  <2> QED
    BY <1>2, <1>3, <2>2
<1> QED
  BY <1>3, <1>4, <1>5 DEF Resolve

LEMMA CheckInv == ASSUME IInv, NEW c \in Commands, Check(c) PROVE IInv'
<1> USE DEF IInv
<1>0. cmd[c].pc = "check" /\ UNCHANGED <<ticket, applied, snap, bounds, history>>
  BY DEF Check
<1>1. cmd[c] \in Requests /\ cmd[c].pc \in Pcs
  BY <1>0, LiveTyped DEF Pcs
<1>2. CASE Reply(c)
  BY <1>0, <1>1, <1>2, ReplyTyped, OnlyCommands
<1>3. CASE ~ Reply(c)
  <2>1. PICK read \in Reads :
          LET st == IF Hit(c) /\ snap[c] # Unknown THEN snap[c] ELSE Believed(read.st)
          IN  /\ read.st # AdHoc
              /\ cmd' = [cmd EXCEPT ![c].pc = IF Hit(c) THEN "source" ELSE "capture",
                                    ![c].auth = st]
    BY <1>3 DEF Check
  <2>2. read.st \in States /\ Believed(read.st) \in States
    <3>1. read \in Tickets
      BY ReadTyped
    <3>2. read.st \in States
      BY <2>1, <3>1 DEF Tickets
    <3> QED
      BY <3>2 DEF Believed, TypeOK
  <2>3. PICK st \in States :
          cmd' = [cmd EXCEPT ![c].pc = IF Hit(c) THEN "source" ELSE "capture",
                             ![c].auth = st]
    <3>1. Hit(c) /\ snap[c] # Unknown => snap[c] \in States
      BY DEF Hit, TypeOK
    <3> QED
      BY <2>1, <2>2, <3>1
  <2> DEFINE r == [cmd[c] EXCEPT !.pc = IF Hit(c) THEN "source" ELSE "capture",
                                 !.auth = st]
  <2>4. cmd' = [cmd EXCEPT ![c] = r]
    BY <2>3 DEF TypeOK
  <2>5. r \in Requests /\ Aims(r)
    BY <1>1 DEF Requests, Pcs, Aims
  <2> QED
    BY <1>0, <1>1, <2>4, <2>5, StepTyped, OnlyCommands
<1> QED
  BY <1>2, <1>3

LEMMA CaptureInv == ASSUME IInv, NEW c \in Commands, Capture(c) PROVE IInv'
<1> USE DEF IInv
<1>0. cmd[c].pc = "capture" /\ UNCHANGED <<ticket, applied, bounds, history>>
  BY DEF Capture
<1>1. cmd[c] \in Requests /\ cmd[c].pc \in Pcs
  BY <1>0, LiveTyped DEF Pcs
<1>2. PICK st \in States \cup {Unknown} : snap' = [snap EXCEPT ![c] = st]
  BY ReadTyped DEF Capture
<1> DEFINE r == [cmd[c] EXCEPT !.pc = "source"]
<1>3. cmd' = [cmd EXCEPT ![c] = r]
  BY DEF Capture, Step, TypeOK
<1>4. r \in Requests /\ Aims(r)
  BY <1>1 DEF Requests, Pcs, Aims
<1>5. cmd' \in [Commands -> Kinds] /\ Destined'
  BY <1>1, <1>3, <1>4, StepTyped
<1>6. TypeOK'
  BY <1>0, <1>2, <1>5 DEF TypeOK, Kinds, ticket, bounds, history
<1>7. HandoverIsWhole'
  BY <1>0 DEF HandoverIsWhole, OwnerOf, ticket, bounds, history
<1> QED
  BY <1>5, <1>6, <1>7

LEMMA SourceInv == ASSUME IInv, NEW c \in Commands, Source(c) PROVE IInv'
<1> USE DEF IInv
<1>0. cmd[c].pc = "source" /\ UNCHANGED <<ticket, applied, snap, bounds, history>>
  BY DEF Source
<1>1. cmd[c] \in Requests /\ cmd[c].pc \in Pcs
  BY <1>0, LiveTyped DEF Pcs
<1>2. PICK st \in States \cup {Unknown} : cmd' = [cmd EXCEPT ![c].pc = "forward", ![c].src = st]
  BY ReadTyped DEF Source
<1> DEFINE r == [cmd[c] EXCEPT !.pc = "forward", !.src = st]
<1>3. cmd' = [cmd EXCEPT ![c] = r]
  BY <1>2 DEF TypeOK
<1>4. r \in Requests /\ Aims(r)
  BY <1>1 DEF Requests, Pcs, Aims
<1> QED
  BY <1>0, <1>1, <1>3, <1>4, StepTyped, OnlyCommands

(* Only an edge that is no generic one sends a delegate ahead of the write. *)
LEMMA ForwardInv == ASSUME IInv, NEW c \in Commands, Forward(c) PROVE IInv'
<1> USE DEF IInv
<1>0. cmd[c].pc = "forward" /\ UNCHANGED <<applied, snap, bounds, closed>>
  BY DEF Forward
<1>1. cmd[c] \in Requests /\ cmd[c].pc \in Pcs
  BY <1>0, LiveTyped DEF Pcs
<1>2. CASE Reply(c) /\ UNCHANGED <<ticket, split>>
  <2>1. UNCHANGED <<ticket, applied, snap, bounds, history>>
    BY <1>0, <1>2 DEF history
  <2> QED
    BY <1>1, <1>2, <2>1, ReplyTyped, OnlyCommands
<1>3. CASE ~ (Reply(c) /\ UNCHANGED <<ticket, split>>)
  <2> DEFINE r == [cmd[c] EXCEPT !.pc = "apply"]
  <2>1. cmd' = [cmd EXCEPT ![c] = r]
    BY <1>3 DEF Forward, Step, TypeOK
  <2>2. r \in Requests /\ Aims(r)
    BY <1>1 DEF Requests, Pcs, Aims
  <2>3. cmd' \in [Commands -> Kinds] /\ Destined'
    BY <1>1, <2>1, <2>2, StepTyped
  <2>4. ASSUME UNCHANGED <<ticket, split>>
        PROVE  IInv'
    <3>1. UNCHANGED <<ticket, applied, snap, bounds, history>>
      BY <1>0, <2>4 DEF history
    <3> QED
      BY <2>3, <3>1, OnlyCommands
  <2>5. ASSUME ~ UNCHANGED <<ticket, split>>
        PROVE  IInv'
    <3>1. PICK read \in Reads :
            LET st == IF cmd[c].src # Unknown THEN cmd[c].src ELSE read.st
                generic == /\ cmd[c].verb # "escape"
                           /\ \E e \in Edges(st, cmd[c].verb) : e.tag = "continue"
            IN  \E to \in Carried(c, st) :
                        /\ WriteTicket([tix EXCEPT !.who = OwnerOf(to)])
                        /\ split' = (split \/ ~ generic)
      BY <1>3, <2>5 DEF Forward
    <3> DEFINE st == IF cmd[c].src # Unknown THEN cmd[c].src ELSE read.st
               generic == /\ cmd[c].verb # "escape"
                          /\ \E e \in Edges(st, cmd[c].verb) : e.tag = "continue"
    <3>2. PICK to \in Carried(c, st) : /\ WriteTicket([tix EXCEPT !.who = OwnerOf(to)])
                                       /\ split' = (split \/ ~ generic)
      BY <3>1
    <3>3. Definition(wf)
      BY WorkflowTyped
    <3>4. to \in States
      BY <3>2, <3>3 DEF Carried, Definition, Edges
    <3>5. ~ generic
      <4> SUFFICES ASSUME generic PROVE FALSE
        OBVIOUS
      <4>1. PICK e \in Edges(st, cmd[c].verb) : e.tag = "continue"
        OBVIOUS
      <4>2. PICK f \in Edges(st, cmd[c].verb) : Injects(f)
        BY <3>2 DEF Carried
      <4>3. e = f
        BY <3>3, <4>1, <4>2 DEF Definition, Edges
      <4> QED
        BY <4>1, <4>2, <4>3 DEF Injects
    <3>6. split' = TRUE
      BY <3>2, <3>5 DEF TypeOK
    <3>7. [tix EXCEPT !.who = OwnerOf(to)] \in Tickets
      BY <3>4, WorkflowTyped DEF TypeOK, Tickets
    <3>8. tix' \in Tickets /\ old' \in Tickets
      BY <3>2, <3>7, WriteTyped
    <3>9. TypeOK'
      BY <1>0, <2>3, <3>6, <3>8 DEF TypeOK, Kinds, bounds
    <3> QED
      BY <2>3, <3>6, <3>9 DEF HandoverIsWhole
  <2> QED
    BY <2>4, <2>5
<1> QED
  BY <1>2, <1>3

LEMMA DestinationsTyped ==
    ASSUME TypeOK, NEW c \in Commands, NEW st \in States
    PROVE  Destinations(c, st) \subseteq States \cup {AdHoc}
<1>1. Definition(wf)
  BY WorkflowTyped
<1>2. Believed(st) \in States
  BY DEF Believed, TypeOK
<1>3. EscapeTo(Believed(st)) \in States \cup {AdHoc}
  BY <1>1, <1>2 DEF EscapeTo, Definition
<1>4. \A e \in Matches(st, cmd[c].verb) : e.to \in States
  BY MatchTyped
<1> QED
  BY <1>3, <1>4 DEF Destinations

LEMMA ApplyInv == ASSUME IInv, NEW c \in Commands, Apply(c) PROVE IInv'
<1> USE DEF IInv
<1>0. cmd[c].pc = "apply" /\ UNCHANGED <<ticket, applied, snap, bounds, history>>
  BY DEF Apply
<1>1. cmd[c] \in Requests /\ cmd[c].pc \in Pcs
  BY <1>0, LiveTyped DEF Pcs
<1>2. CASE Reply(c)
  BY <1>0, <1>1, <1>2, ReplyTyped, OnlyCommands
<1>3. CASE ~ Reply(c)
  <2>1. PICK read \in Reads :
          /\ read.st # AdHoc
          /\ \E dest \in Destinations(c, Current(c, read)) :
               cmd' = [cmd EXCEPT ![c].pc = "write", ![c].dest = dest, ![c].undo = read]
    BY <1>3 DEF Apply
  <2>2. read \in Tickets
    BY ReadTyped
  <2>3. Current(c, read) \in States
    BY <1>1, <2>1, <2>2 DEF Current, Requests, Tickets
  <2>4. PICK dest \in States \cup {AdHoc} :
          cmd' = [cmd EXCEPT ![c].pc = "write", ![c].dest = dest, ![c].undo = read]
    BY <2>1, <2>3, DestinationsTyped
  <2> DEFINE r == [cmd[c] EXCEPT !.pc = "write", !.dest = dest, !.undo = read]
  <2>5. cmd' = [cmd EXCEPT ![c] = r]
    BY <2>4 DEF TypeOK
  <2>6. r \in Requests
    <3>1. \A q \in Requests, d \in States \cup {AdHoc}, u \in Tickets :
            [q EXCEPT !.pc = "write", !.dest = d, !.undo = u] \in Requests
      BY DEF Requests, Pcs
    <3> QED
      BY <1>1, <2>2, <3>1
  <2>7. Aims(r)
    BY <1>1, NamesAssumption DEF Requests, Pcs, Aims, None, AdHoc
  <2> QED
    BY <1>0, <1>1, <2>5, <2>6, <2>7, StepTyped, OnlyCommands
<1> QED
  BY <1>2, <1>3

(* A verified write leaves a ticket, with the label of the one written, of    *)
(* the one before, or of the one it is rolled back to.                       *)
LEMMA SeatedTyped ==
    ASSUME NEW t \in Tickets, NEW whos \in SUBSET (Agents \cup {Nobody})
    PROVE  Seated(t, whos) \subseteq Tickets /\ \A x \in Seated(t, whos) : x.st = t.st
  BY DEF Seated, Tickets

LEMMA LeavesTyped ==
    ASSUME NEW t \in Tickets, NEW now \in Tickets, NEW undo \in Tickets, NEW result \in WriteResults
    PROVE  /\ Leaves(result, t, now, undo) \subseteq Tickets
           /\ \A x \in Leaves(result, t, now, undo) : x.st \in {t.st, now.st, undo.st}
           /\ result \in Accepted => \A x \in Leaves(result, t, now, undo) : x.st = t.st
<1>1. {t.who, now.who} \subseteq Agents \cup {Nobody}
      /\ {undo.who, t.who, now.who} \subseteq Agents \cup {Nobody}
  BY DEF Tickets
<1>2. /\ Seated(t, {t.who, now.who}) \subseteq Tickets
      /\ \A x \in Seated(t, {t.who, now.who}) : x.st = t.st
  BY <1>1, SeatedTyped
<1>3. /\ Seated(t, {undo.who, t.who, now.who}) \subseteq Tickets
      /\ \A x \in Seated(t, {undo.who, t.who, now.who}) : x.st = t.st
  BY <1>1, SeatedTyped
<1>4. /\ Seated(undo, {undo.who, t.who, now.who}) \subseteq Tickets
      /\ \A x \in Seated(undo, {undo.who, t.who, now.who}) : x.st = undo.st
  BY <1>1, SeatedTyped
<1> QED
  BY <1>2, <1>3, <1>4 DEF Leaves, WriteResults, Accepted

(* Whatever becomes of a verified write, the ticket stays one, and a write   *)
(* that lands leaves it as wanted.                                           *)
LEMMA VerifiedTyped ==
    ASSUME TypeOK, NEW t \in Tickets, NEW undo \in Tickets, NEW result \in WriteResults,
           t.st \in States, VerifiedWrite(t, undo, result)
    PROVE  /\ tix' \in Tickets /\ old' \in Tickets /\ applied' \in States \cup {None}
           /\ result = "ok" => tix' = t
           /\ result = "rejected" => UNCHANGED ticket
<1>1. applied' \in States \cup {None}
  BY DEF VerifiedWrite
<1>2. CASE result = "rejected"
  BY <1>1, <1>2 DEF VerifiedWrite, ticket, TypeOK
<1>3. CASE result # "rejected"
  <2>1. tix' \in Leaves(result, t, tix, undo)
        /\ old' \in {tix', tix, t}
    BY <1>3 DEF VerifiedWrite
  <2>2. Leaves(result, t, tix, undo) \subseteq Tickets
    BY LeavesTyped DEF TypeOK
  <2>3. result = "ok" => tix' = t
    BY <2>1 DEF Leaves
  <2> QED
    BY <1>1, <1>3, <2>1, <2>2, <2>3 DEF TypeOK
<1> QED
  BY <1>2, <1>3

(* The write of a transition seats the owner of the state it moves the       *)
(* ticket to.                                                                *)
LEMMA WriteInv == ASSUME IInv, NEW c \in Commands, Write(c) PROVE IInv'
<1> USE DEF IInv
<1> DEFINE dest == cmd[c].dest
           t == [st |-> dest, who |-> Seats(c)]
<1>0. cmd[c].pc = "write" /\ UNCHANGED bounds
  BY DEF Write
<1>1. cmd[c] \in Requests /\ cmd[c].pc \in Pcs
  BY <1>0, LiveTyped DEF Pcs
<1>2. dest \in States \cup {AdHoc} /\ cmd[c].undo \in Tickets /\ cmd[c].by \in Agents
  BY <1>0, <1>1 DEF Requests, Destined
<1>3. cmd' \in [Commands -> Kinds] /\ Destined'
  BY <1>1, ReplyTyped DEF Write
<1>4. CASE dest = AdHoc
  <2>1. UNCHANGED snap
    BY <1>4 DEF Write
  <2>2. CASE WriteTicket([tix EXCEPT !.st = AdHoc]) /\ applied' = None /\ closed' = FALSE /\ split' = TRUE
    <3>1. [tix EXCEPT !.st = AdHoc] \in Tickets
      BY DEF Tickets, TypeOK
    <3>2. tix' \in Tickets /\ old' \in Tickets
      BY <2>2, <3>1, WriteTyped
    <3>3. TypeOK'
      BY <1>0, <1>3, <2>1, <2>2, <3>2 DEF TypeOK, Kinds, bounds
    <3> QED
      BY <1>3, <2>2, <3>3 DEF HandoverIsWhole
  <2>3. CASE UNCHANGED <<ticket, applied, history>>
    BY <1>0, <1>3, <2>1, <2>3, OnlyCommands
  <2> QED
    BY <1>4, <2>2, <2>3 DEF Write
<1>5. CASE dest # AdHoc
  <2>1. PICK result \in WriteResults :
           /\ VerifiedWrite(t, cmd[c].undo, result)
           /\ IF result \in Accepted
              THEN /\ snap' = [d \in Commands |-> IF dest \in wf.terminal /\ d # c THEN None ELSE snap[d]]
                   /\ closed' = /\ cmd[c].verb # "escape"
                                /\ dest \in wf.terminal \/ (closed /\ Edges(tix.st, cmd[c].verb) = {})
                   /\ split' = (cmd[c].verb = "escape" \/ result = "unverified")
              ELSE /\ closed' = (closed /\ cmd[c].verb # "escape")
                   /\ split' = (split \/ result \in {"torn", "rolledBack"})
                   /\ UNCHANGED snap
    BY <1>5 DEF Write, ResultsAt
  <2>2. Seats(c) \in Agents \cup {Nobody}
    BY <1>2, <1>5, WorkflowTyped DEF Seats
  <2>3. t \in Tickets /\ t.st = dest /\ t.st \in States /\ t.who = Seats(c)
    BY <1>2, <1>5, <2>2 DEF Tickets
  <2>4. /\ tix' \in Tickets /\ old' \in Tickets /\ applied' \in States \cup {None}
        /\ result = "ok" => tix' = t
        /\ result = "rejected" => UNCHANGED ticket
    BY <1>2, <2>1, <2>3, VerifiedTyped
  <2>5. snap' \in [Commands -> States \cup {Unknown, None}]
    BY <2>1 DEF TypeOK
  <2>6. closed' \in BOOLEAN /\ split' \in BOOLEAN
    BY <2>1 DEF TypeOK
  <2>7. TypeOK'
    BY <1>0, <1>3, <2>4, <2>5, <2>6 DEF TypeOK, Kinds, bounds
  <2>8. HandoverIsWhole'
    <3> SUFFICES ASSUME ~ split' PROVE (tix.who = OwnerOf(tix.st))'
      BY DEF HandoverIsWhole
    <3>1. (OwnerOf(tix.st))' = OwnerOf(tix'.st)
      BY <1>0 DEF OwnerOf, bounds
    <3>2. CASE result = "ok"
      <4>1. cmd[c].verb # "escape"
        BY <2>1, <3>2 DEF Accepted
      <4>2. Seats(c) = OwnerOf(dest)
        BY <4>1 DEF Seats, Preserves
      <4> QED
        BY <2>3, <2>4, <3>1, <3>2, <4>2
    <3>3. CASE result # "ok"
      <4>1. result = "rejected" /\ ~ split
        BY <2>1, <3>3 DEF WriteResults, Accepted
      <4> QED
        BY <2>4, <3>1, <4>1 DEF HandoverIsWhole, ticket
    <3> QED
      BY <3>2, <3>3
  <2> QED
    BY <1>3, <2>7, <2>8
<1> QED
  BY <1>4, <1>5

(* The commands an override meets go on, and know of it.                     *)
LEMMA OvertakenTyped ==
    ASSUME TypeOK, Destined,
           cmd' = [c \in Commands |-> IF cmd[c].pc \in Pcs THEN [cmd[c] EXCEPT !.overtaken = TRUE]
                                                           ELSE cmd[c]]
    PROVE  cmd' \in [Commands -> Kinds] /\ Destined'
<1>1. \A c \in Commands : cmd[c].pc \in Pcs =>
        LET r == [cmd[c] EXCEPT !.overtaken = TRUE]
        IN  /\ r \in Requests /\ r.pc = cmd[c].pc /\ r.dest = cmd[c].dest
  <2>1. ASSUME NEW q \in Requests PROVE [q EXCEPT !.overtaken = TRUE] \in Requests
    BY DEF Requests
  <2>2. ASSUME NEW q \in Requests, NEW r, r = [q EXCEPT !.overtaken = TRUE]
        PROVE  r.pc = q.pc /\ r.dest = q.dest
    BY <2>2 DEF Requests
  <2>3. \A c \in Commands : cmd[c].pc \in Pcs => cmd[c] \in Requests
    BY LiveTyped
  <2> QED
    BY <2>1, <2>2, <2>3
<1>2. \A c \in Commands : cmd[c] \in Kinds
  BY DEF TypeOK, Kinds
<1>3. cmd' \in [Commands -> Kinds]
  BY <1>1, <1>2 DEF Kinds
<1>4. \A c \in Commands : /\ cmd[c].pc \in Pcs => cmd'[c].pc = cmd[c].pc /\ cmd'[c].dest = cmd[c].dest
                          /\ cmd[c].pc \notin Pcs => cmd'[c] = cmd[c]
  BY <1>1
<1>5. Destined'
  BY <1>4 DEF Destined
<1> QED
  BY <1>3, <1>5

LEMMA OverrideInv == ASSUME IInv, Override PROVE IInv'
<1> USE DEF IInv
<1>1. PICK target \in States, result \in WriteResults \ {"rolledBack"} :
        \E who \in {tix.who, OwnerOf(target)} :
             VerifiedWrite([st |-> target, who |-> who], tix, result)
  BY DEF Override
<1>2. PICK who \in {tix.who, OwnerOf(target)} :
             VerifiedWrite([st |-> target, who |-> who], tix, result)
  BY <1>1
<1>3. [st |-> target, who |-> who] \in Tickets /\ tix \in Tickets
  BY WorkflowTyped DEF TypeOK, Tickets
<1>4. tix' \in Tickets /\ old' \in Tickets /\ applied' \in States \cup {None}
  BY <1>2, <1>3, VerifiedTyped
<1>5. cmd' \in [Commands -> Kinds] /\ Destined'
  BY OvertakenTyped DEF Override
<1>6. upsets' \in 0..MaxUpsets
  BY BoundsAssumption DEF Override, TypeOK
<1>7. closed' = FALSE /\ split' = TRUE /\ UNCHANGED <<wf, lags, snap>>
  BY DEF Override
<1>8. TypeOK'
  BY <1>4, <1>5, <1>6, <1>7 DEF TypeOK, Kinds
<1> QED
  BY <1>5, <1>7, <1>8 DEF HandoverIsWhole

LEMMA TimeInv ==
    ASSUME IInv, \/ CatchUp \/ ExpireApplied \/ \E c \in Commands : ExpireSnapshot(c)
    PROVE  IInv'
<1> USE DEF IInv
<1>1. UNCHANGED <<wf, lags, tix, cmd, upsets, history>>
  BY DEF CatchUp, ExpireApplied, ExpireSnapshot, ticket, bounds
<1>2. old' \in {old, tix} /\ applied' \in {applied, None}
  BY DEF CatchUp, ExpireApplied, ExpireSnapshot, ticket
<1>3. snap' \in [Commands -> States \cup {Unknown, None}]
  BY DEF CatchUp, ExpireApplied, ExpireSnapshot, TypeOK
<1>4. TypeOK'
  BY <1>1, <1>2, <1>3 DEF TypeOK, history
<1>5. Destined' /\ HandoverIsWhole'
  BY <1>1 DEF Destined, HandoverIsWhole, OwnerOf, history
<1> QED
  BY <1>4, <1>5

LEMMA CrashInv == ASSUME IInv, Crash PROVE IInv'
<1> USE DEF IInv
<1>1. cmd' = [c \in Commands |-> IF cmd[c].pc \in Pcs THEN Answered(c) ELSE cmd[c]]
  BY DEF Crash
<1>2. \A c \in Commands : cmd[c].pc \in Pcs => cmd'[c] \in Kinds /\ cmd'[c].pc \notin Pcs
  <2> SUFFICES ASSUME NEW c \in Commands, cmd[c].pc \in Pcs
               PROVE  Answered(c) \in Kinds /\ Answered(c).pc \notin Pcs
    BY <1>1
  <2>1. {"over", "between"} \cap Pcs = {}
    BY DEF Pcs
  <2> QED
    BY <2>1, LiveTyped, AnsweredTyped
<1>3. \A c \in Commands : cmd[c].pc \notin Pcs => cmd'[c] = cmd[c]
  BY <1>1
<1>4. \A c \in Commands : cmd'[c] \in Kinds
  BY <1>2, <1>3 DEF TypeOK, Kinds
<1>5. cmd' \in [Commands -> Kinds]
  BY <1>1, <1>4
<1>6. "write" \in Pcs
  BY DEF Pcs
<1>7. Destined'
  BY <1>2, <1>3, <1>6 DEF Destined
<1>8. upsets' \in 0..MaxUpsets
  BY BoundsAssumption DEF Crash, TypeOK
<1>9. TypeOK'
  BY <1>5, <1>8 DEF TypeOK, Kinds, Crash, ticket, history
<1>10. HandoverIsWhole'
  BY DEF HandoverIsWhole, OwnerOf, Crash, ticket, history
<1> QED
  BY <1>7, <1>9, <1>10

-----------------------------------------------------------------------------
LEMMA InitInv == Init => IInv
<1> SUFFICES ASSUME Init PROVE IInv
  OBVIOUS
<1>1. <<wf, lags>> \in Settings
  BY SettingsAssumption DEF Init
<1>2. Definition(wf)
  BY <1>1, SettingsAssumption
<1>3. Start(wf) \in Tickets /\ lags \in BOOLEAN
  BY <1>1, <1>2, SettingsAssumption DEF Start, Tickets, Definition
<1>4. TypeOK
  <2>1. upsets \in 0..MaxUpsets
    BY BoundsAssumption DEF Init
  <2>2. snap \in [Commands -> States \cup {Unknown, None}]
    BY DEF Init
  <2>3. cmd \in [Commands -> Requests \cup {Idle, Over}]
    BY DEF Init
  <2>4. tix \in Tickets /\ old \in Tickets /\ applied \in States \cup {None}
        /\ closed \in BOOLEAN /\ split \in BOOLEAN
    BY <1>3 DEF Init
  <2> QED
    BY <1>1, <2>1, <2>2, <2>3, <2>4 DEF TypeOK
<1>5. Destined
  BY DEF Init, Destined, Idle, Pcs
<1>6. HandoverIsWhole
  BY <1>2, NamesAssumption DEF Init, HandoverIsWhole, Start, OwnerOf, Definition, AdHoc
<1> QED
  BY <1>4, <1>5, <1>6 DEF IInv

LEMMA StepInv == IInv /\ [Next]_vars => IInv'
<1> SUFFICES ASSUME IInv, [Next]_vars PROVE IInv'
  OBVIOUS
<1>1. CASE UNCHANGED vars
  BY <1>1 DEF vars, IInv, TypeOK, Destined, HandoverIsWhole, OwnerOf
<1>2. CASE Override
  BY <1>2, OverrideInv
<1>3. CASE Crash
  BY <1>3, CrashInv
<1>4. CASE CatchUp \/ ExpireApplied
  BY <1>4, TimeInv
<1>5. ASSUME NEW c \in Commands,
             \/ Begin(c) \/ Follow(c) \/ Resolve(c) \/ Check(c) \/ Capture(c)
             \/ Source(c) \/ Forward(c) \/ Apply(c) \/ Write(c) \/ ExpireSnapshot(c)
      PROVE  IInv'
  BY <1>5, BeginInv, FollowInv, ResolveInv, CheckInv, CaptureInv, SourceInv, ForwardInv,
     ApplyInv, WriteInv, TimeInv
<1> QED
  BY <1>1, <1>2, <1>3, <1>4, <1>5 DEF Next

THEOREM Invariance == Spec => []IInv
<1>1. Init => IInv
  BY InitInv
<1>2. IInv /\ [Next]_vars => IInv'
  BY StepInv
<1> QED
  BY <1>1, <1>2, PTL DEF Spec

(* The state of the proxy, of the stores and of the ticket has its type      *)
(* (workflow-gate.ts, proxy.ts, store/applied-state-store.ts).               *)
THEOREM TypeCorrect == Spec => []TypeOK
<1>1. IInv => TypeOK
  BY DEF IInv
<1> QED
  BY <1>1, Invariance, PTL

(* INF-1147: whatever commands, chunks, failed writes and lagging reads meet, *)
(* the delegate is the owner of the ticket's state, unless an override, the   *)
(* break-glass verb, a non-generic issueUpdate or a write that was undone,    *)
(* torn or accepted without being read back got in between.                   *)
THEOREM Handover == Spec => []HandoverIsWhole
<1>1. IInv => HandoverIsWhole
  BY DEF IInv
<1> QED
  BY <1>1, Invariance, PTL

-----------------------------------------------------------------------------
(* A closed ticket stays closed                                              *)

OneSpelling == \A k, l \in Keys : k = l
Sealed == \A x \in Settings : \A e \in x[1].edges : e.from \notin x[1].terminal

(* The lock lets one request at a time to the ticket.                        *)
OneAtATime == \A c, d \in Commands : cmd[c].pc \in Pcs /\ cmd[d].pc \in Pcs => c = d

(* The connector remembers that the ticket is closed, or Linear shows it.    *)
Remembered ==
    \/ applied \in wf.terminal
    \/ /\ applied = None /\ old.st = tix.st
       /\ \A c \in Commands : cmd[c].pc \in Pcs => cmd[c].src \in {Unknown, tix.st}

(* No command is about to move the closed ticket, but by breaking the glass. *)
NoneWrites == \A c \in Commands : cmd[c].pc = "write" => cmd[c].verb = "escape"

Rested == \A c \in Commands : cmd[c].pc = "between" => cmd[c].src = Unknown

ClosedInv == /\ OneAtATime /\ Rested
             /\ closed => tix.st \in wf.terminal /\ Remembered /\ NoneWrites

LEMMA ClosedInit == Init => ClosedInv
  BY DEF Init, ClosedInv, OneAtATime, Rested, Idle, Pcs

(* A request that goes on.                                                   *)
LEMMA GoesOn ==
    ASSUME TypeOK, ClosedInv, NEW c \in Commands, cmd[c].pc \in Pcs,
           UNCHANGED <<wf, applied, closed>>,
           tix'.st = tix.st, old'.st \in {old.st, tix.st},
           \A d \in Commands \ {c} : cmd'[d] = cmd[d],
           cmd'[c].pc \in Pcs, closed /\ cmd'[c].pc = "write" => cmd'[c].verb = "escape",
           \/ cmd'[c].src = cmd[c].src
           \/ cmd'[c].src \in {Unknown, tix.st, old.st}
    PROVE  ClosedInv'
<1>1. \A d \in Commands \ {c} : cmd[d].pc \notin Pcs
  BY DEF ClosedInv, OneAtATime
<1>2. OneAtATime'
  BY <1>1 DEF OneAtATime
<1>3. Rested'
  BY DEF ClosedInv, Rested, Pcs
<1>4. ASSUME closed'
      PROVE  tix'.st \in wf'.terminal /\ Remembered' /\ NoneWrites'
  <2>1. closed /\ tix.st \in wf.terminal /\ Remembered /\ NoneWrites
    BY <1>4 DEF ClosedInv
  <2>2. NoneWrites'
    BY <2>1 DEF NoneWrites
  <2>3. Remembered'
    BY <1>1, <2>1 DEF Remembered
  <2> QED
    BY <2>1, <2>2, <2>3
<1> QED
  BY <1>2, <1>3, <1>4 DEF ClosedInv

(* A request that ends.                                                      *)
LEMMA Ends ==
    ASSUME TypeOK, ClosedInv, NEW c \in Commands, cmd[c].pc \in Pcs,
           cmd' = [cmd EXCEPT ![c] = Answered(c)]
    PROVE  /\ OneAtATime' /\ Rested'
           /\ \A d \in Commands : cmd'[d].pc \notin Pcs
<1>1. \A d \in Commands : cmd'[d] = IF d = c THEN Answered(c) ELSE cmd[d]
  BY DEF TypeOK
<1>2. Answered(c).pc \in {"over", "between"} /\ (Answered(c).pc = "between" => Answered(c).src = Unknown)
  BY LiveTyped, AnsweredTyped
<1>3. \A d \in Commands : cmd'[d].pc \notin Pcs
  BY <1>1, <1>2 DEF ClosedInv, OneAtATime, Pcs
<1> QED
  BY <1>1, <1>2, <1>3 DEF ClosedInv, OneAtATime, Rested

(* A request that ends and left the ticket alone.                            *)
LEMMA EndsQuietly ==
    ASSUME IInv, ClosedInv, NEW c \in Commands, cmd[c].pc \in Pcs, Reply(c),
           UNCHANGED <<wf, ticket, applied, closed>>
    PROVE  ClosedInv'
<1>1. /\ OneAtATime' /\ Rested'
      /\ \A d \in Commands : cmd'[d].pc \notin Pcs
  BY Ends DEF Reply, IInv
<1>2. NoneWrites'
  BY <1>1 DEF NoneWrites, Pcs
<1>3. Remembered => Remembered'
  BY <1>1 DEF Remembered, ticket
<1> QED
  BY <1>1, <1>2, <1>3 DEF ClosedInv, ticket

LEMMA Alone ==
    ASSUME ClosedInv, NEW c \in Commands, cmd[c].pc \in Pcs
    PROVE  \A d \in Commands \ {c} : cmd[d].pc \notin Pcs
  BY DEF ClosedInv, OneAtATime

(* The lock is taken: nobody else is served, for there is one key.           *)
LEMMA LockTaken ==
    ASSUME OneSpelling, TypeOK, NEW k \in Keys, LockFree(k)
    PROVE  \A d \in Commands : cmd[d].pc \notin Pcs
<1>1. \A d \in Commands : cmd[d].pc \in Pcs => cmd[d].key \in Keys
  BY LiveTyped DEF Requests
<1> QED
  BY <1>1 DEF OneSpelling, LockFree

LEMMA EntryClosed ==
    ASSUME OneSpelling, IInv, ClosedInv, NEW c \in Commands, Begin(c) \/ Follow(c)
    PROVE  ClosedInv'
<1> USE DEF IInv
<1>1. UNCHANGED <<wf, applied, closed>> /\ tix' = tix /\ old' = old
  BY DEF Begin, Follow, ticket, bounds, history
<1>2. CASE Begin(c)
  <2>1. PICK by \in Agents, intent \in Intents, k \in Keys, update \in BOOLEAN :
        /\ LockFree(k)
        /\ cmd' = [cmd EXCEPT ![c] =
                     [pc |-> "resolve", by |-> by, intent |-> intent, key |-> k, update |-> update,
                      chunk |-> 1, verb |-> None, src |-> Unknown, dest |-> None,
                      undo |-> Start(wf), auth |-> None, overtaken |-> FALSE]]
    BY <1>2 DEF Begin
  <2>2. \A d \in Commands : cmd[d].pc \notin Pcs
    BY <2>1, LockTaken
  <2>3. \A d \in Commands \ {c} : cmd'[d] = cmd[d]
    BY <2>1 DEF TypeOK
  <2>4. cmd'[c].pc = "resolve" /\ cmd'[c].src = Unknown
    BY <2>1 DEF TypeOK
  <2> QED
    BY <1>1, <2>2, <2>3, <2>4 DEF ClosedInv, OneAtATime, Rested, Remembered, NoneWrites, Pcs
<1>3. CASE Follow(c)
  <2>1. cmd[c].pc = "between" /\ LockFree(cmd[c].key)
        /\ cmd' = [cmd EXCEPT ![c].pc = "resolve", ![c].chunk = @ + 1]
    BY <1>3 DEF Follow
  <2>2. cmd[c] \in Requests
    BY <2>1, LiveTyped
  <2>3. \A d \in Commands : cmd[d].pc \notin Pcs
    BY <2>1, <2>2, LockTaken DEF Requests
  <2>4. \A d \in Commands \ {c} : cmd'[d] = cmd[d]
    BY <2>1 DEF TypeOK
  <2>5. cmd'[c] = [cmd[c] EXCEPT !.pc = "resolve", !.chunk = @ + 1]
    BY <2>1, <2>2 DEF TypeOK
  <2>6. cmd[c].src = Unknown
    BY <2>1 DEF ClosedInv, Rested
  <2>7. cmd'[c].pc = "resolve" /\ cmd'[c].src = Unknown
    BY <2>2, <2>5, <2>6 DEF Requests
  <2> QED
    BY <1>1, <2>3, <2>4, <2>7 DEF ClosedInv, OneAtATime, Rested, Remembered, NoneWrites, Pcs
<1> QED
  BY <1>2, <1>3

(* The steps that read the ticket and decide, up to the forward.             *)
LEMMA DecidingClosed ==
    ASSUME IInv, ClosedInv, NEW c \in Commands,
           Resolve(c) \/ Check(c) \/ Capture(c) \/ Source(c) \/ Forward(c)
    PROVE  ClosedInv'
<1> USE DEF IInv
<1>1. cmd[c] \in Requests /\ cmd[c].pc \in Pcs
  BY LiveTyped DEF Resolve, Check, Capture, Source, Forward, Pcs
<1>2. UNCHANGED <<wf, applied, closed>>
  BY DEF Resolve, Check, Capture, Source, Forward, ticket, bounds, history
<1>3. tix'.st = tix.st /\ old'.st \in {old.st, tix.st}
  <2>1. CASE UNCHANGED ticket
    BY <2>1 DEF ticket
  <2>2. CASE ~ UNCHANGED ticket
    <3>1. Forward(c)
      BY <2>2 DEF Resolve, Check, Capture, Source
    <3>2. PICK to : WriteTicket([tix EXCEPT !.who = OwnerOf(to)])
      BY <2>2, <3>1 DEF Forward
    <3> QED
      BY <3>2 DEF WriteTicket, TypeOK, Tickets
  <2> QED
    BY <2>1, <2>2
<1>4. CASE Reply(c) /\ UNCHANGED ticket
  BY <1>1, <1>2, <1>4, EndsQuietly
<1>5. CASE ~ (Reply(c) /\ UNCHANGED ticket)
  <2>1. ASSUME \A d \in Commands \ {c} : cmd'[d] = cmd[d],
               cmd'[c].pc \in Pcs \ {"write"},
               cmd'[c].src = cmd[c].src \/ cmd'[c].src \in {Unknown, tix.st, old.st}
        PROVE  ClosedInv'
    BY <1>1, <1>2, <1>3, <2>1, GoesOn
  <2>2. CASE Resolve(c)
    <3>1. PICK v : cmd' = [cmd EXCEPT ![c].pc = "check", ![c].verb = v]
      BY <1>5, <2>2 DEF Resolve
    <3>2. cmd'[c].pc = "check" /\ cmd'[c].src = cmd[c].src /\ \A d \in Commands \ {c} : cmd'[d] = cmd[d]
      BY <1>1, <3>1 DEF Requests, TypeOK
    <3> QED
      BY <2>1, <3>2 DEF Pcs
  <2>3. CASE Check(c)
    <3>1. PICK pc, auth : /\ pc \in {"source", "capture"}
                           /\ cmd' = [cmd EXCEPT ![c].pc = pc, ![c].auth = auth]
      BY <1>5, <2>3 DEF Check
    <3>2. cmd'[c].pc = pc /\ cmd'[c].src = cmd[c].src /\ \A d \in Commands \ {c} : cmd'[d] = cmd[d]
      BY <1>1, <3>1 DEF Requests, TypeOK
    <3> QED
      BY <2>1, <3>1, <3>2 DEF Pcs
  <2>4. CASE Capture(c)
    <3>1. cmd' = [cmd EXCEPT ![c].pc = "source"]
      BY <2>4 DEF Capture, Step
    <3>2. cmd'[c].pc = "source" /\ cmd'[c].src = cmd[c].src /\ \A d \in Commands \ {c} : cmd'[d] = cmd[d]
      BY <1>1, <3>1 DEF Requests, TypeOK
    <3> QED
      BY <2>1, <3>2 DEF Pcs
  <2>5. CASE Source(c)
    <3>0. SeenStates \subseteq {Unknown, tix.st, old.st}
      BY DEF SeenStates, Reads
    <3>1. PICK st \in {Unknown, tix.st, old.st} :
            cmd' = [cmd EXCEPT ![c].pc = "forward", ![c].src = st]
      BY <2>5, <3>0 DEF Source
    <3>2. cmd'[c].pc = "forward" /\ cmd'[c].src = st /\ \A d \in Commands \ {c} : cmd'[d] = cmd[d]
      BY <1>1, <3>1 DEF Requests, TypeOK
    <3> QED
      BY <2>1, <3>2 DEF Pcs
  <2>6. CASE Forward(c)
    <3>1. cmd' = [cmd EXCEPT ![c].pc = "apply"]
      BY <1>5, <2>6 DEF Forward, Step
    <3>2. cmd'[c].pc = "apply" /\ cmd'[c].src = cmd[c].src /\ \A d \in Commands \ {c} : cmd'[d] = cmd[d]
      BY <1>1, <3>1 DEF Requests, TypeOK
    <3> QED
      BY <2>1, <3>2 DEF Pcs
  <2> QED
    BY <2>2, <2>3, <2>4, <2>5, <2>6
<1> QED
  BY <1>4, <1>5

(* The re-entry guard holds a command back from a closed ticket: what it     *)
(* believes, or what it read, is a terminal state, and no edge leaves one.   *)
LEMMA ApplyClosed ==
    ASSUME Sealed, IInv, ClosedInv, NEW c \in Commands, Apply(c)
    PROVE  ClosedInv'
<1> USE DEF IInv
<1>1. cmd[c] \in Requests /\ cmd[c].pc \in Pcs
  BY LiveTyped DEF Apply, Pcs
<1>2. UNCHANGED <<wf, applied, closed, ticket>> /\ tix' = tix /\ old' = old
  BY DEF Apply, ticket, bounds, history
<1>3. CASE Reply(c)
  BY <1>1, <1>2, <1>3, EndsQuietly
<1>4. CASE ~ Reply(c)
  <2>1. PICK read \in Reads :
          \E dest \in Destinations(c, Current(c, read)) :
               cmd' = [cmd EXCEPT ![c].pc = "write", ![c].dest = dest, ![c].undo = read]
    BY <1>4 DEF Apply
  <2>2. PICK dest \in Destinations(c, Current(c, read)) :
               cmd' = [cmd EXCEPT ![c].pc = "write", ![c].dest = dest, ![c].undo = read]
    BY <2>1
  <2>3. /\ cmd'[c].pc = "write" /\ cmd'[c].src = cmd[c].src /\ cmd'[c].verb = cmd[c].verb
        /\ \A d \in Commands \ {c} : cmd'[d] = cmd[d]
    BY <1>1, <2>2 DEF Requests, TypeOK
  <2>4. ASSUME closed, cmd[c].verb # "escape"
        PROVE  FALSE
    <3>1. tix.st \in wf.terminal /\ Remembered
      BY <2>4 DEF ClosedInv
    <3>2. Definition(wf) /\ wf.terminal \subseteq States
      BY WorkflowTyped DEF Definition
    <3>3. Current(c, read) \in {cmd[c].src, tix.st, old.st} /\ (cmd[c].src = Unknown => Current(c, read) \in {tix.st, old.st})
      BY DEF Current, Reads
    <3>4. Believed(Current(c, read)) \in wf.terminal
      <4>1. CASE applied \in wf.terminal
        BY <3>2, <4>1, NamesAssumption DEF Believed
      <4>2. CASE applied = None /\ old.st = tix.st
                 /\ \A d \in Commands : cmd[d].pc \in Pcs => cmd[d].src \in {Unknown, tix.st}
        BY <1>1, <3>1, <3>3, <4>2 DEF Believed
      <4> QED
        BY <3>1, <4>1, <4>2 DEF Remembered
    <3>5. \A v : Edges(Believed(Current(c, read)), v) = {}
      <4>1. \A e \in wf.edges : e.from \notin wf.terminal
        BY DEF Sealed, TypeOK
      <4> QED
        BY <3>4, <4>1 DEF Edges
    <3>6. Destinations(c, Current(c, read)) = {}
      BY <2>4, <3>4, <3>5 DEF Destinations, Reenters
    <3> QED
      BY <2>2, <3>6
  <2> QED
    BY <1>1, <1>2, <2>3, <2>4, GoesOn DEF Pcs
<1> QED
  BY <1>3, <1>4

(* A command that may write while the ticket is closed breaks the glass, and *)
(* a command that closes it leaves no other on its way.                      *)
LEMMA WriteClosed ==
    ASSUME Sealed, IInv, ClosedInv, NEW c \in Commands, Write(c)
    PROVE  ClosedInv'
<1> USE DEF IInv
<1> DEFINE dest == cmd[c].dest
<1>1. cmd[c] \in Requests /\ cmd[c].pc = "write" /\ cmd[c].pc \in Pcs /\ UNCHANGED wf
  BY LiveTyped DEF Write, Pcs, bounds
<1>2. Reply(c)
  BY DEF Write
<1>3. /\ OneAtATime' /\ Rested'
      /\ \A d \in Commands : cmd'[d].pc \notin Pcs
  BY <1>1, <1>2, Ends DEF Reply
<1>4. NoneWrites'
  BY <1>3 DEF NoneWrites, Pcs
<1>5. ASSUME closed'
      PROVE  tix'.st \in wf.terminal /\ Remembered'
  <2>1. closed => cmd[c].verb = "escape" /\ tix.st \in wf.terminal
    BY <1>1 DEF ClosedInv, NoneWrites
  <2>2. CASE dest = AdHoc
    <3>1. UNCHANGED <<ticket, applied, history>>
      BY <1>5, <2>2 DEF Write
    <3>2. closed /\ Remembered /\ tix.st \in wf.terminal
      BY <1>5, <3>1 DEF history, ClosedInv
    <3> QED
      BY <1>1, <1>3, <3>1, <3>2 DEF Remembered, ticket
  <2>3. CASE dest # AdHoc
    <3>1. PICK result \in WriteResults :
           /\ VerifiedWrite([st |-> dest, who |-> Seats(c)], cmd[c].undo, result)
           /\ IF result \in Accepted
              THEN closed' = /\ cmd[c].verb # "escape"
                             /\ dest \in wf.terminal \/ (closed /\ Edges(tix.st, cmd[c].verb) = {})
              ELSE closed' = (closed /\ cmd[c].verb # "escape")
      BY <2>3 DEF Write, ResultsAt
    <3>2. result \in Accepted /\ dest \in wf.terminal
      BY <1>5, <2>1, <3>1
    <3>3. tix'.st = dest /\ applied' = dest
      <4>1. cmd[c].undo \in Tickets /\ dest \in States /\ cmd[c].by \in Agents
        BY <1>1, <2>3 DEF Requests, Destined
      <4>2. [st |-> dest, who |-> Seats(c)] \in Tickets /\ tix \in Tickets
        BY <4>1, WorkflowTyped DEF Seats, Tickets, TypeOK
      <4>3. tix' \in Leaves(result, [st |-> dest, who |-> Seats(c)], tix, cmd[c].undo)
        BY <3>1, <3>2 DEF VerifiedWrite, Accepted
      <4>4. applied' = dest
        BY <3>1, <3>2 DEF VerifiedWrite
      <4> QED
        BY <3>1, <3>2, <4>1, <4>2, <4>3, <4>4, LeavesTyped
    <3> QED
      BY <1>1, <3>2, <3>3 DEF Remembered
  <2> QED
    BY <2>2, <2>3
<1> QED
  BY <1>1, <1>3, <1>4, <1>5 DEF ClosedInv

LEMMA OthersClosed ==
    ASSUME IInv, ClosedInv,
           Override \/ CatchUp \/ ExpireApplied \/ Crash \/ \E c \in Commands : ExpireSnapshot(c)
    PROVE  ClosedInv'
<1> USE DEF IInv
<1>1. CASE Override
  <2>1. \A c \in Commands : cmd[c].pc \in Pcs => cmd'[c].pc = cmd[c].pc
    BY <1>1, LiveTyped DEF Override, Requests
  <2>2. \A c \in Commands : cmd[c].pc \notin Pcs => cmd'[c] = cmd[c]
    BY <1>1 DEF Override
  <2>3. closed' = FALSE
    BY <1>1 DEF Override
  <2>4. OneAtATime'
    BY <2>1, <2>2 DEF ClosedInv, OneAtATime
  <2>5. Rested'
    BY <2>1, <2>2 DEF ClosedInv, Rested, Pcs
  <2> QED
    BY <2>3, <2>4, <2>5 DEF ClosedInv
<1>2. CASE CatchUp \/ \E c \in Commands : ExpireSnapshot(c)
  <2>1. UNCHANGED <<wf, tix, applied, cmd, closed>> /\ old' \in {old, tix}
    BY <1>2 DEF CatchUp, ExpireSnapshot, ticket, bounds, history
  <2> QED
    BY <2>1 DEF ClosedInv, OneAtATime, Rested, Remembered, NoneWrites
<1>3. CASE ExpireApplied
  <2>1. UNCHANGED <<wf, tix, old, cmd, closed>> /\ old = tix /\ applied' = None
        /\ \A c \in Commands : cmd[c].pc \notin Pcs
    BY <1>3 DEF ExpireApplied, ticket, bounds, history
  <2> QED
    BY <2>1 DEF ClosedInv, OneAtATime, Rested, Remembered, NoneWrites
<1>4. CASE Crash
  <2>1. UNCHANGED <<wf, tix, old, closed>> /\ old = tix /\ applied' = None
        /\ cmd' = [c \in Commands |-> IF cmd[c].pc \in Pcs THEN Answered(c) ELSE cmd[c]]
    BY <1>4 DEF Crash, ticket, history
  <2>2. \A c \in Commands : cmd[c].pc \in Pcs =>
          /\ cmd'[c].pc \notin Pcs /\ (cmd'[c].pc = "between" => cmd'[c].src = Unknown)
    <3> SUFFICES ASSUME NEW c \in Commands, cmd[c].pc \in Pcs
                 PROVE  /\ Answered(c).pc \notin Pcs
                        /\ Answered(c).pc = "between" =>
                             Answered(c).src = Unknown
      BY <2>1
    <3>1. cmd[c] \in Requests
      BY LiveTyped
    <3>2. {"over", "between"} \cap Pcs = {}
      BY DEF Pcs
    <3> QED
      BY <3>1, <3>2, AnsweredTyped
  <2>3. \A c \in Commands : cmd[c].pc \notin Pcs => cmd'[c] = cmd[c]
    BY <2>1
  <2>4. \A c \in Commands : cmd'[c].pc \notin Pcs
    BY <2>2, <2>3
  <2>5. Rested'
    BY <2>2, <2>3 DEF ClosedInv, Rested
  <2>6. "write" \in Pcs
    BY DEF Pcs
  <2> QED
    BY <2>1, <2>4, <2>5, <2>6 DEF ClosedInv, OneAtATime, Remembered, NoneWrites
<1> QED
  BY <1>1, <1>2, <1>3, <1>4

LEMMA ClosedStep == OneSpelling /\ Sealed /\ IInv /\ ClosedInv /\ [Next]_vars => ClosedInv'
<1> SUFFICES ASSUME OneSpelling, Sealed, IInv, ClosedInv, [Next]_vars PROVE ClosedInv'
  OBVIOUS
<1>1. CASE UNCHANGED vars
  BY <1>1 DEF vars, ClosedInv, OneAtATime, Rested, Remembered, NoneWrites
<1>2. CASE Override \/ CatchUp \/ ExpireApplied \/ Crash
  BY <1>2, OthersClosed
<1>3. ASSUME NEW c \in Commands,
             \/ Begin(c) \/ Follow(c) \/ Resolve(c) \/ Check(c) \/ Capture(c)
             \/ Source(c) \/ Forward(c) \/ Apply(c) \/ Write(c) \/ ExpireSnapshot(c)
      PROVE  ClosedInv'
  BY <1>3, EntryClosed, DecidingClosed, ApplyClosed, WriteClosed, OthersClosed
<1> QED
  BY <1>1, <1>2, <1>3 DEF Next

(* A ticket that a command closed stays closed, whatever other commands and  *)
(* chunks were on their way and however far reads lag: where every request   *)
(* spells the ticket's id alike (proxy.ts:80-104) and the workflow declares  *)
(* no way out of its terminal states.                                        *)
THEOREM ClosedStaysClosed ==
    ASSUME OneSpelling, Sealed PROVE Spec => []TerminalIsFinal
<1>1. Init => ClosedInv
  BY ClosedInit
<1>2. IInv /\ ClosedInv /\ [Next]_vars => ClosedInv'
  BY ClosedStep
<1>3. ClosedInv => TerminalIsFinal
  BY DEF ClosedInv, TerminalIsFinal
<1> QED
  BY <1>1, <1>2, <1>3, Invariance, PTL DEF Spec

-----------------------------------------------------------------------------
(* What a request was authorised for is what it does                        *)

(* Forward edges out of an approval gate have verbs of their own, but for   *)
(* the generic ones, which agents reach as continue-workflow only unless the *)
(* edge nominates an approver.                                               *)
GateVerbsDiffer ==
    \A x \in Settings : \A e, f \in x[1].edges :
        e.from \in x[1].gates /\ e.tag # "revision" /\ e.verb = f.verb /\ e.from # f.from
            => \A g \in {e, f} : g.tag = "continue" /\ ~ g.approver

ForwardGate(v) == tix.st \in wf.gates /\ \E e \in Edges(tix.st, v) : e.tag # "revision"

(* The commands that must not take a gate on from a state they left before.  *)
Guarded(c) == cmd[c].intent # "begin-workflow" /\ cmd[c].verb # "force-deploy"

(* Reads are current, and the applied-state store is right or empty.        *)
ReadsTrue == (~ lags => old = tix) /\ applied \in {None, tix.st}

(* The verb is the one named, or the one resolved in the state the request  *)
(* is going to be authorised in.                                            *)
Resolved(c) ==
    /\ cmd[c].intent \notin Meta => cmd[c].verb = cmd[c].intent
    /\ cmd[c].intent \in Meta /\ Hit(c) /\ snap[c] # Unknown =>
         /\ \E f \in Edges(snap[c], cmd[c].verb) : cmd[c].intent = "request-revision" => f.tag # "continue"
         /\ ~ GateRests(c, tix.st)

(* The caller may fire an edge of the state it was authorised in, which is   *)
(* the ticket's if that is a gate the verb advances and verbs tell gates     *)
(* apart.                                                                    *)
Authorised(c) ==
    /\ Matches(cmd[c].auth, cmd[c].verb) # {}
    /\ VerbsDiffer => \E e \in Matches(cmd[c].auth, cmd[c].verb) : MayFire(cmd[c].by, cmd[c].verb, e)
    /\ GateVerbsDiffer /\ Guarded(c) /\ ForwardGate(cmd[c].verb) => cmd[c].auth = tix.st

(* The write goes along an edge from where the ticket is; undone, it goes    *)
(* nowhere.                                                                  *)
Aimed(c) ==
    /\ \E e \in Matches(tix.st, cmd[c].verb) : e.to = cmd[c].dest
    /\ cmd[c].undo.st = tix.st

Undisturbed(c) == ~ lags /\ ~ cmd[c].overtaken

Fine(c) ==
    /\ cmd[c].pc \in Pcs \cup {"between"} => cmd[c].intent \in Intents
    /\ cmd[c].pc \in {"forward", "apply"} /\ Undisturbed(c) => cmd[c].src \in {Unknown, tix.st}
    /\ cmd[c].pc = "check" /\ Undisturbed(c) => Resolved(c)
    /\ cmd[c].pc \in {"capture", "source", "forward", "apply", "write"}
         /\ cmd[c].verb # "escape" /\ Undisturbed(c) => Authorised(c)
    /\ cmd[c].pc = "write" /\ cmd[c].verb # "escape" /\ Undisturbed(c) => Aimed(c)

ActInv == OneAtATime /\ ReadsTrue /\ \A c \in Commands : Fine(c)

(* What depends on the workflow alone.                                      *)
LEMMA SameWorkflow ==
    ASSUME UNCHANGED wf
    PROVE  /\ \A s, v : Edges(s, v)' = Edges(s, v)
           /\ \A s, v : Matches(s, v)' = Matches(s, v)
           /\ \A b, v, e : MayFire(b, v, e)' = MayFire(b, v, e)
           /\ VerbsDiffer' = VerbsDiffer
           /\ tix'.st = tix.st => \A v : ForwardGate(v)' = ForwardGate(v)
<1>1. \A s, v : Edges(s, v)' = Edges(s, v)
  BY DEF Edges
<1>2. \A s, v : Matches(s, v)' = Matches(s, v)
  BY <1>1 DEF Matches
<1>3. \A b, v, e : MayFire(b, v, e)' = MayFire(b, v, e)
  BY DEF MayFire, ActsAsOwner
<1>4. VerbsDiffer' = VerbsDiffer
  BY <1>2 DEF VerbsDiffer
<1> QED
  BY <1>1, <1>2, <1>3, <1>4 DEF ForwardGate

LEMMA ActInit == Init => ActInv
  BY DEF Init, ActInv, OneAtATime, ReadsTrue, Fine, Idle, Pcs

(* A request that goes on: the other commands wait.                         *)
LEMMA GoesOnFine ==
    ASSUME TypeOK, ActInv, NEW c \in Commands, cmd[c].pc \in Pcs, cmd'[c].pc \in Pcs,
           UNCHANGED <<wf, lags, applied>>, tix'.st = tix.st, ~ lags => old' = tix',
           \A d \in Commands \ {c} : cmd'[d] = cmd[d],
           Fine(c)'
    PROVE  ActInv'
<1>1. \A d \in Commands \ {c} : cmd[d].pc \notin Pcs
  BY DEF ActInv, OneAtATime
<1>2. OneAtATime'
  BY <1>1 DEF OneAtATime
<1>3. ASSUME NEW d \in Commands \ {c} PROVE Fine(d)'
  <2>1. cmd[d].pc = "between" => cmd[d].intent \in Intents
    BY DEF ActInv, Fine
  <2>2. Intents' = Intents
    BY DEF Intents
  <2> QED
    BY <1>1, <2>1, <2>2 DEF Fine, Pcs
<1>4. ReadsTrue'
  BY DEF ActInv, ReadsTrue
<1> QED
  BY <1>2, <1>3, <1>4 DEF ActInv

(* A request that ends.                                                      *)
LEMMA EndsFine ==
    ASSUME TypeOK, ActInv, NEW c \in Commands, cmd[c].pc \in Pcs,
           cmd' = [cmd EXCEPT ![c] = Answered(c)], UNCHANGED wf, ReadsTrue'
    PROVE  ActInv'
<1>1. \A d \in Commands : cmd'[d] = IF d = c THEN Answered(c) ELSE cmd[d]
  BY DEF TypeOK
<1>2. cmd[c] \in Requests
  BY LiveTyped
<1>3. /\ Answered(c).pc \in {"over", "between"}
      /\ Answered(c).pc = "between" => Answered(c).intent = cmd[c].intent
  BY <1>2, AnsweredTyped
<1>4. \A d \in Commands : cmd'[d].pc \notin Pcs
  BY <1>1, <1>3 DEF ActInv, OneAtATime, Pcs
<1>5. Intents' = Intents
  BY DEF Intents
<1>6. \A d \in Commands : cmd'[d].pc = "between" => cmd'[d].intent \in Intents
  BY <1>1, <1>3 DEF ActInv, Fine
<1>7. ASSUME NEW d \in Commands PROVE Fine(d)'
  BY <1>4, <1>5, <1>6, <1>7 DEF Fine, Pcs
<1> QED
  BY <1>4, <1>7 DEF ActInv, OneAtATime

LEMMA ReplyFine ==
    ASSUME TypeOK, ActInv, NEW c \in Commands, cmd[c].pc \in Pcs, Reply(c),
           UNCHANGED <<wf, lags, ticket, applied>>
    PROVE  ActInv'
<1>1. ReadsTrue'
  BY DEF ActInv, ReadsTrue, ticket
<1> QED
  BY <1>1, EndsFine DEF Reply

LEMMA EntryFine ==
    ASSUME OneSpelling, TypeOK, ActInv, NEW c \in Commands, Begin(c) \/ Follow(c)
    PROVE  ActInv'
<1>1. UNCHANGED <<wf, lags, applied>> /\ tix' = tix /\ old' = old
  BY DEF Begin, Follow, ticket, bounds, history
<1>2. ReadsTrue' /\ Intents' = Intents
  BY <1>1 DEF ActInv, ReadsTrue, Intents
<1>3. ASSUME \A d \in Commands : cmd[d].pc \notin Pcs,
             \A d \in Commands \ {c} : cmd'[d] = cmd[d],
             cmd'[c].pc = "resolve", cmd'[c].intent \in Intents
      PROVE  ActInv'
  <2>1. OneAtATime'
    BY <1>3 DEF OneAtATime
  <2>2. Fine(c)'
    BY <1>2, <1>3 DEF Fine
  <2>3. ASSUME NEW d \in Commands \ {c} PROVE Fine(d)'
    <3>1. cmd[d].pc = "between" => cmd[d].intent \in Intents
      BY DEF ActInv, Fine
    <3> QED
      BY <1>2, <1>3, <3>1 DEF Fine, Pcs
  <2> QED
    BY <1>2, <2>1, <2>2, <2>3 DEF ActInv
<1>4. CASE Begin(c)
  <2>1. PICK by \in Agents, intent \in Intents, k \in Keys, update \in BOOLEAN :
        /\ LockFree(k)
        /\ cmd' = [cmd EXCEPT ![c] =
                     [pc |-> "resolve", by |-> by, intent |-> intent, key |-> k, update |-> update,
                      chunk |-> 1, verb |-> None, src |-> Unknown, dest |-> None,
                      undo |-> Start(wf), auth |-> None, overtaken |-> FALSE]]
    BY <1>4 DEF Begin
  <2>2. \A d \in Commands : cmd[d].pc \notin Pcs
    BY <2>1, LockTaken
  <2>3. /\ \A d \in Commands \ {c} : cmd'[d] = cmd[d]
        /\ cmd'[c].pc = "resolve" /\ cmd'[c].intent \in Intents
    BY <2>1 DEF TypeOK
  <2> QED
    BY <1>3, <2>2, <2>3
<1>5. CASE Follow(c)
  <2>1. cmd[c].pc = "between" /\ LockFree(cmd[c].key)
        /\ cmd' = [cmd EXCEPT ![c].pc = "resolve", ![c].chunk = @ + 1]
    BY <1>5 DEF Follow
  <2>2. cmd[c] \in Requests
    BY <2>1, LiveTyped
  <2>3. \A d \in Commands : cmd[d].pc \notin Pcs
    BY <2>1, <2>2, LockTaken DEF Requests
  <2>4. /\ \A d \in Commands \ {c} : cmd'[d] = cmd[d]
        /\ cmd'[c] = [cmd[c] EXCEPT !.pc = "resolve", !.chunk = @ + 1]
    BY <2>1, <2>2 DEF TypeOK
  <2>5. cmd'[c].pc = "resolve" /\ cmd'[c].intent \in Intents
    <3>1. cmd[c].intent \in Intents
      BY <2>1 DEF ActInv, Fine
    <3> QED
      BY <2>2, <2>4, <3>1 DEF Requests
  <2> QED
    BY <1>3, <2>3, <2>4, <2>5
<1> QED
  BY <1>4, <1>5

(* A routine verb is the verb of an edge of the state it was resolved in.   *)
LEMMA RoutineEdge ==
    ASSUME NEW intent, NEW s, NEW v \in RoutineVerbs(intent, s)
    PROVE  \E f \in Edges(s, v) : intent = "request-revision" => f.tag # "continue"
<1>1. CASE intent = "request-revision"
  <2>1. PICK f \in From(s) : Revision(f) /\ f.verb = v
    BY <1>1 DEF RoutineVerbs, RoutineRevision, Tagged, VerbsOf
  <2>2. f \in Edges(s, v) /\ f.tag # "continue"
    BY <2>1 DEF Edges, From, Revision
  <2> QED
    BY <2>2
<1>2. CASE intent # "request-revision"
  <2>1. \E f \in From(s) : f.verb = v
    BY <1>2 DEF RoutineVerbs, RoutineForward, Tagged, VerbsOf
  <2> QED
    BY <1>2, <2>1 DEF Edges, From
<1> QED
  BY <1>1, <1>2

LEMMA CurrentReads ==
    ASSUME ActInv, ~ lags
    PROVE  Reads = {tix} /\ SeenStates \subseteq {Unknown, tix.st} /\ Believed(tix.st) = tix.st
  BY DEF ActInv, ReadsTrue, Reads, SeenStates, Believed

LEMMA ResolveFine == ASSUME TypeOK, ActInv, NEW c \in Commands, Resolve(c) PROVE ActInv'
<1>1. cmd[c] \in Requests /\ cmd[c].pc = "resolve" /\ cmd[c].pc \in Pcs
  BY LiveTyped DEF Resolve, Pcs
<1>2. UNCHANGED <<wf, lags, applied, snap, ticket>> /\ tix' = tix /\ old' = old
  BY DEF Resolve, ticket, bounds
<1>3. CASE Reply(c)
  BY <1>1, <1>2, <1>3, ReplyFine
<1>4. CASE ~ Reply(c)
  <2>1. PICK v : /\ cmd' = [cmd EXCEPT ![c].pc = "check", ![c].verb = v]
                 /\ cmd[c].intent \notin Meta => v = cmd[c].intent
                 /\ cmd[c].intent \in Meta =>
                      \E read \in Reads :
                         LET st == IF Hit(c) /\ snap[c] # Unknown THEN snap[c] ELSE read.st
                         IN  ~ GateRests(c, read.st) /\ v \in RoutineVerbs(cmd[c].intent, st)
    BY <1>4 DEF Resolve
  <2>2. cmd'[c] = [cmd[c] EXCEPT !.pc = "check", !.verb = v] /\ \A d \in Commands \ {c} : cmd'[d] = cmd[d]
    BY <1>1, <2>1 DEF TypeOK
  <2>3. /\ cmd'[c].pc = "check" /\ cmd'[c].verb = v /\ cmd'[c].intent = cmd[c].intent
        /\ cmd'[c].update = cmd[c].update /\ cmd'[c].overtaken = cmd[c].overtaken
    BY <1>1, <2>2 DEF Requests
  <2>4. ASSUME ~ lags PROVE Resolved(c)'
    <3>1. Hit(c)' = Hit(c) /\ GateRests(c, tix.st)' = GateRests(c, tix.st)
      BY <1>2, <2>3 DEF Hit, GateRests
    <3>2. ASSUME cmd[c].intent \in Meta, Hit(c), snap[c] # Unknown
          PROVE  /\ \E f \in Edges(snap[c], v) : cmd[c].intent = "request-revision" => f.tag # "continue"
                 /\ ~ GateRests(c, tix.st)
      <4>1. ~ GateRests(c, tix.st) /\ v \in RoutineVerbs(cmd[c].intent, snap[c])
        BY <2>1, <2>4, <3>2, CurrentReads
      <4> QED
        BY <4>1, RoutineEdge
    <3>3. \A s, x : Edges(s, x)' = Edges(s, x)
      BY <1>2, SameWorkflow
    <3> QED
      BY <1>2, <2>1, <2>3, <3>1, <3>2, <3>3 DEF Resolved
  <2>5. Intents' = Intents /\ cmd[c].intent \in Intents
    BY <1>1, <1>2 DEF Intents, ActInv, Fine
  <2>6. Fine(c)'
    BY <1>2, <2>3, <2>4, <2>5 DEF Fine, Undisturbed
  <2>7. ~ lags => old' = tix'
    BY <1>2 DEF ActInv, ReadsTrue
  <2> QED
    BY <1>1, <1>2, <2>2, <2>3, <2>6, <2>7, GoesOnFine DEF Pcs
<1> QED
  BY <1>3, <1>4

(* A verb that is allowed in the state the command was authorised in does    *)
(* not advance the gate that the ticket is in by now.                        *)
LEMMA NoStaleGate ==
    ASSUME GateVerbsDiffer, TypeOK, NEW c \in Commands, Hit(c), snap[c] # Unknown, Resolved(c),
           cmd[c].intent \in Intents, cmd[c].verb # "escape", Guarded(c),
           Edges(snap[c], cmd[c].verb) # {}, ForwardGate(cmd[c].verb)
    PROVE  snap[c] = tix.st
<1> SUFFICES ASSUME snap[c] # tix.st PROVE FALSE
  OBVIOUS
<1>1. PICK e \in wf.edges : e.from = tix.st /\ e.verb = cmd[c].verb /\ e.tag # "revision"
  BY DEF ForwardGate, Edges
<1>2. \A f \in wf.edges : f.verb = e.verb /\ f.from # e.from =>
        e.tag = "continue" /\ ~ e.approver /\ f.tag = "continue" /\ ~ f.approver
  BY <1>1 DEF GateVerbsDiffer, TypeOK, ForwardGate
<1>3. \A f \in Edges(snap[c], cmd[c].verb) : f.tag = "continue"
  BY <1>1, <1>2 DEF Edges
<1>4. e.tag = "continue" /\ ~ e.approver
  BY <1>1, <1>2 DEF Edges
<1>5. CASE cmd[c].intent = "request-revision"
  BY <1>3, <1>5 DEF Resolved, Meta
<1>6. CASE cmd[c].intent = "continue-workflow"
  BY <1>6 DEF Resolved, Meta, GateRests, ForwardGate
<1>7. CASE cmd[c].intent \notin Meta
  <2>1. cmd[c].verb = cmd[c].intent /\ cmd[c].verb \notin {"escape", "force-deploy"}
    BY <1>7 DEF Resolved, Guarded
  <2>2. PICK f \in wf.edges : (f.tag # "continue" \/ f.approver) /\ f.verb = e.verb
    BY <1>1, <1>7, <2>1 DEF Intents
  <2>3. f.from = e.from
    BY <1>2, <2>2
  <2>4. f = e
    BY <2>2, <2>3, WorkflowTyped DEF Definition
  <2> QED
    BY <1>4, <2>2, <2>4
<1> QED
  BY <1>5, <1>6, <1>7 DEF Meta, Guarded

LEMMA CheckFine ==
    ASSUME TypeOK, ActInv, NEW c \in Commands, Check(c)
    PROVE  ActInv'
<1>1. cmd[c] \in Requests /\ cmd[c].pc = "check" /\ cmd[c].pc \in Pcs
  BY LiveTyped DEF Check, Pcs
<1>2. UNCHANGED <<wf, lags, applied, snap, ticket>> /\ tix' = tix /\ old' = old
  BY DEF Check, ticket, bounds
<1>3. CASE Reply(c)
  BY <1>1, <1>2, <1>3, ReplyFine
<1>4. CASE ~ Reply(c)
  <2>1. PICK read \in Reads :
          LET st == IF Hit(c) /\ snap[c] # Unknown THEN snap[c] ELSE Believed(read.st)
          IN  /\ read.st # AdHoc /\ Registered(c, read)
              /\ cmd[c].verb # "escape" => Allowed(c, read, st)
              /\ cmd' = [cmd EXCEPT ![c].pc = IF Hit(c) THEN "source" ELSE "capture", ![c].auth = st]
    BY <1>4 DEF Check
  <2> DEFINE st == IF Hit(c) /\ snap[c] # Unknown THEN snap[c] ELSE Believed(read.st)
             pc == IF Hit(c) THEN "source" ELSE "capture"
  <2>2. cmd'[c] = [cmd[c] EXCEPT !.pc = pc, !.auth = st] /\ \A d \in Commands \ {c} : cmd'[d] = cmd[d]
    BY <1>1, <2>1 DEF TypeOK
  <2>3. /\ cmd'[c].pc = pc /\ cmd'[c].verb = cmd[c].verb /\ cmd'[c].intent = cmd[c].intent
        /\ cmd'[c].by = cmd[c].by /\ cmd'[c].auth = st /\ cmd'[c].overtaken = cmd[c].overtaken
    BY <1>1, <2>2 DEF Requests
  <2>4. ASSUME Undisturbed(c), cmd[c].verb # "escape" PROVE Authorised(c)'
    <3>1. ~ lags /\ read = tix /\ Believed(tix.st) = tix.st
      BY <2>4, CurrentReads DEF Undisturbed
    <3>2. PICK e \in Matches(st, cmd[c].verb) :
            cmd[c].by \in Known => MayFire(cmd[c].by, cmd[c].verb, e)
      BY <2>1, <2>4 DEF Allowed
    <3>3. ASSUME GateVerbsDiffer, Guarded(c), ForwardGate(cmd[c].verb) PROVE st = tix.st
      <4>1. CASE Hit(c) /\ snap[c] # Unknown
        <5>1. Resolved(c) /\ cmd[c].intent \in Intents
          BY <1>1, <2>4 DEF ActInv, Fine
        <5>2. Edges(snap[c], cmd[c].verb) # {}
          BY <3>2, <3>3, <4>1 DEF Matches, Guarded
        <5> QED
          BY <2>4, <3>3, <4>1, <5>1, <5>2, NoStaleGate
      <4>2. CASE ~ (Hit(c) /\ snap[c] # Unknown)
        BY <3>1, <4>2
      <4> QED
        BY <4>1, <4>2
    <3>4. ASSUME VerbsDiffer
          PROVE  \E f \in Matches(st, cmd[c].verb) : MayFire(cmd[c].by, cmd[c].verb, f)
      <4>1. CASE cmd[c].by \in Known
        BY <3>2, <4>1
      <4>2. CASE cmd[c].by \notin Known
        <5>1. PICK f \in Edges(tix.st, cmd[c].verb) : f.human
          BY <2>1, <3>1, <4>2 DEF Registered
        <5>2. f \in Matches(tix.st, cmd[c].verb)
          BY <5>1 DEF Matches
        <5>3. tix.st \in States /\ st \in States /\ cmd[c].verb \in Verbs
          BY <3>2, <5>2, MatchTyped
        <5>4. st = tix.st
          BY <3>2, <3>4, <5>2, <5>3 DEF VerbsDiffer
        <5> QED
          BY <4>2, <5>1, <5>2, <5>4 DEF MayFire
      <4> QED
        BY <4>1, <4>2
    <3> HIDE DEF st
    <3>5. Guarded(c)' = Guarded(c)
      BY <2>3 DEF Guarded
    <3> QED
      BY <1>2, <2>3, <3>2, <3>3, <3>4, <3>5, SameWorkflow DEF Authorised
  <2>5. Intents' = Intents /\ cmd[c].intent \in Intents
    BY <1>1, <1>2 DEF Intents, ActInv, Fine
  <2>6. Fine(c)'
    BY <1>2, <2>3, <2>4, <2>5 DEF Fine, Undisturbed
  <2>7. ~ lags => old' = tix'
    BY <1>2 DEF ActInv, ReadsTrue
  <2> QED
    BY <1>1, <1>2, <2>2, <2>3, <2>6, <2>7, GoesOnFine DEF Pcs
<1> QED
  BY <1>3, <1>4

(* A step that keeps what the request was authorised for.                   *)
LEMMA AuthorisedKept ==
    ASSUME NEW c \in Commands, Authorised(c), UNCHANGED wf, tix'.st = tix.st,
           cmd'[c].auth = cmd[c].auth, cmd'[c].verb = cmd[c].verb, cmd'[c].by = cmd[c].by,
           cmd'[c].intent = cmd[c].intent
    PROVE  Authorised(c)'
  BY SameWorkflow DEF Authorised, Guarded

LEMMA OnItsWayFine ==
    ASSUME TypeOK, ActInv, NEW c \in Commands, Capture(c) \/ Source(c) \/ Forward(c)
    PROVE  ActInv'
<1>1. cmd[c] \in Requests /\ cmd[c].pc \in {"capture", "source", "forward"} /\ cmd[c].pc \in Pcs
  BY LiveTyped DEF Capture, Source, Forward, Pcs
<1>2. UNCHANGED <<wf, lags, applied>>
  BY DEF Capture, Source, Forward, bounds
<1>3. tix'.st = tix.st /\ (~ lags => old' = tix')
  <2>1. CASE UNCHANGED ticket
    BY <2>1 DEF ticket, ActInv, ReadsTrue
  <2>2. CASE ~ UNCHANGED ticket
    <3>1. PICK to : WriteTicket([tix EXCEPT !.who = OwnerOf(to)])
      BY <2>2 DEF Capture, Source, Forward
    <3> QED
      BY <3>1 DEF WriteTicket, TypeOK, Tickets
  <2> QED
    BY <2>1, <2>2
<1>4. CASE Reply(c) /\ UNCHANGED ticket
  BY <1>1, <1>2, <1>4, ReplyFine
<1>5. CASE ~ (Reply(c) /\ UNCHANGED ticket)
  <2> DEFINE r == cmd'[c]
  <2>1. /\ \A d \in Commands \ {c} : cmd'[d] = cmd[d]
        /\ r.pc \in {"source", "forward", "apply"} /\ r.verb = cmd[c].verb /\ r.by = cmd[c].by
        /\ r.auth = cmd[c].auth /\ r.overtaken = cmd[c].overtaken /\ r.intent = cmd[c].intent
        /\ r.pc = "forward" => r.src \in SeenStates
        /\ r.pc = "apply" => r.src = cmd[c].src /\ cmd[c].pc = "forward"
    <3>1. CASE Capture(c)
      <4>1. cmd' = [cmd EXCEPT ![c] = [cmd[c] EXCEPT !.pc = "source"]]
        BY <3>1 DEF Capture, Step, TypeOK
      <4>2. r = [cmd[c] EXCEPT !.pc = "source"] /\ \A d \in Commands \ {c} : cmd'[d] = cmd[d]
        BY <4>1 DEF TypeOK
      <4> QED
        BY <1>1, <4>2 DEF Requests
    <3>2. CASE Source(c)
      <4>1. PICK st \in SeenStates : cmd' = [cmd EXCEPT ![c] = [cmd[c] EXCEPT !.pc = "forward", !.src = st]]
        BY <3>2 DEF Source, TypeOK
      <4>2. r = [cmd[c] EXCEPT !.pc = "forward", !.src = st] /\ \A d \in Commands \ {c} : cmd'[d] = cmd[d]
        BY <4>1 DEF TypeOK
      <4> QED
        BY <1>1, <4>2 DEF Requests
    <3>3. CASE Forward(c)
      <4>1. cmd' = [cmd EXCEPT ![c] = [cmd[c] EXCEPT !.pc = "apply"]] /\ cmd[c].pc = "forward"
        BY <1>5, <3>3 DEF Forward, Step, TypeOK
      <4>2. r = [cmd[c] EXCEPT !.pc = "apply"] /\ \A d \in Commands \ {c} : cmd'[d] = cmd[d]
        BY <4>1 DEF TypeOK
      <4> QED
        BY <1>1, <4>1, <4>2 DEF Requests
    <3> QED
      BY <3>1, <3>2, <3>3
  <2>3. Fine(c)
    BY DEF ActInv
  <2>4. cmd[c].intent \in Intents /\ Intents' = Intents
    BY <1>1, <1>2, <2>3 DEF Fine, Intents
  <2>5. r.pc \in {"forward", "apply"} /\ Undisturbed(c) => r.src \in {Unknown, tix.st}
    BY <2>1, <2>3, CurrentReads DEF Fine, Undisturbed
  <2>6. cmd[c].verb # "escape" /\ Undisturbed(c) => Authorised(c)'
    BY <1>1, <1>2, <1>3, <2>1, <2>3, AuthorisedKept DEF Fine
  <2>7. Undisturbed(c)' = Undisturbed(c)
    BY <1>2, <2>1 DEF Undisturbed
  <2>8. Fine(c)'
    BY <1>3, <2>1, <2>4, <2>5, <2>6, <2>7 DEF Fine
  <2> QED
    BY <1>1, <1>2, <1>3, <2>1, <2>8, GoesOnFine DEF Pcs
<1> QED
  BY <1>4, <1>5

LEMMA ApplyFine == ASSUME TypeOK, ActInv, NEW c \in Commands, Apply(c) PROVE ActInv'
<1>1. cmd[c] \in Requests /\ cmd[c].pc = "apply" /\ cmd[c].pc \in Pcs
  BY LiveTyped DEF Apply, Pcs
<1>2. UNCHANGED <<wf, lags, applied, ticket>> /\ tix' = tix /\ old' = old
  BY DEF Apply, ticket, bounds
<1>3. CASE Reply(c)
  BY <1>1, <1>2, <1>3, ReplyFine
<1>4. CASE ~ Reply(c)
  <2>1. PICK read \in Reads :
          \E dest \in Destinations(c, Current(c, read)) :
               cmd' = [cmd EXCEPT ![c].pc = "write", ![c].dest = dest, ![c].undo = read]
    BY <1>4 DEF Apply
  <2>2. PICK dest \in Destinations(c, Current(c, read)) :
               cmd' = [cmd EXCEPT ![c].pc = "write", ![c].dest = dest, ![c].undo = read]
    BY <2>1
  <2>3. cmd'[c] = [cmd[c] EXCEPT !.pc = "write", !.dest = dest, !.undo = read]
        /\ \A d \in Commands \ {c} : cmd'[d] = cmd[d]
    BY <1>1, <2>2 DEF TypeOK
  <2>4. /\ cmd'[c].pc = "write" /\ cmd'[c].dest = dest /\ cmd'[c].undo = read
        /\ cmd'[c].verb = cmd[c].verb /\ cmd'[c].intent = cmd[c].intent /\ cmd'[c].by = cmd[c].by
        /\ cmd'[c].auth = cmd[c].auth /\ cmd'[c].overtaken = cmd[c].overtaken
    BY <1>1, <2>3 DEF Requests
  <2>5. Fine(c)
    BY DEF ActInv
  <2>6. ASSUME cmd[c].verb # "escape", Undisturbed(c)
        PROVE  Aimed(c)' /\ Authorised(c)'
    <3>1. read = tix /\ Current(c, read) = tix.st
      BY <1>1, <2>5, <2>6, CurrentReads DEF Fine, Undisturbed, Current
    <3>2. \E e \in Matches(tix.st, cmd[c].verb) : e.to = dest
      BY <2>2, <2>6, <3>1 DEF Destinations
    <3>3. \A s, x : Matches(s, x)' = Matches(s, x)
      BY <1>2, SameWorkflow
    <3>4. Aimed(c)'
      BY <1>2, <2>4, <3>1, <3>2, <3>3 DEF Aimed
    <3> QED
      BY <1>1, <1>2, <2>4, <2>5, <2>6, <3>4, AuthorisedKept DEF Fine
  <2>7. Intents' = Intents /\ cmd[c].intent \in Intents
    BY <1>1, <1>2, <2>5 DEF Intents, Fine
  <2>8. Undisturbed(c)' = Undisturbed(c)
    BY <1>2, <2>4 DEF Undisturbed
  <2>9. Fine(c)'
    BY <2>4, <2>6, <2>7, <2>8 DEF Fine
  <2>10. ~ lags => old' = tix'
    BY <1>2 DEF ActInv, ReadsTrue
  <2> QED
    BY <1>1, <1>2, <2>3, <2>4, <2>9, <2>10, GoesOnFine DEF Pcs
<1> QED
  BY <1>3, <1>4

LEMMA WrittenTrue ==
    ASSUME ReadsTrue, UNCHANGED lags, tix \in Tickets, NEW t \in Tickets, NEW undo \in Tickets,
           NEW result \in WriteResults, VerifiedWrite(t, undo, result)
    PROVE  ReadsTrue' /\ tix'.st \in {tix.st, t.st, undo.st}
<1>1. CASE result = "rejected"
  BY <1>1 DEF VerifiedWrite, ticket, ReadsTrue, Accepted
<1>2. CASE result # "rejected"
  <2>1. tix' \in Leaves(result, t, tix, undo) /\ (~ lags => old' = tix')
    BY <1>2 DEF VerifiedWrite
  <2>2. tix'.st \in {tix.st, t.st, undo.st}
    BY <2>1, LeavesTyped
  <2>3. result \in Accepted => tix'.st = t.st
    BY <2>1, LeavesTyped
  <2>4. applied' \in {None, tix'.st}
    BY <2>3 DEF VerifiedWrite
  <2> QED
    BY <2>1, <2>2, <2>4 DEF ReadsTrue
<1> QED
  BY <1>1, <1>2

(* Where a write leaves the ticket.                                         *)
LEMMA WriteLands ==
    ASSUME IInv, ActInv, NEW c \in Commands, Write(c)
    PROVE  /\ ReadsTrue'
           /\ \/ cmd[c].dest # AdHoc /\ tix'.st \in {tix.st, cmd[c].dest, cmd[c].undo.st}
              \/ cmd[c].dest = AdHoc
<1> DEFINE dest == cmd[c].dest
           t == [st |-> dest, who |-> Seats(c)]
<1>1. UNCHANGED <<wf, lags>> /\ ReadsTrue
  BY DEF Write, bounds, ActInv
<1>2. CASE dest = AdHoc
  <2>1. CASE UNCHANGED <<ticket, applied, history>>
    BY <1>1, <1>2, <2>1 DEF ReadsTrue, ticket
  <2>2. CASE WriteTicket([tix EXCEPT !.st = AdHoc]) /\ applied' = None
    BY <1>1, <1>2, <2>2 DEF ReadsTrue, WriteTicket
  <2> QED
    BY <1>2, <2>1, <2>2 DEF Write
<1>3. CASE dest # AdHoc
  <2>1. PICK result \in WriteResults : VerifiedWrite(t, cmd[c].undo, result)
    BY <1>3 DEF Write, ResultsAt
  <2>2. cmd[c] \in Requests /\ dest \in States /\ cmd[c].undo \in Tickets /\ cmd[c].by \in Agents
    <3>1. cmd[c].pc = "write" /\ cmd[c] \in Requests
      BY LiveTyped DEF Write, Pcs, IInv
    <3> QED
      BY <1>3, <3>1 DEF Requests, IInv, Destined
  <2>3. t \in Tickets
    BY <2>2, WorkflowTyped DEF Seats, Tickets, IInv
  <2> QED
    BY <1>1, <1>3, <2>1, <2>2, <2>3, WrittenTrue DEF IInv, TypeOK
<1> QED
  BY <1>2, <1>3

LEMMA WriteFine == ASSUME IInv, ActInv, NEW c \in Commands, Write(c) PROVE ActInv'
<1>1. cmd[c].pc \in Pcs /\ UNCHANGED wf /\ Reply(c)
  BY DEF Write, Pcs, bounds
<1> QED
  BY <1>1, EndsFine, WriteLands DEF Reply, IInv

LEMMA OthersFine ==
    ASSUME TypeOK, ActInv,
           Override \/ CatchUp \/ ExpireApplied \/ Crash \/ \E c \in Commands : ExpireSnapshot(c)
    PROVE  ActInv'
<1>1. CASE Override
  <2>1. UNCHANGED <<wf, lags>>
    BY <1>1 DEF Override
  <2>2. \A c \in Commands : cmd[c].pc \notin Pcs => cmd'[c] = cmd[c]
    BY <1>1 DEF Override
  <2>3. \A c \in Commands : cmd[c].pc \in Pcs =>
          cmd'[c].pc = cmd[c].pc /\ cmd'[c].overtaken /\ cmd'[c].intent = cmd[c].intent
    BY <1>1, LiveTyped DEF Override, Requests
  <2>4. ReadsTrue'
    <3>1. PICK target \in States, result \in WriteResults :
            \E who \in {tix.who, OwnerOf(target)} :
              VerifiedWrite([st |-> target, who |-> who], tix, result)
      BY <1>1 DEF Override
    <3>2. PICK who \in {tix.who, OwnerOf(target)} : VerifiedWrite([st |-> target, who |-> who], tix, result)
      BY <3>1
    <3>3. [st |-> target, who |-> who] \in Tickets /\ tix \in Tickets
      BY <3>2, WorkflowTyped DEF TypeOK, Tickets
    <3> QED
      BY <2>1, <3>2, <3>3, WrittenTrue DEF ActInv
  <2>5. OneAtATime'
    BY <2>2, <2>3 DEF ActInv, OneAtATime
  <2>6. ASSUME NEW c \in Commands PROVE Fine(c)'
    <3>1. Fine(c) /\ Intents' = Intents
      BY <2>1 DEF ActInv, Intents
    <3>2. CASE cmd[c].pc \in Pcs
      BY <2>3, <3>1, <3>2 DEF Fine, Undisturbed
    <3>3. CASE cmd[c].pc \notin Pcs
      BY <2>2, <3>1, <3>3 DEF Fine, Pcs
    <3> QED
      BY <3>2, <3>3
  <2> QED
    BY <2>4, <2>5, <2>6 DEF ActInv
<1>2. CASE CatchUp
  <2>1. UNCHANGED <<wf, lags, tix, applied, cmd, snap>> /\ (~ lags => UNCHANGED old)
    BY <1>2 DEF CatchUp, bounds, ActInv, ReadsTrue
  <2>2. ASSUME NEW c \in Commands PROVE Fine(c)'
    <3>1. Fine(c)
      BY DEF ActInv
    <3> QED
      BY <2>1, <3>1, SameWorkflow DEF Fine, Undisturbed, Intents, Resolved, Hit, GateRests, Authorised,
         Guarded, Aimed
  <2> QED
    BY <2>1, <2>2 DEF ActInv, OneAtATime, ReadsTrue
<1>3. CASE ExpireApplied
  <2>1. UNCHANGED <<wf, lags, tix, old, cmd, snap>> /\ applied' = None
    BY <1>3 DEF ExpireApplied, bounds, ticket
  <2>2. ASSUME NEW c \in Commands PROVE Fine(c)'
    <3>1. Fine(c)
      BY DEF ActInv
    <3> QED
      BY <2>1, <3>1, SameWorkflow DEF Fine, Undisturbed, Intents, Resolved, Hit, GateRests, Authorised,
         Guarded, Aimed
  <2> QED
    BY <2>1, <2>2 DEF ActInv, OneAtATime, ReadsTrue
<1>4. CASE \E c \in Commands : ExpireSnapshot(c)
  <2>1. PICK c \in Commands : cmd[c].pc = "between" /\ snap' = [snap EXCEPT ![c] = None]
                              /\ UNCHANGED <<wf, lags, tix, old, applied, cmd>>
    BY <1>4 DEF ExpireSnapshot, bounds, ticket
  <2>2. ASSUME NEW d \in Commands PROVE Fine(d)'
    <3>1. Fine(d)
      BY DEF ActInv
    <3>2. cmd[d].pc = "check" => snap'[d] = snap[d]
      BY <2>1 DEF TypeOK
    <3> QED
      BY <2>1, <3>1, <3>2, SameWorkflow DEF Fine, Undisturbed, Intents, Resolved, Hit, GateRests, Authorised,
         Guarded, Aimed
  <2> QED
    BY <2>1, <2>2 DEF ActInv, OneAtATime, ReadsTrue
<1>5. CASE Crash
  <2>1. UNCHANGED <<wf, lags, tix, old>> /\ applied' = None
        /\ cmd' = [c \in Commands |-> IF cmd[c].pc \in Pcs THEN Answered(c) ELSE cmd[c]]
    BY <1>5 DEF Crash, ticket
  <2>2. \A c \in Commands : cmd[c].pc \in Pcs =>
          /\ cmd'[c].pc \in {"over", "between"}
          /\ cmd'[c].pc = "between" => cmd'[c].intent = cmd[c].intent
    <3> SUFFICES ASSUME NEW c \in Commands, cmd[c].pc \in Pcs
                 PROVE  /\ Answered(c).pc \in {"over", "between"}
                        /\ Answered(c).pc = "between" =>
                             Answered(c).intent = cmd[c].intent
      BY <2>1
    <3> QED
      BY LiveTyped, AnsweredTyped
  <2>3. \A c \in Commands : cmd[c].pc \notin Pcs => cmd'[c] = cmd[c]
    BY <2>1
  <2>4. \A c \in Commands : cmd'[c].pc \notin Pcs
    BY <2>2, <2>3 DEF Pcs
  <2>5. ASSUME NEW c \in Commands PROVE Fine(c)'
    <3>1. cmd'[c].pc = "between" => cmd'[c].intent \in Intents
      BY <2>2, <2>3 DEF ActInv, Fine
    <3>2. Intents' = Intents
      BY <2>1 DEF Intents
    <3> QED
      BY <2>4, <3>1, <3>2 DEF Fine, Pcs
  <2> QED
    BY <2>1, <2>4, <2>5 DEF ActInv, OneAtATime, ReadsTrue
<1> QED
  BY <1>1, <1>2, <1>3, <1>4, <1>5

LEMMA ActStep == OneSpelling /\ IInv /\ ActInv /\ [Next]_vars => ActInv'
<1> SUFFICES ASSUME OneSpelling, IInv, ActInv, [Next]_vars PROVE ActInv'
  OBVIOUS
<1>0. TypeOK
  BY DEF IInv
<1>1. CASE UNCHANGED vars
  <2>1. ASSUME NEW c \in Commands PROVE Fine(c)'
    <3>1. Fine(c)
      BY DEF ActInv
    <3> QED
      BY <1>1, <3>1, SameWorkflow DEF vars, Fine, Undisturbed, Intents, Resolved, Hit, GateRests, Authorised,
         Guarded, Aimed
  <2> QED
    BY <1>1, <2>1 DEF vars, ActInv, OneAtATime, ReadsTrue
<1>2. CASE Override \/ CatchUp \/ ExpireApplied \/ Crash
  BY <1>0, <1>2, OthersFine
<1>3. ASSUME NEW c \in Commands,
             \/ Begin(c) \/ Follow(c) \/ Resolve(c) \/ Check(c) \/ Capture(c)
             \/ Source(c) \/ Forward(c) \/ Apply(c) \/ Write(c) \/ ExpireSnapshot(c)
      PROVE  ActInv'
  BY <1>0, <1>3, EntryFine, ResolveFine, CheckFine, OnItsWayFine, ApplyFine, WriteFine, OthersFine
<1> QED
  BY <1>1, <1>2, <1>3 DEF Next

(* Only the write of the command itself takes the ticket elsewhere while it  *)
(* writes: the lock keeps the other commands away.                           *)
LEMMA MovesWrite ==
    ASSUME IInv, ActInv, [Next]_vars, NEW c \in Commands, Moves(c)
    PROVE  Write(c)
<1>1. cmd[c].pc = "write" /\ cmd'[c].pc # "write" /\ tix' # tix /\ cmd[c].pc \in Pcs
  BY DEF Moves, Pcs
<1>2. ~ Override
  <2>1. Override => cmd'[c].pc = cmd[c].pc
    BY <1>1, LiveTyped DEF Override, Requests, IInv
  <2> QED
    BY <1>1, <2>1
<1>3. PICK d \in Commands : Forward(d) \/ Write(d)
  BY <1>1, <1>2 DEF Next, vars, Begin, Follow, Resolve, Check, Capture, Source, Apply, ExpireSnapshot,
     CatchUp, ExpireApplied, Crash, ticket
<1>4. cmd[d].pc \in Pcs
  BY <1>3 DEF Forward, Write, Pcs
<1>5. d = c
  BY <1>1, <1>4 DEF ActInv, OneAtATime
<1> QED
  BY <1>1, <1>3, <1>5 DEF Forward

(* What an undisturbed write does.                                           *)
LEMMA MovesAlong ==
    ASSUME IInv, ActInv, [Next]_vars, NEW c \in Commands, Moves(c), cmd[c].verb # "escape", Undisturbed(c)
    PROVE  /\ Authorised(c)
           /\ \E e \in Matches(tix.st, cmd[c].verb) : e.to = tix'.st
<1>1. Write(c) /\ cmd[c].pc = "write"
  BY MovesWrite DEF Moves
<1>2. Authorised(c) /\ Aimed(c)
  BY <1>1 DEF ActInv, Fine
<1>3. cmd[c].dest # AdHoc
  <2>1. PICK e \in Matches(tix.st, cmd[c].verb) : e.to = cmd[c].dest
    BY <1>2 DEF Aimed
  <2>2. e.to \in States
    BY <2>1, MatchTyped DEF IInv
  <2> QED
    BY <2>1, <2>2, NamesAssumption
<1>4. tix'.st = cmd[c].dest
  BY <1>1, <1>2, <1>3, WriteLands DEF Aimed, Moves
<1> QED
  BY <1>2, <1>4 DEF Aimed

LEMMA ActAlways == ASSUME OneSpelling PROVE Spec => [](IInv /\ ActInv)
<1>1. Init => ActInv
  BY ActInit
<1>2. IInv /\ ActInv /\ [Next]_vars => ActInv'
  BY ActStep
<1> QED
  BY <1>1, <1>2, Invariance, PTL DEF Spec

(* INF-562: an approval gate is advanced only by a request that was          *)
(* authorised in it, a begin-workflow and a force-deploy excepted: where      *)
(* every request spells the ticket's id alike and no verb but                 *)
(* continue-workflow's leaves both a gate, forward, and another state.       *)
THEOREM GatesNeedFreshActs ==
    ASSUME OneSpelling, GateVerbsDiffer PROVE Spec => GateNeedsFreshAct
<1>1. ASSUME IInv, ActInv, [Next]_vars, NEW c \in Commands,
             Advances(c), tix.st \in wf.gates, cmd[c].intent # "begin-workflow",
             cmd[c].verb \notin {"escape", "force-deploy"}, ~ lags, ~ cmd[c].overtaken
      PROVE  cmd[c].auth = tix.st
  <2>1. Authorised(c)
    BY <1>1, MovesAlong DEF Undisturbed, Advances
  <2>2. ForwardGate(cmd[c].verb) /\ Guarded(c)
    BY <1>1 DEF ForwardGate, Guarded, Advances, Matches
  <2> QED
    BY <2>1, <2>2 DEF Authorised
<1>2. IInv /\ ActInv /\ [Next]_vars =>
        \A c \in Commands :
          /\ Advances(c) /\ tix.st \in wf.gates
          /\ cmd[c].intent # "begin-workflow" /\ cmd[c].verb \notin {"escape", "force-deploy"}
          /\ ~ lags /\ ~ cmd[c].overtaken
          => cmd[c].auth = tix.st
  BY <1>1
<1> QED
  BY <1>2, ActAlways, PTL DEF Spec, GateNeedsFreshAct

(* In a workflow whose states are left by different verbs a command moves    *)
(* the ticket along an edge out of the state it is in, for an agent that may *)
(* fire that edge (an owner with the capability, a nominated approver, a     *)
(* holder of force-deploy, a human who has to sign off), whatever its first  *)
(* request saw and whatever writes fail or are undone: where every request   *)
(* spells the ticket's id alike.                                             *)
THEOREM MovesFollowEdges ==
    ASSUME OneSpelling PROVE Spec => MovesAreLegal
<1>1. ASSUME IInv, ActInv, [Next]_vars, NEW c \in Commands,
             Moves(c), cmd[c].verb # "escape", ~ cmd[c].overtaken, VerbsDiffer, ~ lags
      PROVE  \E e \in Matches(tix.st, cmd[c].verb) :
               e.to = tix'.st /\ MayFire(cmd[c].by, cmd[c].verb, e)
  <2>1. Authorised(c)
    BY <1>1, MovesAlong DEF Undisturbed
  <2>2. PICK e \in Matches(tix.st, cmd[c].verb) : e.to = tix'.st
    BY <1>1, MovesAlong DEF Undisturbed
  <2>3. PICK f \in Matches(cmd[c].auth, cmd[c].verb) : MayFire(cmd[c].by, cmd[c].verb, f)
    BY <1>1, <2>1 DEF Authorised
  <2>4. cmd[c].auth = tix.st
    BY <1>1, <2>2, <2>3, MatchTyped DEF VerbsDiffer, IInv
  <2>5. f = e
    BY <1>1, <2>2, <2>3, <2>4, MatchTyped DEF IInv
  <2> QED
    BY <2>2, <2>3, <2>5
<1>2. IInv /\ ActInv /\ [Next]_vars =>
        \A c \in Commands :
          /\ Moves(c) /\ cmd[c].verb # "escape" /\ ~ cmd[c].overtaken
          /\ VerbsDiffer /\ ~ lags
          => \E e \in Matches(tix.st, cmd[c].verb) :
               e.to = tix'.st /\ MayFire(cmd[c].by, cmd[c].verb, e)
  BY <1>1
<1> QED
  BY <1>2, ActAlways, PTL DEF Spec, MovesAreLegal

=============================================================================

------------------------------ MODULE ChatsProofs ------------------------------
(***************************************************************************)
(* The properties of Chats, for every set of tenants, handlers and rows,   *)
(* every fault and every time line.                                        *)
(***************************************************************************)
EXTENDS Chats, TLAPS

-------------------------------------------------------------------------------
(* What a handler has to do *)

\* A handler's operation has the fields of its kind.
LEMMA Kinds ==
  ASSUME TypeOK, NEW h \in Handlers
  PROVE  /\ op[h] # NoOp => op[h].session \in Sessions
         /\ Doing(h, "insert") => op[h].tenant \in Tenants
         /\ Doing(h, "bump") \/ Doing(h, "update") => op[h].for \subseteq Messages
         /\ Doing(h, "update") => op[h].now \in 0 .. MaxTime
         /\ Doing(h, "read") => op[h].known \subseteq Messages
BY DEF TypeOK, Ops, Doing

\* A handler that did not move has the same to do.
LEMMA SameOp ==
  ASSUME NEW h \in Handlers, op'[h] = op[h]
  PROVE  /\ \A kind : Doing(h, kind)' = Doing(h, kind)
         /\ Bumping(h)' = Bumping(h)
         /\ Knowing(h)' = Knowing(h)
BY DEF Doing, Bumping, Knowing

\* A step of one handler leaves it with an operation of its type.
LEMMA OneMoves ==
  ASSUME TypeOK, NEW h \in Handlers, NEW new \in Ops \cup {NoOp},
         op' = [op EXCEPT ![h] = new], clock' = clock,
         new # NoOp /\ new.kind = "update" => new.now = clock
  PROVE  /\ op' \in [Handlers -> Ops \cup {NoOp}]
         /\ \A g \in Handlers : Doing(g, "update")' => clock' - op'[g].now \in 0 .. MaxStall
<1>1. op' \in [Handlers -> Ops \cup {NoOp}] /\ op'[h] = new
  BY DEF TypeOK
<1>2. \A g \in Handlers : g # h => op'[g] = op[g]
  BY DEF TypeOK
<1>3. 0 \in 0 .. MaxStall /\ clock - clock = 0
  BY ChatsAssumption DEF TypeOK
<1> QED
  BY <1>1, <1>2, <1>3 DEF TypeOK, Doing
-------------------------------------------------------------------------------
(* Types *)

\* Rows, operations and times keep their types, and no update waits longer
\* than MaxStall.
THEOREM TypeInvariant == Spec => []TypeOK
<1>1. Init => TypeOK
  BY ChatsAssumption DEF Init, TypeOK, Doing
<1>2. TypeOK /\ [Next]_vars => TypeOK'
  <2> SUFFICES ASSUME TypeOK, [Next]_vars PROVE TypeOK'
    OBVIOUS
  <2>1. ASSUME NEW t \in Tenants, NEW s \in Sessions, CreateSession(t, s) PROVE TypeOK'
    BY <2>1 DEF TypeOK, CreateSession, SessionRows, Doing
  <2>2. ASSUME NEW t \in Tenants, NEW s \in Sessions, DeleteSession(t, s) PROVE TypeOK'
    BY <2>2 DEF TypeOK, DeleteSession, MessagesOf, Doing
  <2>3. ASSUME NEW t \in Tenants, NEW s \in Sessions, NEW h \in Handlers,
               UpdateSession(h, t, s) \/ CheckSession(h, t, s) \/ ReadSession(h, t, s)
        PROVE  TypeOK'
    <3> DEFINE update == [kind |-> "update", session |-> s, for |-> {}, now |-> clock]
               insert == [kind |-> "insert", session |-> s, tenant |-> t]
               read == [kind |-> "read", session |-> s, known |-> MessagesOf(s)]
    <3>1. update \in Ops /\ insert \in Ops /\ read \in Ops
      BY DEF Ops, TypeOK, MessagesOf
    <3>2. \E new \in {update, insert, read} : op' = [op EXCEPT ![h] = new]
      BY <2>3 DEF UpdateSession, CheckSession, ReadSession
    <3>3. UNCHANGED <<clock, sessions, messages, unbumped>>
      BY <2>3 DEF UpdateSession, CheckSession, ReadSession
    <3>4. PICK new \in {update, insert, read} : op' = [op EXCEPT ![h] = new]
      BY <3>2
    <3>5. new \in Ops /\ (new.kind = "update" => new.now = clock)
      BY <3>1
    <3> HIDE DEF update, insert, read
    <3> QED
      BY <3>3, <3>4, <3>5, OneMoves DEF TypeOK
  <2>4. ASSUME NEW h \in Handlers, NEW m \in Messages, InsertMessage(h, m) PROVE TypeOK'
    <3>1. [kind |-> "bump", session |-> op[h].session, for |-> {m}] \in Ops
      BY <2>4, Kinds DEF Ops, InsertMessage, Doing
    <3>2. [session |-> op[h].session, created |-> clock, author |-> op[h].tenant] \in MessageRows
      BY <2>4, Kinds DEF InsertMessage, MessageRows, TypeOK, Doing
    <3>3. messages' \in [Messages -> MessageRows \cup {NoRow}]
      BY <2>4, <3>2 DEF InsertMessage, TypeOK
    <3>4. \A x \in Messages : messages[x] # NoRow => messages'[x] # NoRow
      BY <2>4, <3>2, ChatsAssumption DEF InsertMessage, FreshMessage, TypeOK
    <3> QED
      BY <2>4, <3>1, <3>3, <3>4, OneMoves DEF InsertMessage, TypeOK
  <2>5. ASSUME NEW h \in Handlers, InsertRefused(h) \/ ReadMessages(h) PROVE TypeOK'
    BY <2>5, OneMoves, ChatsAssumption DEF InsertRefused, ReadMessages, TypeOK
  <2>6. ASSUME NEW h \in Handlers, StartBump(h) PROVE TypeOK'
    <3>1. [kind |-> "update", session |-> op[h].session, for |-> op[h].for, now |-> clock] \in Ops
      BY <2>6, Kinds DEF Ops, StartBump, Doing, TypeOK
    <3> QED
      BY <2>6, <3>1, OneMoves DEF StartBump, TypeOK
  <2>7. ASSUME NEW h \in Handlers, CommitUpdate(h) PROVE TypeOK'
    <3>1. sessions' \in [Sessions -> SessionRows \cup {NoRow}]
      BY <2>7, Kinds DEF CommitUpdate, TypeOK, SessionRows, Doing
    <3> QED
      BY <2>7, <3>1, OneMoves DEF CommitUpdate, TypeOK
  <2>8. ASSUME NEW h \in Handlers, BreakOff(h) PROVE TypeOK'
    <3>1. unbumped' \subseteq {m \in Messages : messages'[m] # NoRow}
      BY <2>8, Kinds DEF BreakOff, TypeOK, Bumping
    <3> QED
      BY <2>8, <3>1, OneMoves DEF BreakOff, TypeOK
  <2>9. CASE Tick
    BY <2>9, Kinds, ChatsAssumption DEF Tick, TypeOK, Doing
  <2>10. CASE UNCHANGED vars
    BY <2>10 DEF vars, TypeOK, Doing
  <2> QED
    BY <2>1, <2>2, <2>3, <2>4, <2>5, <2>6, <2>7, <2>8, <2>9, <2>10 DEF Next
<1> QED
  BY <1>1, <1>2, PTL DEF Spec
-------------------------------------------------------------------------------
(* Where messages are *)

\* What OpInv says of one handler.
OpFits(h) ==
  /\ Doing(h, "insert") /\ sessions[op[h].session] # NoRow
       => Owns(op[h].tenant, op[h].session)
  /\ Doing(h, "read") /\ sessions[op[h].session] # NoRow
       => op[h].known \subseteq MessagesOf(op[h].session)
  /\ \A m \in Bumping(h) : messages[m] # NoRow => messages[m].session = op[h].session

\* Steps that leave the rows alone keep what fits.
LEMMA FitsStill ==
  ASSUME NEW h \in Handlers, OpFits(h), op'[h] = op[h], UNCHANGED <<sessions, messages>>
  PROVE  OpFits(h)'
BY DEF OpFits, Doing, Bumping, Owns, MessagesOf

\* An update dates its session with the time it started, and changes no other.
LEMMA RowStays ==
  ASSUME TypeOK, NEW h \in Handlers, CommitUpdate(h), NEW x \in Sessions
  PROVE  /\ sessions'[x] = NoRow <=> sessions[x] = NoRow
         /\ sessions[x] # NoRow => sessions'[x].tenant = sessions[x].tenant
         /\ sessions[x] # NoRow =>
              sessions'[x].updated = IF x = op[h].session THEN op[h].now ELSE sessions[x].updated
<1>1. Doing(h, "update") /\ op[h].session \in Sessions /\ op[h].now \in 0 .. MaxTime
  BY Kinds DEF CommitUpdate, Doing
<1>2. CASE x = op[h].session /\ sessions[x] # NoRow
  <2>1. sessions[x] \in SessionRows
    BY <1>2 DEF TypeOK
  <2>2. sessions'[x] = [sessions[x] EXCEPT !.updated = op[h].now]
    BY <1>1, <1>2 DEF CommitUpdate, TypeOK
  <2>3. sessions'[x] \in SessionRows
    BY <1>1, <2>1, <2>2 DEF SessionRows
  <2> QED
    BY <1>2, <2>1, <2>2, <2>3, ChatsAssumption DEF SessionRows
<1>3. CASE x # op[h].session \/ sessions[x] = NoRow
  BY <1>1, <1>3 DEF CommitUpdate, TypeOK
<1> QED
  BY <1>2, <1>3

\* OpInv is inductive, given the types.
LEMMA OpInvariant == Spec => []OpInv
<1>1. Init => OpInv
  BY DEF Init, OpInv, Doing, Bumping
<1>2. TypeOK /\ OpInv /\ [Next]_vars => OpInv'
  <2> SUFFICES ASSUME TypeOK, OpInv, [Next]_vars, NEW g \in Handlers PROVE OpFits(g)'
    BY DEF OpInv, OpFits
  <2>0. OpFits(g)
    BY DEF OpInv, OpFits
  <2>1. ASSUME NEW t \in Tenants, NEW s \in Sessions, CreateSession(t, s) PROVE OpFits(g)'
    <3>1. op' = op /\ messages' = messages
      BY <2>1 DEF CreateSession
    <3>2. op[g] # NoOp => op[g].session # s
      BY <2>1 DEF CreateSession, FreshSession
    <3>3. \A x \in Sessions : x # s => sessions'[x] = sessions[x]
      BY <2>1 DEF CreateSession, TypeOK
    <3> QED
      BY <2>0, <3>1, <3>2, <3>3, Kinds DEF OpFits, Doing, Bumping, Owns, MessagesOf
  <2>2. ASSUME NEW t \in Tenants, NEW s \in Sessions, DeleteSession(t, s) PROVE OpFits(g)'
    <3>1. op' = op
      BY <2>2 DEF DeleteSession
    <3>2. /\ sessions'[s] = NoRow
          /\ \A x \in Sessions : x # s => sessions'[x] = sessions[x]
      BY <2>2 DEF DeleteSession, TypeOK
    <3>3. \A m \in Messages : messages'[m] = messages[m] \/ (messages'[m] = NoRow /\ m \in MessagesOf(s))
      BY <2>2 DEF DeleteSession
    <3>4. \A x \in Sessions : x # s => MessagesOf(x)' = MessagesOf(x)
      BY <2>2 DEF DeleteSession, MessagesOf
    <3> QED
      BY <2>0, <3>1, <3>2, <3>3, <3>4, Kinds DEF OpFits, Doing, Bumping, Owns
  <2>3. ASSUME NEW t \in Tenants, NEW s \in Sessions, NEW h \in Handlers,
               UpdateSession(h, t, s) \/ CheckSession(h, t, s) \/ ReadSession(h, t, s)
        PROVE  OpFits(g)'
    <3>1. UNCHANGED <<sessions, messages>> /\ (g # h => op'[g] = op[g])
      BY <2>3 DEF UpdateSession, CheckSession, ReadSession, TypeOK
    <3>2. CASE g = h
      BY <2>3, <3>1, <3>2 DEF UpdateSession, CheckSession, ReadSession, TypeOK,
         OpFits, Doing, Bumping, Owns, MessagesOf
    <3> QED
      BY <2>0, <3>1, <3>2, FitsStill
  <2>4. ASSUME NEW h \in Handlers, NEW m \in Messages, InsertMessage(h, m) PROVE OpFits(g)'
    <3>1. /\ sessions' = sessions
          /\ messages[m] = NoRow
          /\ \A x \in Messages : x # m => messages'[x] = messages[x]
          /\ messages'[m].session = op[h].session
          /\ \A x \in Handlers : x # h => op'[x] = op[x]
          /\ op'[h] = [kind |-> "bump", session |-> op[h].session, for |-> {m}]
      BY <2>4 DEF InsertMessage, FreshMessage, TypeOK
    <3>2. CASE g = h
      BY <3>1, <3>2 DEF OpFits, Doing, Bumping
    <3>3. CASE g # h
      <4>1. m \notin Bumping(g) /\ m \notin Knowing(g)
        BY <2>4 DEF InsertMessage, FreshMessage
      <4>2. \A x \in Sessions : MessagesOf(x) \subseteq MessagesOf(x)'
        BY <3>1 DEF MessagesOf
      <4>3. op'[g] = op[g]
        BY <3>1, <3>3
      <4>4. Bumping(g)' = Bumping(g) /\ Bumping(g) \subseteq Messages
        BY <4>3, Kinds DEF Bumping, Doing
      <4> QED
        BY <2>0, <3>1, <4>1, <4>2, <4>3, <4>4, Kinds DEF OpFits, Doing, Owns
    <3> QED
      BY <3>2, <3>3
  <2>5. ASSUME NEW h \in Handlers, InsertRefused(h) \/ ReadMessages(h) \/ BreakOff(h)
        PROVE  OpFits(g)'
    <3>1. UNCHANGED <<sessions, messages>> /\ op'[h] = NoOp /\ (g # h => op'[g] = op[g])
      BY <2>5 DEF InsertRefused, ReadMessages, BreakOff, TypeOK
    <3>2. CASE g = h
      BY <3>1, <3>2 DEF OpFits, Doing, Bumping
    <3> QED
      BY <2>0, <3>1, <3>2, FitsStill
  <2>6. ASSUME NEW h \in Handlers, StartBump(h) PROVE OpFits(g)'
    <3>1. UNCHANGED <<sessions, messages>> /\ (g # h => op'[g] = op[g])
      BY <2>6 DEF StartBump, TypeOK
    <3>2. CASE g = h
      <4>1. op'[g] = [kind |-> "update", session |-> op[g].session, for |-> op[g].for, now |-> clock]
        BY <2>6, <3>2 DEF StartBump, TypeOK
      <4>2. Bumping(g)' \subseteq Bumping(g)
        BY <2>6, <3>2, <4>1 DEF StartBump, Bumping, Doing
      <4> QED
        BY <2>0, <3>1, <4>1, <4>2 DEF OpFits, Doing
    <3> QED
      BY <2>0, <3>1, <3>2, FitsStill
  <2>7. ASSUME NEW h \in Handlers, CommitUpdate(h) PROVE OpFits(g)'
    <3>1. messages' = messages /\ op'[h] = NoOp /\ (g # h => op'[g] = op[g])
      BY <2>7 DEF CommitUpdate, TypeOK
    <3>2. \A x \in Sessions : /\ sessions'[x] = NoRow => sessions[x] = NoRow
                              /\ sessions[x] = NoRow => sessions'[x] = NoRow
                              /\ sessions[x] # NoRow => sessions'[x].tenant = sessions[x].tenant
      BY <2>7, RowStays
    <3>3. CASE g = h
      BY <3>1, <3>3 DEF OpFits, Doing, Bumping
    <3>4. CASE g # h
      BY <2>0, <3>1, <3>2, <3>4, Kinds DEF OpFits, Doing, Bumping, Owns, MessagesOf
    <3> QED
      BY <3>3, <3>4
  <2>8. CASE Tick \/ UNCHANGED vars
    BY <2>0, <2>8, FitsStill DEF Tick, vars
  <2> QED
    BY <2>1, <2>2, <2>3, <2>4, <2>5, <2>6, <2>7, <2>8 DEF Next
<1> QED
  BY <1>1, <1>2, TypeInvariant, PTL DEF Spec

\* A message is in a session of the tenant that posted it.
THEOREM OwnSessionTheorem == Spec => []InOwnSession
<1>1. Init => InOwnSession
  BY DEF Init, InOwnSession
<1>2. TypeOK /\ OpInv /\ InOwnSession /\ [Next]_vars => InOwnSession'
  <2> SUFFICES ASSUME TypeOK, OpInv, InOwnSession, [Next]_vars,
                      NEW x \in Messages, messages'[x] # NoRow
               PROVE  Owns(messages[x].author, messages[x].session)'
    BY DEF InOwnSession
  <2>0. messages[x] # NoRow =>
          /\ Owns(messages[x].author, messages[x].session)
          /\ messages[x].session \in Sessions
    BY DEF InOwnSession, TypeOK, MessageRows
  <2>1. ASSUME NEW t \in Tenants, NEW s \in Sessions, CreateSession(t, s)
        PROVE  Owns(messages[x].author, messages[x].session)'
    BY <2>0, <2>1 DEF CreateSession, FreshSession, Owns, TypeOK
  <2>2. ASSUME NEW t \in Tenants, NEW s \in Sessions, DeleteSession(t, s)
        PROVE  Owns(messages[x].author, messages[x].session)'
    BY <2>0, <2>2 DEF DeleteSession, MessagesOf, Owns, TypeOK
  <2>3. ASSUME NEW h \in Handlers, NEW m \in Messages, InsertMessage(h, m)
        PROVE  Owns(messages[x].author, messages[x].session)'
    <3>1. Owns(op[h].tenant, op[h].session)
      BY <2>3 DEF InsertMessage, OpInv
    <3>2. CASE x = m
      BY <2>3, <3>1, <3>2 DEF InsertMessage, Owns, TypeOK
    <3>3. CASE x # m
      BY <2>0, <2>3, <3>3 DEF InsertMessage, Owns, TypeOK
    <3> QED
      BY <3>2, <3>3
  <2>4. ASSUME NEW h \in Handlers, CommitUpdate(h)
        PROVE  Owns(messages[x].author, messages[x].session)'
    <3>1. messages' = messages
      BY <2>4 DEF CommitUpdate
    <3> QED
      BY <2>0, <2>4, <3>1, RowStays DEF Owns
  <2>5. CASE UNCHANGED <<sessions, messages>>
    BY <2>0, <2>5 DEF Owns
  <2>6. ASSUME NEW h \in Handlers,
               \/ InsertRefused(h) \/ StartBump(h) \/ ReadMessages(h) \/ BreakOff(h)
               \/ \E t \in Tenants, s \in Sessions :
                    UpdateSession(h, t, s) \/ CheckSession(h, t, s) \/ ReadSession(h, t, s)
        PROVE  UNCHANGED <<sessions, messages>>
    BY <2>6 DEF InsertRefused, StartBump, ReadMessages, BreakOff, UpdateSession,
                CheckSession, ReadSession
  <2>7. CASE Tick \/ UNCHANGED vars
    BY <2>5, <2>7 DEF Tick, vars
  <2> QED
    BY <2>1, <2>2, <2>3, <2>4, <2>5, <2>6, <2>7 DEF Next
<1> QED
  BY <1>1, <1>2, TypeInvariant, OpInvariant, PTL DEF Spec

\* A read in two queries is whole.
THEOREM WholeReadTheorem == Spec => ReadsWholeSession
<1>1. ASSUME TypeOK, OpInv, InOwnSession, NEW h \in Handlers, ReadMessages(h)
      PROVE  \/ op[h].known \subseteq MessagesOf(op[h].session)
             \/ sessions[op[h].session] = NoRow /\ MessagesOf(op[h].session) = {}
  BY <1>1 DEF ReadMessages, OpInv, InOwnSession, MessagesOf, Owns
<1>2. TypeOK /\ OpInv /\ InOwnSession =>
        [\A h \in Handlers : ReadMessages(h) =>
           LET s == op[h].session IN
           \/ op[h].known \subseteq MessagesOf(s)
           \/ sessions[s] = NoRow /\ MessagesOf(s) = {}]_vars
  BY <1>1
<1> QED
  BY <1>2, TypeInvariant, OpInvariant, OwnSessionTheorem, PTL DEF ReadsWholeSession
-------------------------------------------------------------------------------
(* How sessions are dated *)

\* PastInv is inductive, given the types.
LEMMA PastInvariant == Spec => []PastInv
<1>1. Init => PastInv
  BY DEF Init, PastInv
<1>2. TypeOK /\ PastInv /\ TypeOK' /\ [Next]_vars => PastInv'
  <2> SUFFICES ASSUME TypeOK, PastInv, TypeOK', [Next]_vars,
                      NEW x \in Messages, messages'[x] # NoRow
               PROVE  messages'[x].created <= clock'
    BY DEF PastInv
  <2>0. clock \in Int /\ clock' \in Int /\ (messages[x] # NoRow => messages[x].created \in Int)
    BY ChatsAssumption DEF TypeOK, MessageRows
  <2>1. CASE UNCHANGED <<clock, messages>>
    BY <2>1 DEF PastInv
  <2>2. ASSUME NEW t \in Tenants, NEW s \in Sessions,
               \/ CreateSession(t, s)
               \/ \E h \in Handlers :
                    UpdateSession(h, t, s) \/ CheckSession(h, t, s) \/ ReadSession(h, t, s)
        PROVE  UNCHANGED <<clock, messages>>
    BY <2>2 DEF CreateSession, UpdateSession, CheckSession, ReadSession
  <2>3. ASSUME NEW t \in Tenants, NEW s \in Sessions, DeleteSession(t, s)
        PROVE  messages'[x].created <= clock'
    BY <2>3 DEF DeleteSession, PastInv
  <2>4. ASSUME NEW h \in Handlers, NEW m \in Messages, InsertMessage(h, m)
        PROVE  messages'[x].created <= clock'
    <3>1. CASE x = m
      BY <2>0, <2>4, <3>1 DEF InsertMessage, TypeOK
    <3>2. CASE x # m
      BY <2>4, <3>2 DEF InsertMessage, TypeOK, PastInv
    <3> QED
      BY <3>1, <3>2
  <2>5. ASSUME NEW h \in Handlers,
               \/ InsertRefused(h) \/ StartBump(h) \/ CommitUpdate(h)
               \/ ReadMessages(h) \/ BreakOff(h)
        PROVE  UNCHANGED <<clock, messages>>
    BY <2>5 DEF InsertRefused, StartBump, CommitUpdate, ReadMessages, BreakOff
  <2>6. CASE Tick
    BY <2>0, <2>6 DEF Tick, PastInv
  <2>7. CASE UNCHANGED vars
    BY <2>1, <2>7 DEF vars
  <2> QED
    BY <2>1, <2>2, <2>3, <2>4, <2>5, <2>6, <2>7 DEF Next
<1> QED
  BY <1>1, <1>2, TypeInvariant, PTL DEF Spec

\* A session is dated by its messages, up to the wait for its row.
THEOREM DatedTheorem == Spec => []DatedByMessages
<1>1. Init => DatedByMessages
  BY DEF Init, DatedByMessages, Bumped
<1>2. TypeOK /\ OpInv /\ InOwnSession /\ PastInv /\ DatedByMessages /\ TypeOK' /\ [Next]_vars
        => DatedByMessages'
  <2> SUFFICES ASSUME TypeOK, OpInv, InOwnSession, PastInv, DatedByMessages, TypeOK',
                      [Next]_vars, NEW x \in Messages, Bumped(x)'
               PROVE  (messages[x].created - sessions[messages[x].session].updated <= MaxStall)'
    BY DEF DatedByMessages
  <2> DEFINE s0 == messages[x].session
             Kept == /\ Bumped(x)
                     /\ messages'[x] = messages[x]
                     /\ sessions'[s0] = sessions[s0]
  <2>0. Kept => (messages[x].created - sessions[messages[x].session].updated <= MaxStall)'
    BY DEF DatedByMessages
  <2>a. messages[x] # NoRow => s0 \in Sessions /\ sessions[s0] # NoRow
    BY DEF InOwnSession, Owns, TypeOK, MessageRows
  <2>1. ASSUME NEW t \in Tenants, NEW s \in Sessions, CreateSession(t, s) PROVE Kept
    BY <2>1, <2>a DEF CreateSession, FreshSession, Bumped, Bumping, Doing, TypeOK
  <2>2. ASSUME NEW t \in Tenants, NEW s \in Sessions, DeleteSession(t, s) PROVE Kept
    BY <2>2, <2>a DEF DeleteSession, MessagesOf, Bumped, Bumping, Doing, TypeOK
  <2>3. ASSUME NEW h \in Handlers, Bumping(h) = {}, UNCHANGED <<sessions, unbumped>>,
               messages'[x] = messages[x], \A g \in Handlers : g # h => op'[g] = op[g]
        PROVE  Kept
    BY <2>3, SameOp DEF Bumped
  <2>4. ASSUME NEW t \in Tenants, NEW s \in Sessions, NEW h \in Handlers,
               UpdateSession(h, t, s) \/ CheckSession(h, t, s) \/ ReadSession(h, t, s)
        PROVE  Kept
    BY <2>3, <2>4 DEF UpdateSession, CheckSession, ReadSession, Bumping, Doing, TypeOK
  <2>5. ASSUME NEW h \in Handlers, InsertRefused(h) \/ ReadMessages(h) PROVE Kept
    BY <2>3, <2>5 DEF InsertRefused, ReadMessages, Bumping, Doing, TypeOK
  <2>6. ASSUME NEW h \in Handlers, NEW m \in Messages, InsertMessage(h, m) PROVE Kept
    <3>1. op'[h] = [kind |-> "bump", session |-> op[h].session, for |-> {m}]
      BY <2>6 DEF InsertMessage, TypeOK
    <3>2. op'[h] # NoOp
      <4>1. op'[h] \in Ops
        BY <2>6, <3>1, Kinds DEF Ops, InsertMessage, Doing
      <4> QED
        BY <4>1, ChatsAssumption
    <3>3. Bumping(h)' = {m}
      BY <3>1, <3>2 DEF Bumping, Doing
    <3>4. x # m
      BY <3>3 DEF Bumped
    <3> QED
      BY <2>3, <2>6, <3>4 DEF InsertMessage, Bumping, Doing, TypeOK
  <2>7. ASSUME NEW h \in Handlers, StartBump(h) PROVE Kept
    <3>1. op'[h] = [kind |-> "update", session |-> op[h].session, for |-> op[h].for, now |-> clock]
      BY <2>7 DEF StartBump, TypeOK
    <3>2. op'[h] # NoOp
      <4>1. op'[h] \in Ops
        BY <2>7, <3>1, Kinds DEF Ops, StartBump, Doing, TypeOK
      <4> QED
        BY <4>1, ChatsAssumption
    <3>3. \A g \in Handlers : Bumping(g)' = Bumping(g)
      BY <2>7, <3>1, <3>2, SameOp DEF StartBump, Bumping, Doing, TypeOK
    <3> QED
      BY <2>7, <3>3 DEF StartBump, Bumped
  <2>8. ASSUME NEW h \in Handlers, CommitUpdate(h)
        PROVE  (messages[x].created - sessions[messages[x].session].updated <= MaxStall)'
    <3>1. /\ UNCHANGED <<clock, messages, unbumped>>
          /\ \A g \in Handlers : g # h => op'[g] = op[g]
      BY <2>8 DEF CommitUpdate, TypeOK
    <3>2. messages[x] # NoRow
      BY <3>1 DEF Bumped
    <3>3. CASE s0 = op[h].session
      <4>1. sessions'[s0].updated = op[h].now
        BY <2>8, <2>a, <3>2, <3>3, RowStays
      <4>2. /\ clock \in Int /\ op[h].now \in Int
            /\ clock - op[h].now <= MaxStall
        BY <2>8, Kinds, ChatsAssumption DEF CommitUpdate, TypeOK, Doing
      <4>3. messages[x].created \in Int /\ messages[x].created <= clock
        BY <3>2 DEF PastInv, TypeOK, MessageRows
      <4> QED
        BY <3>1, <4>1, <4>2, <4>3, ChatsAssumption
    <3>4. CASE s0 # op[h].session
      <4>1. x \notin Bumping(h)
        BY <3>2, <3>4 DEF OpInv
      <4>2. Bumped(x)
        BY <3>1, <4>1, SameOp DEF Bumped
      <4>3. sessions'[s0].updated = sessions[s0].updated
        BY <2>8, <2>a, <3>2, <3>4, RowStays
      <4> QED
        BY <3>1, <4>2, <4>3 DEF DatedByMessages
    <3> QED
      BY <3>3, <3>4
  <2>9. ASSUME NEW h \in Handlers, BreakOff(h) PROVE Kept
    <3>1. /\ UNCHANGED <<sessions, messages>>
          /\ \A g \in Handlers : g # h => op'[g] = op[g]
          /\ unbumped' = unbumped \cup {m \in Bumping(h) : messages[m] # NoRow}
      BY <2>9 DEF BreakOff, TypeOK
    <3>2. x \notin Bumping(h)
      BY <3>1 DEF Bumped
    <3> QED
      BY <3>1, <3>2, SameOp DEF Bumped
  <2>10. ASSUME Tick \/ UNCHANGED vars PROVE Kept
    BY <2>10 DEF Tick, vars, Bumped, Bumping, Doing
  <2>11. Kept \/ \E h \in Handlers : CommitUpdate(h)
    <3> HIDE DEF Kept
    <3> QED
      BY <2>1, <2>2, <2>4, <2>5, <2>6, <2>7, <2>9, <2>10 DEF Next
  <2> QED
    BY <2>0, <2>8, <2>11
<1> QED
  BY <1>1, <1>2, TypeInvariant, OpInvariant, OwnSessionTheorem, PastInvariant, PTL DEF Spec
===============================================================================

------------------------- MODULE SqliteStorageProofs -------------------------
(***************************************************************************)
(* SqliteStorage implements Store, and keeps its foreign keys, for every   *)
(* set of users, tasks and calls and any number of faults.                 *)
(***************************************************************************)
EXTENDS SqliteStorage, Sums

Updates == {"update_user_inbounds", "update_user_outbounds"}

\* A writer is at a statement of its call, and Store knows of the call if it
\* is one on an object.
CallOK(t) ==
    LET c == op[t].call
        s == op[t].at
    IN  /\ s = "done" => call[t] = NoCall
        /\ s # "done" =>
              /\ c \in Calls
              /\ call[t] = NoCall <=> c.kind = "record_node_traffic"
              /\ call[t] # NoCall => call[t].obj = ObjectOf(c)
              /\ s \in {"user", "drop", "rows"} => c.kind \in Updates
              /\ s = "delete" => c.kind = "remove_user"
              /\ s \in {"clear", "policies"} => c.kind = "replace_node_outbound_policies"
              /\ s = "bucket" => c.kind = "record_node_traffic"

Shape == TypeOK /\ \A t \in Writers : CallOK(t)

\* What the calls are.
LEMMA CallFields ==
    ASSUME NEW c \in Calls
    PROVE  /\ c.kind \in {"update_user_inbounds", "update_user_outbounds", "remove_user",
                          "replace_node_outbound_policies", "record_node_traffic"}
           /\ c.kind = "update_user_inbounds" =>
                 c.uid \in Ids /\ c.ident \in Idents /\ c.tags \in SUBSET Tags
           /\ c.kind = "update_user_outbounds" =>
                 c.uid \in Ids /\ c.ident \in Idents /\ c.outs \in Outs
           /\ c.kind = "remove_user" => c.uid \in Ids
           /\ c.kind = "replace_node_outbound_policies" => c.policies \in SUBSET Policies
           /\ c.kind = "record_node_traffic" => c.hour \in Hours
  BY CallsAssumption DEF Call

\* The statement after one of a call is one of the same call.
LEMMA AfterFits ==
    ASSUME NEW c \in Calls, NEW s \in Statements,
           s \in {"user", "drop", "rows"} => c.kind \in Updates,
           s = "delete" => c.kind = "remove_user",
           s \in {"clear", "policies"} => c.kind = "replace_node_outbound_policies",
           s = "bucket" => c.kind = "record_node_traffic",
           NEW n, n = After(c, s) \/ n = First(c)
    PROVE  /\ n \in Statements \cup {"done"}
           /\ n \in {"user", "drop", "rows"} => c.kind \in Updates
           /\ n = "delete" => c.kind = "remove_user"
           /\ n \in {"clear", "policies"} => c.kind = "replace_node_outbound_policies"
           /\ n = "bucket" => c.kind = "record_node_traffic"
           /\ n = "done" => s = "commit" /\ n = After(c, s)
<1>1. /\ First(c) \in {"user", "delete", "clear", "bucket"}
      /\ First(c) = "user" => c.kind \in Updates
      /\ First(c) = "delete" => c.kind = "remove_user"
      /\ First(c) = "clear" => c.kind = "replace_node_outbound_policies"
      /\ First(c) = "bucket" => c.kind = "record_node_traffic"
  BY CallFields DEF First, Updates
<1>2. CASE n = First(c)
  BY <1>1, <1>2 DEF Statements
<1>3. CASE n = After(c, s) /\ s = "connect"
  BY <1>1, <1>3 DEF After, Statements
<1>4. CASE n = After(c, s) /\ s # "connect"
  <2>1. /\ s = "user" => n = "drop"
        /\ s = "drop" => n \in {"commit", "rows"}
        /\ s = "clear" => n \in {"commit", "policies"}
        /\ s \in {"rows", "delete", "policies", "bucket"} => n = "commit"
        /\ s = "commit" => n = "done"
    BY <1>4 DEF After
  <2> QED
    BY <2>1, <1>4 DEF Statements, Updates
<1> QED
  BY <1>2, <1>3, <1>4

\* What a call leaves is a value.
LEMMA ValueTypes ==
    ASSUME NEW v \in Tables, NEW o \in Objects
    PROVE  ValueIn(v, o) \in Values
  BY PolicyTableAssumption DEF Tables, Objects, Values, User, ValueIn

LEMMA TargetTypes ==
    ASSUME view \in Tables, NEW c \in Calls, c.kind # "record_node_traffic"
    PROVE  ObjectOf(c) \in Objects /\ Target(c) \in Values
<1>1. ObjectOf(c) \in Objects
  BY CallFields DEF ObjectOf, Objects
<1>2. CASE c.kind = "update_user_inbounds"
  <2>1. c.uid \in Ids /\ c.ident \in Idents /\ c.tags \in SUBSET Tags
    BY <1>2, CallFields
  <2>2. Target(c) = [ident |-> c.ident, tags |-> c.tags, outs |-> view.outbounds[c.uid]]
    BY <1>2, <2>1, PolicyTableAssumption DEF Target, ValueIn
  <2> QED
    BY <1>1, <2>1, <2>2 DEF Tables, Values, User
<1>3. CASE c.kind = "update_user_outbounds"
  <2>1. c.uid \in Ids /\ c.ident \in Idents /\ c.outs \in Outs
    BY <1>3, CallFields
  <2>2. Target(c) = [ident |-> c.ident, tags |-> view.inbounds[c.uid], outs |-> c.outs]
    BY <1>3, <2>1, PolicyTableAssumption DEF Target, ValueIn
  <2> QED
    BY <1>1, <2>1, <2>2 DEF Tables, Values, User
<1>4. CASE c.kind = "remove_user"
  BY <1>1, <1>4, OutsAssumption DEF Target, Values, User
<1>5. CASE c.kind = "replace_node_outbound_policies"
  BY <1>1, <1>5, CallFields DEF Target, Values
<1> QED
  BY <1>2, <1>3, <1>4, <1>5, CallFields

Counters == /\ asked' \in [Hours -> Nat]
            /\ calls' \in 0..MaxCalls
            /\ faults' \in 0..MaxFaults

\* A call that is over.
LEMMA EndedShape ==
    ASSUME Shape, NEW t \in Writers, Ended(t), connected' \in BOOLEAN, view' \in Tables,
           disk' \in Tables, settled' \in SUBSET Objects, kept' \in [Hours -> Nat], Counters
    PROVE  Shape'
<1>1. /\ op' \in [Writers -> [call : Calls \cup {NoCall}, at : Statements \cup {"done"},
                              cancelled : BOOLEAN]]
      /\ call' \in [Writers -> [obj : Objects, target : Values, alone : BOOLEAN] \cup {NoCall}]
      /\ before' \in [Writers -> Values \cup {NoCall}]
  BY DEF Shape, TypeOK, Ended, NoOp
<1>2. TypeOK'
  BY <1>1 DEF TypeOK, Counters
<1>3. ASSUME NEW s \in Writers PROVE CallOK(s)'
  <2>1. CASE s = t
    <3>1. op'[s] = NoOp /\ call'[s] = NoCall
      BY <2>1 DEF Ended, Shape, TypeOK
    <3> QED
      BY <3>1 DEF CallOK, NoOp
  <2>2. CASE s # t
    <3>1. op'[s] = op[s] /\ call'[s] = call[s]
      BY <2>2 DEF Ended, Shape, TypeOK
    <3> QED
      BY <3>1 DEF CallOK, Shape
  <2> QED
    BY <2>1, <2>2
<1> QED
  BY <1>2, <1>3 DEF Shape

\* A call that goes on to its next statement.
LEMMA StepShape ==
    ASSUME Shape, NEW t \in Writers, op[t].at # "done", Step(t), connected' \in BOOLEAN,
           view' \in Tables, disk' \in Tables, Counters
    PROVE  Shape'
<1> DEFINE c == op[t].call
           n == After(c, op[t].at)
<1>1. /\ c \in Calls /\ op[t].at \in Statements
      /\ kept \in [Hours -> Nat] /\ settled \in SUBSET Objects
  BY DEF Shape, TypeOK, CallOK
<1>2. CASE Raise(t)
  BY <1>1, <1>2, EndedShape DEF Raise
<1>3. CASE Return(t)
  <2>1. settled' \in SUBSET Objects
    BY <1>3, <1>1 DEF Return, Shape, TypeOK
  <2>2. kept' \in [Hours -> Nat]
    <3>1. CASE c.kind = "record_node_traffic"
      BY <3>1, <1>3, <1>1, CallFields DEF Return
    <3>2. CASE c.kind # "record_node_traffic"
      BY <3>2, <1>3, <1>1 DEF Return
    <3> QED
      BY <3>1, <3>2
  <2> QED
    BY <1>3, <2>1, <2>2, EndedShape DEF Return
<1>4. CASE n # "done" /\ op' = [op EXCEPT ![t].at = n] /\ UNCHANGED <<object, kept>>
  <2>1. /\ op[t].at \in {"user", "drop", "rows"} => c.kind \in Updates
        /\ op[t].at = "delete" => c.kind = "remove_user"
        /\ op[t].at \in {"clear", "policies"} => c.kind = "replace_node_outbound_policies"
        /\ op[t].at = "bucket" => c.kind = "record_node_traffic"
    BY <1>1 DEF Shape, CallOK
  <2>2. /\ n \in Statements
        /\ n \in {"user", "drop", "rows"} => c.kind \in Updates
        /\ n = "delete" => c.kind = "remove_user"
        /\ n \in {"clear", "policies"} => c.kind = "replace_node_outbound_policies"
        /\ n = "bucket" => c.kind = "record_node_traffic"
    BY <1>1, <1>4, <2>1, AfterFits
  <2> HIDE DEF n
  <2>3. op' \in [Writers -> [call : Calls \cup {NoCall}, at : Statements \cup {"done"},
                             cancelled : BOOLEAN]]
    BY <1>4, <2>2 DEF Shape, TypeOK
  <2>4. TypeOK'
    BY <1>4, <2>3 DEF Shape, TypeOK, Counters, object
  <2>5. ASSUME NEW s \in Writers PROVE CallOK(s)'
    <3>1. CASE s = t
      <4>1. op'[s].call = c /\ op'[s].at = n /\ call'[s] = call[s]
        BY <1>4, <3>1 DEF Shape, TypeOK, object
      <4>2. CallOK(s)
        BY DEF Shape
      <4> QED
        BY <3>1, <4>1, <4>2, <2>2, <1>4 DEF CallOK
    <3>2. CASE s # t
      <4>1. op'[s] = op[s] /\ call'[s] = call[s]
        BY <1>4, <3>2 DEF Shape, TypeOK, object
      <4> QED
        BY <4>1 DEF CallOK, Shape
    <3> QED
      BY <3>1, <3>2
  <2> QED
    BY <2>4, <2>5 DEF Shape
<1> QED
  BY <1>2, <1>3, <1>4 DEF Step

(***************************************************************************)
(* What a statement does.                                                  *)
(***************************************************************************)
NoOrphansIn(v) ==
    \A u \in Ids : v.users[u] = NoRow => v.inbounds[u] = {} /\ v.outbounds[u] = NoOuts

\* How far a call that leaves w, alone on its object, has come when it is at
\* statement s and the object has value v.
Reached(c, s, v, w) ==
    /\ s \in {"commit", "done"} => v = w
    /\ c.kind = "update_user_inbounds" =>
          /\ w = [ident |-> c.ident, tags |-> c.tags, outs |-> v.outs]
          /\ s \in {"drop", "rows"} => v.ident = c.ident
          /\ s = "rows" => v.tags = {}
    /\ c.kind = "update_user_outbounds" =>
          /\ w = [ident |-> c.ident, tags |-> v.tags, outs |-> c.outs]
          /\ s \in {"drop", "rows"} => v.ident = c.ident
          /\ s = "rows" => v.outs = NoOuts
    /\ c.kind = "remove_user" => w = [ident |-> NoRow, tags |-> {}, outs |-> NoOuts]
    /\ c.kind = "replace_node_outbound_policies" =>
          /\ w = [policies |-> c.policies]
          /\ s = "policies" => v.policies = {}

Advances(t) ==
    LET c == op[t].call
        s == op[t].at
        o == ObjectOf(c)
    IN  c.kind # "record_node_traffic" =>
          \A w \in Values : Reached(c, s, ValueIn(view, o), w)
                                => Reached(c, After(c, s), ValueIn(view', o), w)

\* The tables after a statement of a call: the other objects are as before.
Effect(t) ==
    /\ op[t].at # "done"
    /\ connected' \in BOOLEAN
    /\ view' \in Tables
    /\ disk' \in {disk, view'}
    /\ After(op[t].call, op[t].at) = "done" => disk' = view'
    /\ NoOrphansIn(view) => NoOrphansIn(view')
    /\ \A o \in Objects :
          (call[t] # NoCall => o # call[t].obj) => ValueIn(view', o) = ValueIn(view, o)
    /\ Raise(t) \/ (Step(t) /\ Advances(t))
    /\ UNCHANGED <<read, asked, calls, faults>>

\* What is known of a writer at a statement.
LEMMA WriterFacts ==
    ASSUME Shape, NEW t \in Writers, op[t].at # "done"
    PROVE  /\ op[t].call \in Calls /\ op[t].at \in Statements
           /\ view \in Tables /\ disk \in Tables /\ connected \in BOOLEAN
           /\ op[t].at \in {"user", "drop", "rows"} => op[t].call.kind \in Updates
           /\ op[t].at = "delete" => op[t].call.kind = "remove_user"
           /\ op[t].at \in {"clear", "policies"} =>
                 op[t].call.kind = "replace_node_outbound_policies"
           /\ op[t].at = "bucket" => op[t].call.kind = "record_node_traffic"
           /\ op[t].call.kind # "record_node_traffic" =>
                 call[t] # NoCall /\ call[t].obj = ObjectOf(op[t].call)
           /\ op[t].call.kind = "record_node_traffic" => call[t] = NoCall
  BY DEF Shape, TypeOK, CallOK

\* Opening the connection.
LEMMA ConnectEffect ==
    ASSUME Shape, NEW t \in Writers, Connect(t)
    PROVE  Effect(t)
<1> DEFINE c == op[t].call
<1>1. op[t].at = "connect" /\ view' = view /\ disk' = disk /\ connected' = TRUE /\ Step(t)
  BY DEF Connect, At
<1>2. c \in Calls
  BY <1>1, WriterFacts
<1>3. After(c, "connect") \in {"user", "delete", "clear", "bucket"}
  BY <1>2, CallFields DEF After, First
<1>4. Advances(t)
  BY <1>1, <1>3 DEF Advances, Reached
<1> QED
  BY <1>1, <1>3, <1>4 DEF Effect, Connect, Shape, TypeOK

\* Writing the row of the user.
LEMMA UpsertUserEffect ==
    ASSUME Shape, NEW t \in Writers, UpsertUser(t)
    PROVE  Effect(t)
<1> DEFINE c == op[t].call
<1>1. /\ op[t].at = "user"
      /\ view' = [view EXCEPT !.users = [view.users EXCEPT ![c.uid] = c.ident]]
      /\ disk' = disk /\ connected' = connected /\ Step(t)
  BY DEF UpsertUser, At, Writes
<1>2. /\ c.kind \in Updates /\ view \in Tables
      /\ c.uid \in Ids /\ c.ident \in Idents
      /\ call[t] # NoCall /\ call[t].obj = c.uid /\ ObjectOf(c) = c.uid
      /\ connected \in BOOLEAN
  BY <1>1, WriterFacts, CallFields DEF Updates, ObjectOf
<1>3. After(c, "user") = "drop"
  BY DEF After
<1>4. /\ view' \in Tables
      /\ view'.users = [view.users EXCEPT ![c.uid] = c.ident]
      /\ view'.inbounds = view.inbounds /\ view'.outbounds = view.outbounds
      /\ view'.policies = view.policies
  BY <1>1, <1>2 DEF Tables
<1>5. NoOrphansIn(view) => NoOrphansIn(view')
  BY <1>2, <1>4, NoRowAssumption DEF NoOrphansIn, Tables
<1>6. \A o \in Objects : o # c.uid => ValueIn(view', o) = ValueIn(view, o)
  BY <1>2, <1>4 DEF ValueIn, Tables, Objects
<1>7. /\ ValueIn(view, c.uid) =
            [ident |-> view.users[c.uid], tags |-> view.inbounds[c.uid], outs |-> view.outbounds[c.uid]]
      /\ ValueIn(view', c.uid) =
            [ident |-> c.ident, tags |-> view.inbounds[c.uid], outs |-> view.outbounds[c.uid]]
  BY <1>2, <1>4, PolicyTableAssumption DEF ValueIn, Tables
<1>8. Advances(t)
  <2>1. SUFFICES ASSUME NEW x \in Values, Reached(c, "user", ValueIn(view, c.uid), x)
                 PROVE  Reached(c, "drop", ValueIn(view', c.uid), x)
    BY <1>1, <1>2, <1>3 DEF Advances
  <2>2. /\ ValueIn(view', c.uid).ident = c.ident
        /\ ValueIn(view', c.uid).tags = ValueIn(view, c.uid).tags
        /\ ValueIn(view', c.uid).outs = ValueIn(view, c.uid).outs
    BY <1>7
  <2> HIDE DEF c
  <2> QED
    BY <1>2, <2>1, <2>2 DEF Reached, Updates
<1> QED
  BY <1>1, <1>2, <1>3, <1>4, <1>5, <1>6, <1>8 DEF Effect, UpsertUser, Writes

\* Deleting the rows of the user that are to be written anew.
LEMMA DropRowsEffect ==
    ASSUME Shape, NEW t \in Writers, DropRows(t)
    PROVE  Effect(t)
<1> DEFINE c == op[t].call
           v == ValueIn(view, c.uid)
           w == ValueIn(view', c.uid)
<1>1. /\ op[t].at = "drop"
      /\ view' = IF c.kind = "update_user_inbounds"
                 THEN [view EXCEPT !.inbounds = [view.inbounds EXCEPT ![c.uid] = {}]]
                 ELSE [view EXCEPT !.outbounds = [view.outbounds EXCEPT ![c.uid] = NoOuts]]
      /\ disk' = disk /\ connected' = connected /\ Step(t)
      /\ UNCHANGED <<read, asked, calls, faults>>
  BY DEF DropRows, At, Writes
<1>2. /\ c.kind \in Updates /\ view \in Tables
      /\ c.uid \in Ids /\ NoOuts \in Outs
      /\ call[t] # NoCall /\ call[t].obj = c.uid /\ ObjectOf(c) = c.uid
      /\ connected \in BOOLEAN
  BY <1>1, WriterFacts, CallFields, OutsAssumption DEF Updates, ObjectOf
<1>3. After(c, "drop") = IF NoRows(c) THEN "commit" ELSE "rows"
  BY DEF After
<1>4. /\ view' \in Tables /\ view'.users = view.users /\ view'.policies = view.policies
      /\ view'.inbounds = IF c.kind = "update_user_inbounds"
                          THEN [view.inbounds EXCEPT ![c.uid] = {}] ELSE view.inbounds
      /\ view'.outbounds = IF c.kind = "update_user_inbounds"
                           THEN view.outbounds ELSE [view.outbounds EXCEPT ![c.uid] = NoOuts]
  BY <1>1, <1>2 DEF Tables
<1>5. NoOrphansIn(view) => NoOrphansIn(view')
  BY <1>2, <1>4 DEF NoOrphansIn, Tables
<1>6. \A o \in Objects : o # c.uid => ValueIn(view', o) = ValueIn(view, o)
  BY <1>2, <1>4 DEF ValueIn, Tables, Objects
<1>7. /\ v = [ident |-> view.users[c.uid], tags |-> view.inbounds[c.uid],
              outs |-> view.outbounds[c.uid]]
      /\ c.kind = "update_user_inbounds" =>
            w = [ident |-> view.users[c.uid], tags |-> {}, outs |-> view.outbounds[c.uid]]
      /\ c.kind = "update_user_outbounds" =>
            w = [ident |-> view.users[c.uid], tags |-> view.inbounds[c.uid], outs |-> NoOuts]
  BY <1>2, <1>4, PolicyTableAssumption DEF ValueIn, Tables
<1>8. Advances(t)
  <2>1. SUFFICES ASSUME NEW x \in Values, Reached(c, "drop", v, x)
                 PROVE  Reached(c, After(c, "drop"), w, x)
    BY <1>1, <1>2 DEF Advances
  <2>2. CASE c.kind = "update_user_inbounds"
    <3>1. x = [ident |-> c.ident, tags |-> c.tags, outs |-> v.outs] /\ v.ident = c.ident
      BY <2>1, <2>2 DEF Reached
    <3>2. NoRows(c) <=> c.tags = {}
      BY <2>2 DEF NoRows
    <3>3. w = [ident |-> c.ident, tags |-> {}, outs |-> v.outs]
      BY <3>1, <2>2, <1>7
    <3>4. CASE NoRows(c)
      <4>1. x = w /\ After(c, "drop") = "commit"
        BY <3>1, <3>2, <3>3, <3>4, <1>3
      <4> QED
        BY <4>1, <3>1, <3>3, <2>2 DEF Reached
    <3>5. CASE ~NoRows(c)
      <4>1. After(c, "drop") = "rows"
        BY <3>5, <1>3
      <4> QED
        BY <4>1, <3>1, <3>3, <2>2 DEF Reached
    <3> QED
      BY <3>4, <3>5
  <2>3. CASE c.kind = "update_user_outbounds"
    <3>1. x = [ident |-> c.ident, tags |-> v.tags, outs |-> c.outs] /\ v.ident = c.ident
      BY <2>1, <2>3 DEF Reached
    <3>2. NoRows(c) <=> c.outs = NoOuts
      BY <2>3 DEF NoRows
    <3>3. w = [ident |-> c.ident, tags |-> v.tags, outs |-> NoOuts]
      BY <3>1, <2>3, <1>7
    <3>4. CASE NoRows(c)
      <4>1. x = w /\ After(c, "drop") = "commit"
        BY <3>1, <3>2, <3>3, <3>4, <1>3
      <4> QED
        BY <4>1, <3>1, <3>3, <2>3 DEF Reached
    <3>5. CASE ~NoRows(c)
      <4>1. After(c, "drop") = "rows"
        BY <3>5, <1>3
      <4> QED
        BY <4>1, <3>1, <3>3, <2>3 DEF Reached
    <3> QED
      BY <3>4, <3>5
  <2> QED
    BY <2>1, <2>2, <2>3, <1>2 DEF Updates
<1>9. After(c, "drop") # "done"
  BY <1>3
<1> QED
  BY <1>1, <1>2, <1>9, <1>4, <1>5, <1>6, <1>8 DEF Effect

\* Writing the inbounds of the user.
LEMMA InsertInboundsEffect ==
    ASSUME Shape, NEW t \in Writers, At(t, "rows"), InsertInbounds(t),
           op[t].call.kind = "update_user_inbounds"
    PROVE  Effect(t)
<1> DEFINE c == op[t].call
           v == ValueIn(view, c.uid)
           w == ValueIn(view', c.uid)
<1>1. /\ op[t].at = "rows" /\ view \in Tables
      /\ c.uid \in Ids /\ c.tags \in SUBSET Tags
      /\ call[t] # NoCall /\ call[t].obj = c.uid /\ ObjectOf(c) = c.uid
      /\ connected \in BOOLEAN
  BY WriterFacts, CallFields DEF At, ObjectOf
<1>2. PICK some \in SUBSET c.tags :
        /\ view' = [view EXCEPT !.inbounds =
                        [view.inbounds EXCEPT ![c.uid] = view.inbounds[c.uid] \cup some]]
        /\ view.users[c.uid] = NoRow => some = {}
        /\ disk' = disk /\ connected' = connected
        /\ UNCHANGED <<read, asked, calls, faults>>
        /\ Raise(t) \/ (Step(t) /\ some = c.tags)
  <2>1. CASE view.users[c.uid] # NoRow /\ view.inbounds[c.uid] \cap c.tags = {}
    BY <2>1, <1>1 DEF InsertInbounds, Writes
  <2>2. CASE ~(view.users[c.uid] # NoRow /\ view.inbounds[c.uid] \cap c.tags = {})
    BY <2>2, <1>1 DEF InsertInbounds, Writes
  <2> QED
    BY <2>1, <2>2
<1>3. /\ view' \in Tables /\ view'.users = view.users /\ view'.policies = view.policies
      /\ view'.inbounds = [view.inbounds EXCEPT ![c.uid] = view.inbounds[c.uid] \cup some]
      /\ view'.outbounds = view.outbounds
  <2>1. view.inbounds[c.uid] \cup some \in SUBSET Tags
    BY <1>1 DEF Tables
  <2> QED
    BY <1>1, <1>2, <2>1 DEF Tables
<1>4. NoOrphansIn(view) => NoOrphansIn(view')
  <2>1. SUFFICES ASSUME NoOrphansIn(view), NEW u \in Ids, view.users[u] = NoRow
                 PROVE  view'.inbounds[u] = {} /\ view'.outbounds[u] = NoOuts
    BY <1>3 DEF NoOrphansIn
  <2>2. view.inbounds[u] = {} /\ view.outbounds[u] = NoOuts
    BY <2>1 DEF NoOrphansIn
  <2>3. u = c.uid => some = {}
    BY <2>1, <1>2
  <2> QED
    BY <2>2, <2>3, <1>1, <1>3 DEF Tables
<1>5. \A o \in Objects : o # c.uid => ValueIn(view', o) = ValueIn(view, o)
  BY <1>1, <1>3 DEF ValueIn, Tables, Objects
<1>6. /\ v = [ident |-> view.users[c.uid], tags |-> view.inbounds[c.uid],
              outs |-> view.outbounds[c.uid]]
      /\ w = [ident |-> view.users[c.uid], tags |-> view.inbounds[c.uid] \cup some,
              outs |-> view.outbounds[c.uid]]
  BY <1>1, <1>3, PolicyTableAssumption DEF ValueIn, Tables
<1>7. After(c, "rows") = "commit"
  BY DEF After
<1>8. some = c.tags => Advances(t)
  <2>1. SUFFICES ASSUME some = c.tags, NEW x \in Values, Reached(c, "rows", v, x)
                 PROVE  Reached(c, "commit", w, x)
    BY <1>1, <1>7 DEF Advances
  <2>2. v.ident = c.ident /\ v.tags = {} /\ x = [ident |-> c.ident, tags |-> c.tags, outs |-> v.outs]
    BY <2>1 DEF Reached
  <2>3. view.inbounds[c.uid] \cup some = c.tags /\ view.users[c.uid] = c.ident
        /\ v.outs = view.outbounds[c.uid]
    <3>1. /\ v.ident = view.users[c.uid] /\ v.tags = view.inbounds[c.uid]
          /\ v.outs = view.outbounds[c.uid]
      BY <1>6
    <3>2. {} \cup some = some
      OBVIOUS
    <3> HIDE DEF v, w, c
    <3> QED BY <2>1, <2>2, <3>1, <3>2
  <2>4. w = x
    BY <2>2, <2>3, <1>6
  <2> QED
    BY <2>2, <2>3, <2>4, <1>6 DEF Reached
<1> QED
  BY <1>1, <1>2, <1>3, <1>4, <1>5, <1>7, <1>8 DEF Effect

\* Writing the outbounds of the user.
LEMMA InsertOutboundsEffect ==
    ASSUME Shape, NEW t \in Writers, At(t, "rows"), InsertOutbounds(t),
           op[t].call.kind = "update_user_outbounds"
    PROVE  Effect(t)
<1> DEFINE c == op[t].call
           v == ValueIn(view, c.uid)
           w == ValueIn(view', c.uid)
<1>1. /\ op[t].at = "rows" /\ view \in Tables
      /\ c.uid \in Ids /\ c.outs \in Outs
      /\ call[t] # NoCall /\ call[t].obj = c.uid /\ ObjectOf(c) = c.uid
      /\ connected \in BOOLEAN
  BY WriterFacts, CallFields DEF At, ObjectOf
<1>2. After(c, "rows") = "commit"
  BY DEF After
<1>3. CASE ~(view.users[c.uid] # NoRow /\ view.outbounds[c.uid] = NoOuts)
  <2>1. view' = view /\ disk' = disk /\ connected' = connected /\ Raise(t)
        /\ UNCHANGED <<read, asked, calls, faults>>
    BY <1>3 DEF InsertOutbounds, Writes
  <2> QED
    BY <2>1, <1>1, <1>2 DEF Effect
<1>4. CASE view.users[c.uid] # NoRow /\ view.outbounds[c.uid] = NoOuts
  <2>1. /\ view' = [view EXCEPT !.outbounds = [view.outbounds EXCEPT ![c.uid] = c.outs]]
        /\ disk' = disk /\ connected' = connected /\ Step(t)
        /\ UNCHANGED <<read, asked, calls, faults>>
    BY <1>4 DEF InsertOutbounds, Writes
  <2>2. /\ view' \in Tables /\ view'.users = view.users /\ view'.policies = view.policies
        /\ view'.inbounds = view.inbounds
        /\ view'.outbounds = [view.outbounds EXCEPT ![c.uid] = c.outs]
    BY <2>1, <1>1 DEF Tables
  <2>3. NoOrphansIn(view) => NoOrphansIn(view')
    BY <2>2, <1>1, <1>4 DEF NoOrphansIn, Tables
  <2>4. \A o \in Objects : o # c.uid => ValueIn(view', o) = ValueIn(view, o)
    BY <1>1, <2>2 DEF ValueIn, Tables, Objects
  <2>5. /\ v = [ident |-> view.users[c.uid], tags |-> view.inbounds[c.uid],
                outs |-> view.outbounds[c.uid]]
        /\ w = [ident |-> view.users[c.uid], tags |-> view.inbounds[c.uid], outs |-> c.outs]
    BY <1>1, <2>2, PolicyTableAssumption DEF ValueIn, Tables
  <2>6. Advances(t)
    <3>1. SUFFICES ASSUME NEW x \in Values, Reached(c, "rows", v, x)
                   PROVE  Reached(c, "commit", w, x)
      BY <1>1, <1>2 DEF Advances
    <3>2. v.ident = c.ident /\ x = [ident |-> c.ident, tags |-> v.tags, outs |-> c.outs]
      BY <3>1 DEF Reached
    <3>3. w = x
      BY <3>2, <2>5
    <3> QED
      BY <3>2, <3>3, <2>5 DEF Reached
  <2> QED
    BY <1>1, <1>2, <2>1, <2>2, <2>3, <2>4, <2>6 DEF Effect
<1> QED
  BY <1>3, <1>4

\* Deleting the user, with the rows that refer to it.
LEMMA DeleteUserEffect ==
    ASSUME Shape, NEW t \in Writers, DeleteUser(t)
    PROVE  Effect(t)
<1> DEFINE c == op[t].call
           w == ValueIn(view', c.uid)
<1>1. /\ op[t].at = "delete"
      /\ view' = [view EXCEPT !.users = [view.users EXCEPT ![c.uid] = NoRow],
                              !.inbounds = [view.inbounds EXCEPT ![c.uid] = {}],
                              !.outbounds = [view.outbounds EXCEPT ![c.uid] = NoOuts]]
      /\ disk' = disk /\ connected' = connected /\ Step(t)
      /\ UNCHANGED <<read, asked, calls, faults>>
  BY DEF DeleteUser, At, Writes, WithoutUser
<1>2. /\ c.kind = "remove_user" /\ view \in Tables
      /\ c.uid \in Ids /\ NoOuts \in Outs
      /\ call[t] # NoCall /\ call[t].obj = c.uid /\ ObjectOf(c) = c.uid
      /\ connected \in BOOLEAN
  BY <1>1, WriterFacts, CallFields, OutsAssumption DEF ObjectOf
<1>3. After(c, "delete") = "commit"
  BY DEF After
<1>4. /\ view' \in Tables /\ view'.policies = view.policies
      /\ view'.users = [view.users EXCEPT ![c.uid] = NoRow]
      /\ view'.inbounds = [view.inbounds EXCEPT ![c.uid] = {}]
      /\ view'.outbounds = [view.outbounds EXCEPT ![c.uid] = NoOuts]
  BY <1>1, <1>2 DEF Tables
<1>5. NoOrphansIn(view) => NoOrphansIn(view')
  BY <1>2, <1>4 DEF NoOrphansIn, Tables
<1>6. \A o \in Objects : o # c.uid => ValueIn(view', o) = ValueIn(view, o)
  BY <1>2, <1>4 DEF ValueIn, Tables, Objects
<1>7. w = [ident |-> NoRow, tags |-> {}, outs |-> NoOuts]
  BY <1>2, <1>4, PolicyTableAssumption DEF ValueIn, Tables
<1>8. Advances(t)
  BY <1>1, <1>2, <1>3, <1>7 DEF Advances, Reached
<1> QED
  BY <1>1, <1>2, <1>3, <1>4, <1>5, <1>6, <1>8 DEF Effect

\* A statement on the policies.
LEMMA PolicyTables ==
    ASSUME Shape, NEW ps \in SUBSET Policies, view' = [view EXCEPT !.policies = ps]
    PROVE  /\ view' \in Tables
           /\ NoOrphansIn(view) => NoOrphansIn(view')
           /\ \A o \in Objects : o # PolicyTable => ValueIn(view', o) = ValueIn(view, o)
           /\ ValueIn(view', PolicyTable) = [policies |-> ps]
<1>1. view \in Tables
  BY DEF Shape, TypeOK
<1>2. /\ view' \in Tables /\ view'.users = view.users /\ view'.inbounds = view.inbounds
      /\ view'.outbounds = view.outbounds /\ view'.policies = ps
  BY <1>1 DEF Tables
<1> QED
  BY <1>2 DEF NoOrphansIn, ValueIn

\* Deleting the policies.
LEMMA ClearPoliciesEffect ==
    ASSUME Shape, NEW t \in Writers, ClearPolicies(t)
    PROVE  Effect(t)
<1> DEFINE c == op[t].call
           w == ValueIn(view', PolicyTable)
<1>1. /\ op[t].at = "clear" /\ view' = [view EXCEPT !.policies = {}]
      /\ disk' = disk /\ connected' = connected /\ Step(t)
      /\ UNCHANGED <<read, asked, calls, faults>>
  BY DEF ClearPolicies, At, Writes
<1>2. /\ c.kind = "replace_node_outbound_policies"
      /\ call[t] # NoCall /\ call[t].obj = PolicyTable /\ ObjectOf(c) = PolicyTable
      /\ connected \in BOOLEAN
  BY <1>1, WriterFacts DEF ObjectOf
<1>3. After(c, "clear") = IF NoRows(c) THEN "commit" ELSE "policies"
  BY DEF After
<1>4. NoRows(c) <=> c.policies = {}
  BY <1>2 DEF NoRows
<1>5. /\ view' \in Tables
      /\ NoOrphansIn(view) => NoOrphansIn(view')
      /\ \A o \in Objects : o # PolicyTable => ValueIn(view', o) = ValueIn(view, o)
      /\ w = [policies |-> {}]
  BY <1>1, PolicyTables
<1> HIDE DEF w
<1>6. Advances(t)
  <2>1. SUFFICES ASSUME NEW x \in Values, Reached(c, "clear", ValueIn(view, PolicyTable), x)
                 PROVE  Reached(c, After(c, "clear"), w, x)
    BY <1>1, <1>2 DEF Advances, w
  <2>2. x = [policies |-> c.policies]
    BY <2>1, <1>2 DEF Reached
  <2>3. CASE NoRows(c)
    <3>1. x = w /\ After(c, "clear") = "commit"
      BY <2>2, <2>3, <1>3, <1>4, <1>5
    <3> QED
      BY <3>1, <2>2, <1>2 DEF Reached
  <2>4. CASE ~NoRows(c)
    <3>1. After(c, "clear") = "policies" /\ w.policies = {}
      BY <2>4, <1>3, <1>5
    <3> QED
      BY <3>1, <2>2, <1>2 DEF Reached
  <2> QED
    BY <2>3, <2>4
<1>7. After(c, "clear") # "done"
  BY <1>3
<1> QED
  BY <1>1, <1>2, <1>5, <1>6, <1>7 DEF Effect

\* Writing the policies.
LEMMA InsertPoliciesEffect ==
    ASSUME Shape, NEW t \in Writers, InsertPolicies(t)
    PROVE  Effect(t)
<1> DEFINE c == op[t].call
           v == ValueIn(view, PolicyTable)
           w == ValueIn(view', PolicyTable)
<1>1. op[t].at = "policies"
  BY DEF InsertPolicies, At
<1>2. /\ c.kind = "replace_node_outbound_policies" /\ view \in Tables
      /\ c.policies \in SUBSET Policies
      /\ call[t] # NoCall /\ call[t].obj = PolicyTable /\ ObjectOf(c) = PolicyTable
      /\ connected \in BOOLEAN
  BY <1>1, WriterFacts, CallFields DEF ObjectOf
<1>3. PICK some \in SUBSET c.policies :
        /\ view' = [view EXCEPT !.policies = view.policies \cup some]
        /\ disk' = disk /\ connected' = connected
        /\ UNCHANGED <<read, asked, calls, faults>>
        /\ Raise(t) \/ (Step(t) /\ some = c.policies)
  <2>1. CASE view.policies \cap c.policies = {}
    BY <2>1, <1>2 DEF InsertPolicies, Writes
  <2>2. CASE view.policies \cap c.policies # {}
    BY <2>2, <1>2 DEF InsertPolicies, Writes
  <2> QED
    BY <2>1, <2>2
<1>4. view.policies \cup some \in SUBSET Policies
  BY <1>2 DEF Tables
<1>5. /\ view' \in Tables
      /\ NoOrphansIn(view) => NoOrphansIn(view')
      /\ \A o \in Objects : o # PolicyTable => ValueIn(view', o) = ValueIn(view, o)
      /\ w = [policies |-> view.policies \cup some]
  BY <1>3, <1>4, PolicyTables
<1>6. After(c, "policies") = "commit"
  BY DEF After
<1> HIDE DEF w
<1>7. some = c.policies => Advances(t)
  <2>1. SUFFICES ASSUME some = c.policies, NEW x \in Values, Reached(c, "policies", v, x)
                 PROVE  Reached(c, "commit", w, x)
    BY <1>1, <1>2, <1>6 DEF Advances, w
  <2>2. v.policies = {} /\ x = [policies |-> c.policies]
    BY <2>1, <1>2 DEF Reached
  <2>3. v = [policies |-> view.policies]
    BY DEF ValueIn
  <2>4. view.policies \cup some = c.policies
    BY <2>1, <2>2, <2>3
  <2>5. w = x
    BY <2>2, <2>4, <1>5
  <2> QED
    BY <2>2, <2>5, <1>2 DEF Reached
<1> QED
  BY <1>1, <1>2, <1>3, <1>5, <1>6, <1>7 DEF Effect

\* Adding a sample to its bucket.
LEMMA AddToBucketEffect ==
    ASSUME Shape, NEW t \in Writers, AddToBucket(t)
    PROVE  Effect(t)
<1> DEFINE c == op[t].call
<1>1. /\ op[t].at = "bucket"
      /\ view' = [view EXCEPT !.traffic = [view.traffic EXCEPT ![c.hour] = view.traffic[c.hour] + 1]]
      /\ disk' = disk /\ connected' = connected /\ Step(t)
      /\ UNCHANGED <<read, asked, calls, faults>>
  BY DEF AddToBucket, At, Writes
<1>2. /\ c.kind = "record_node_traffic" /\ view \in Tables
      /\ c.hour \in Hours /\ connected \in BOOLEAN
  BY <1>1, WriterFacts, CallFields
<1>3. /\ view' \in Tables /\ view'.users = view.users /\ view'.inbounds = view.inbounds
      /\ view'.outbounds = view.outbounds /\ view'.policies = view.policies
  BY <1>1, <1>2 DEF Tables
<1>4. /\ NoOrphansIn(view) => NoOrphansIn(view')
      /\ \A o \in Objects : ValueIn(view', o) = ValueIn(view, o)
  BY <1>3 DEF NoOrphansIn, ValueIn
<1>5. After(c, "bucket") = "commit"
  BY DEF After
<1>6. Advances(t)
  BY <1>2 DEF Advances
<1> QED
  BY <1>1, <1>2, <1>3, <1>4, <1>5, <1>6 DEF Effect

\* Committing the open transaction, whoever wrote in it.
LEMMA CommitEffect ==
    ASSUME Shape, NEW t \in Writers, Commit(t)
    PROVE  Effect(t)
<1> DEFINE c == op[t].call
<1>1. /\ op[t].at = "commit" /\ view' = view /\ disk' = view /\ connected' = connected /\ Step(t)
      /\ UNCHANGED <<read, asked, calls, faults>>
  BY DEF Commit, At
<1>2. view \in Tables /\ connected \in BOOLEAN
  BY <1>1, WriterFacts
<1>3. After(c, "commit") = "done"
  BY DEF After
<1>4. Advances(t)
  BY <1>1, <1>3 DEF Advances, Reached
<1> QED
  BY <1>1, <1>2, <1>3, <1>4 DEF Effect

\* Every statement of every operation.
LEMMA StatementEffect ==
    ASSUME Shape, NEW t \in Writers, Statement(t)
    PROVE  Effect(t)
<1>1. CASE InsertRows(t)
  <2>1. op[t].call.kind \in Updates
    BY <1>1, WriterFacts DEF InsertRows, At
  <2> QED
    BY <1>1, <2>1, InsertInboundsEffect, InsertOutboundsEffect DEF InsertRows, Updates
<1> QED
  BY <1>1, ConnectEffect, UpsertUserEffect, DropRowsEffect, DeleteUserEffect,
     ClearPoliciesEffect, InsertPoliciesEffect, AddToBucketEffect, CommitEffect
     DEF Statement

(***************************************************************************)
(* Types and foreign keys.                                                 *)
(***************************************************************************)
\* A call begins.
LEMMA BeginShape ==
    ASSUME Shape, NEW t \in Writers, NEW c \in Calls, Begin(t, c)
    PROVE  Shape'
<1> DEFINE s == IF connected THEN First(c) ELSE "connect"
           entry == [call |-> c, at |-> s, cancelled |-> FALSE]
<1>1. /\ op[t].at = "done" /\ op' = [op EXCEPT ![t] = entry]
      /\ calls' = calls + 1 /\ calls < MaxCalls
      /\ UNCHANGED <<tables, kept, faults>>
  BY DEF Begin
<1>2. /\ s \in Statements
      /\ s \in {"user", "drop", "rows"} => c.kind \in Updates
      /\ s = "delete" => c.kind = "remove_user"
      /\ s \in {"clear", "policies"} => c.kind = "replace_node_outbound_policies"
      /\ s = "bucket" => c.kind = "record_node_traffic"
  <2>1. s \in {"connect", "user", "delete", "clear", "bucket"}
    BY CallFields DEF First
  <2>2. CASE s = "connect"
    BY <2>2 DEF Statements
  <2>3. CASE s # "connect"
    <3>1. s = First(c)
      BY <2>3
    <3>2. "connect" \in Statements
      BY DEF Statements
    <3>3. First(c) \in Statements
      BY <2>1, <3>1 DEF Statements
    <3> QED
      BY <3>1, <3>2, <3>3, AfterFits
  <2> QED
    BY <2>2, <2>3
<1> HIDE DEF s
<1>3. op' \in [Writers -> [call : Calls \cup {NoCall}, at : Statements \cup {"done"},
                           cancelled : BOOLEAN]]
  <2>1. entry \in [call : Calls \cup {NoCall}, at : Statements \cup {"done"}, cancelled : BOOLEAN]
    BY <1>2
  <2> QED
    BY <1>1, <2>1 DEF Shape, TypeOK
<1>4. op'[t] = entry /\ \A u \in Writers : u # t => op'[u] = op[u]
  BY <1>1 DEF Shape, TypeOK
<1>5. calls' \in 0..MaxCalls
  BY <1>1, BoundsAssumption DEF Shape, TypeOK
<1>6. CASE c.kind = "record_node_traffic"
  <2>1. asked' = [asked EXCEPT ![c.hour] = asked[c.hour] + 1] /\ UNCHANGED object
    BY <1>6 DEF Begin
  <2>2. asked' \in [Hours -> Nat]
    BY <2>1, <1>6, CallFields DEF Shape, TypeOK
  <2>3. TypeOK'
    BY <1>1, <1>3, <1>5, <2>1, <2>2 DEF Shape, TypeOK, tables, object
  <2>4. ASSUME NEW u \in Writers PROVE CallOK(u)'
    <3>1. CASE u = t
      <4>1. op'[u] = entry /\ call'[u] = NoCall
        BY <2>1, <3>1, <1>1, <1>4 DEF Shape, CallOK, object
      <4> QED
        BY <4>1, <1>2, <1>6 DEF CallOK
    <3>2. CASE u # t
      <4>1. op'[u] = op[u] /\ call'[u] = call[u]
        BY <3>2, <1>4, <2>1 DEF object
      <4> QED
        BY <4>1 DEF Shape, CallOK
    <3> QED
      BY <3>1, <3>2
  <2> QED
    BY <2>3, <2>4 DEF Shape
<1>7. CASE c.kind # "record_node_traffic"
  <2> DEFINE o == ObjectOf(c)
             w == Target(c)
             mine == [obj |-> o, target |-> w, alone |-> ~InUse(o)]
  <2>1. BeginOn(t, o, w) /\ UNCHANGED asked
    BY <1>7 DEF Begin
  <2>2. o \in Objects /\ w \in Values
    BY <1>7, TargetTypes DEF Shape, TypeOK
  <2> HIDE DEF o, w
  <2>3. mine \in [obj : Objects, target : Values, alone : BOOLEAN]
    BY <2>2
  <2>4. mine.obj = o /\ mine # NoCall
    <3>1. mine.obj = o
      OBVIOUS
    <3>2. mine # NoCall
      <4> HIDE DEF mine
      <4> QED
        BY <2>3, NoCallAssumption
    <3> QED
      BY <3>1, <3>2
  <2>5. /\ call'[t] = mine
        /\ \A u \in Writers \ {t} :
              call'[u] = IF call[u] # NoCall /\ call[u].obj = o
                         THEN [call[u] EXCEPT !.alone = FALSE] ELSE call[u]
    BY <2>1 DEF BeginOn
  <2> HIDE DEF mine
  <2>6. call' \in [Writers -> [obj : Objects, target : Values, alone : BOOLEAN] \cup {NoCall}]
    <3>1. \A u \in Writers : call'[u] \in [obj : Objects, target : Values, alone : BOOLEAN]
                                             \cup {NoCall}
      BY <2>3, <2>5 DEF Shape, TypeOK
    <3> QED
      BY <3>1, <2>1 DEF BeginOn
  <2>7. before' \in [Writers -> Values \cup {NoCall}]
    <3>1. ValueIn(view, o) \in Values
      BY <2>2, ValueTypes DEF Shape, TypeOK
    <3> QED
      BY <3>1, <2>1, <2>2 DEF BeginOn, Shape, TypeOK
  <2>8. TypeOK'
    BY <1>1, <1>3, <1>5, <2>1, <2>2, <2>6, <2>7 DEF Shape, TypeOK, tables, BeginOn
  <2>9. ASSUME NEW u \in Writers PROVE CallOK(u)'
    <3>1. CASE u = t
      <4>1. op'[u].call = c /\ op'[u].at = s
        BY <3>1, <1>4
      <4>2. call'[u] # NoCall /\ call'[u].obj = ObjectOf(c)
        BY <2>5, <2>4, <3>1 DEF o
      <4>3. s # "done"
        BY <1>2 DEF Statements
      <4> QED
        BY <4>1, <4>2, <4>3, <1>2, <1>7 DEF CallOK
    <3>2. CASE u # t
      <4>1. op'[u] = op[u] /\ (call'[u] = NoCall <=> call[u] = NoCall)
            /\ (call[u] # NoCall => call'[u].obj = call[u].obj)
        <5>1. CASE call[u] = NoCall
          BY <2>5, <3>2, <1>4, <5>1
        <5>2. CASE call[u] # NoCall
          <6>1. /\ call[u] \in [obj : Objects, target : Values, alone : BOOLEAN]
                /\ [call[u] EXCEPT !.alone = FALSE]
                      \in [obj : Objects, target : Values, alone : BOOLEAN]
            BY <5>2 DEF Shape, TypeOK
          <6>2. call'[u] = call[u] \/ call'[u] = [call[u] EXCEPT !.alone = FALSE]
            BY <2>5, <3>2
          <6> QED
            BY <6>1, <6>2, <3>2, <1>4, <5>2, NoCallAssumption
        <5> QED
          BY <5>1, <5>2
      <4> QED
        BY <4>1 DEF Shape, CallOK
    <3> QED
      BY <3>1, <3>2
  <2> QED
    BY <2>8, <2>9 DEF Shape
<1> QED
  BY <1>6, <1>7

\* The first state, and steps that leave the calls alone.
LEMMA InitShape ==
    ASSUME Init
    PROVE  Shape /\ NoOrphansIn(view) /\ NoOrphansIn(disk)
<1>1. Empty \in Tables
  BY OutsAssumption DEF Empty, Tables
<1>2. /\ op \in [Writers -> [call : Calls \cup {NoCall}, at : Statements \cup {"done"},
                             cancelled : BOOLEAN]]
      /\ call \in [Writers -> [obj : Objects, target : Values, alone : BOOLEAN] \cup {NoCall}]
      /\ before \in [Writers -> Values \cup {NoCall}]
  BY DEF Init, NoOp
<1>3. asked \in [Hours -> Nat] /\ kept \in [Hours -> Nat] /\ calls \in 0..MaxCalls
      /\ faults \in 0..MaxFaults
  BY BoundsAssumption DEF Init
<1>4. connected \in BOOLEAN /\ view \in Tables /\ disk \in Tables /\ settled \in SUBSET Objects
  BY <1>1 DEF Init
<1>5. TypeOK
  BY <1>2, <1>3, <1>4 DEF TypeOK
<1>6. \A t \in Writers : CallOK(t)
  BY DEF Init, CallOK, NoOp
<1>7. NoOrphansIn(view) /\ NoOrphansIn(disk)
  BY DEF Init, Empty, NoOrphansIn
<1> QED
  BY <1>5, <1>6, <1>7 DEF Shape

LEMMA ReadingShape ==
    ASSUME Shape, NEW r \in Readers, Reading(r)
    PROVE  Shape' /\ UNCHANGED <<view, disk, op, object, counters>>
<1>1. connected' \in BOOLEAN /\ UNCHANGED <<view, disk, op, object, counters>>
  BY DEF Reading, ListUsers, ReadTags, ReadOutbounds, GetTotals, SumMonth, SumTotal,
         ReadReturns, tables, Shape, TypeOK
<1>2. TypeOK'
  BY <1>1 DEF Shape, TypeOK, object, counters
<1>3. \A t \in Writers : CallOK(t)'
  BY <1>1 DEF Shape, CallOK, object
<1> QED
  BY <1>1, <1>2, <1>3 DEF Shape

LEMMA FaultShape ==
    ASSUME Shape, NEW t \in Writers, Fail(t) \/ Cancel(t)
    PROVE  Shape' /\ UNCHANGED <<tables, read>>
<1>1. /\ op[t].at # "done" /\ faults' = faults + 1 /\ faults < MaxFaults
      /\ UNCHANGED <<tables, read, asked, calls>>
  BY DEF Fail, Cancel
<1>2. /\ connected' \in BOOLEAN /\ view' \in Tables /\ disk' \in Tables /\ Counters
  BY <1>1, BoundsAssumption DEF Shape, TypeOK, Counters, tables
<1>3. CASE Raise(t)
  <2>1. Ended(t) /\ settled' \in SUBSET Objects /\ kept' \in [Hours -> Nat]
    BY <1>3 DEF Raise, Shape, TypeOK
  <2> QED
    BY <1>1, <1>2, <2>1, EndedShape
<1>4. CASE op' = [op EXCEPT ![t].cancelled = TRUE] /\ UNCHANGED <<object, kept>>
  <2>1. op' \in [Writers -> [call : Calls \cup {NoCall}, at : Statements \cup {"done"},
                             cancelled : BOOLEAN]]
    BY <1>4 DEF Shape, TypeOK
  <2>2. TypeOK'
    BY <1>1, <1>2, <1>4, <2>1 DEF Shape, TypeOK, tables, object, Counters
  <2>3. \A u \in Writers : op'[u].at = op[u].at /\ op'[u].call = op[u].call
    BY <1>4 DEF Shape, TypeOK
  <2>4. \A u \in Writers : CallOK(u)'
    BY <2>3, <1>4 DEF Shape, CallOK, object
  <2> QED
    BY <1>1, <2>2, <2>4 DEF Shape
<1> QED
  BY <1>3, <1>4 DEF Fail, Cancel

LEMMA CrashShape ==
    ASSUME Shape, Crash
    PROVE  Shape'
<1>1. faults' \in 0..MaxFaults
  BY BoundsAssumption DEF Crash, Shape, TypeOK
<1>2. TypeOK'
  BY <1>1 DEF Crash, Shape, TypeOK, NoOp
<1>3. \A t \in Writers : CallOK(t)'
  BY DEF Crash, CallOK, NoOp
<1> QED
  BY <1>2, <1>3 DEF Shape

LEMMA ShapeNext ==
    ASSUME Shape, [Next]_vars
    PROVE  Shape'
<1>1. CASE UNCHANGED vars
  BY <1>1 DEF Shape, TypeOK, CallOK, vars, tables, object, counters
<1>2. ASSUME NEW t \in Writers, NEW c \in Calls, Begin(t, c) PROVE Shape'
  BY <1>2, BeginShape
<1>3. ASSUME NEW t \in Writers, Statement(t) PROVE Shape'
  <2>1. Effect(t)
    BY <1>3, StatementEffect
  <2>2. /\ op[t].at # "done" /\ connected' \in BOOLEAN /\ view' \in Tables /\ disk' \in Tables
        /\ Counters
    BY <2>1 DEF Effect, Counters, Shape, TypeOK
  <2>3. CASE Step(t)
    BY <2>2, <2>3, StepShape
  <2>4. CASE Raise(t)
    <3>1. Ended(t) /\ settled' \in SUBSET Objects /\ kept' \in [Hours -> Nat]
      BY <2>4 DEF Raise, Shape, TypeOK
    <3> QED
      BY <2>2, <3>1, EndedShape
  <2> QED
    BY <2>1, <2>3, <2>4 DEF Effect
<1>4. ASSUME NEW r \in Readers, Reading(r) PROVE Shape'
  BY <1>4, ReadingShape
<1>5. ASSUME NEW t \in Writers, Fail(t) \/ Cancel(t) PROVE Shape'
  BY <1>5, FaultShape
<1> QED
  BY <1>1, <1>2, <1>3, <1>4, <1>5, CrashShape DEF Next

\* TypeOK holds in every reachable state, whatever the users, tags, tasks
\* and calls on the connection of SqliteStorage are.
THEOREM TypeCorrect == Spec => []TypeOK
<1>1. Init => Shape
  BY InitShape
<1>2. Shape /\ [Next]_vars => Shape'
  BY ShapeNext
<1>3. Shape => TypeOK
  BY DEF Shape
<1> QED
  BY <1>1, <1>2, <1>3, PTL DEF Spec

\* The rows of user_inbounds and user_outbounds always belong to a user, in
\* the open transaction and on the disk: remove_user leaves none behind, and
\* no half-done update brings any back (sqlite.py:76,90,118,218).
THEOREM ForeignKeysHold == Spec => []NoOrphans
<1> DEFINE Inv == Shape /\ NoOrphansIn(view) /\ NoOrphansIn(disk)
<1>1. Init => Inv
  BY InitShape
<1>2. ASSUME Inv, [Next]_vars PROVE Inv'
  <2>1. Shape'
    BY <1>2, ShapeNext
  <2>2. CASE UNCHANGED <<view, disk>>
    BY <1>2, <2>1, <2>2 DEF NoOrphansIn
  <2>3. ASSUME NEW t \in Writers, Statement(t) PROVE Inv'
    <3>1. Effect(t)
      BY <1>2, <2>3, StatementEffect
    <3>2. NoOrphansIn(view') /\ disk' \in {disk, view'}
      BY <1>2, <3>1 DEF Effect
    <3> QED
      BY <1>2, <2>1, <3>2 DEF NoOrphansIn
  <2>4. CASE Crash
    BY <1>2, <2>1, <2>4 DEF Crash, NoOrphansIn
  <2>5. ASSUME NEW t \in Writers, NEW c \in Calls, Begin(t, c) PROVE UNCHANGED <<view, disk>>
    BY <2>5 DEF Begin, tables
  <2>6. ASSUME NEW r \in Readers, Reading(r) PROVE UNCHANGED <<view, disk>>
    BY <1>2, <2>6, ReadingShape
  <2>7. ASSUME NEW t \in Writers, Fail(t) \/ Cancel(t) PROVE UNCHANGED <<view, disk>>
    BY <1>2, <2>7, FaultShape DEF tables
  <2>8. CASE UNCHANGED vars
    BY <2>2, <2>8 DEF vars, tables
  <2> QED
    BY <1>2, <2>2, <2>3, <2>4, <2>5, <2>6, <2>7, <2>8 DEF Next
<1>3. Inv => NoOrphans
  BY DEF NoOrphans, NoOrphansIn
<1> QED
  BY <1>1, <1>2, <1>3, PTL DEF Spec

(***************************************************************************)
(* The contract of Store.                                                  *)
(***************************************************************************)
\* A call that has been alone on its object is as far as its statement says.
AloneOK(t) ==
    call[t] # NoCall /\ call[t].alone =>
        /\ \A s \in Writers \ {t} : call[s] # NoCall => call[s].obj # call[t].obj
        /\ Reached(op[t].call, op[t].at, ValueIn(view, call[t].obj), call[t].target)

\* A settled object is committed, and nobody is at work on it.
SettledOK(o) == ~InUse(o) /\ ValueIn(view, o) = ValueIn(disk, o)

Settling ==
    /\ Shape
    /\ \A t \in Writers : AloneOK(t)
    /\ \A o \in settled : SettledOK(o)

\* The other objects keep their values.
LEMMA OthersKept ==
    ASSUME Settling, view' \in Tables,
           \A o \in settled : ValueIn(view', o) = ValueIn(view, o)
    PROVE  Kept!Keep
<1>1. \A o \in Objects : ValueIn(view', o) \in Values
  BY ValueTypes
<1> QED
  BY <1>1 DEF Kept!Keep, Settling, Shape, TypeOK

\* A call ends, by returning or with an error.
LEMMA RaiseStep ==
    ASSUME Settling, NEW t \in Writers, Raise(t), Kept!Keep
    PROVE  Kept!StoreNext
<1>1. call' = [call EXCEPT ![t] = NoCall] /\ UNCHANGED settled
  BY DEF Raise, Ended
<1>2. CASE call[t] # NoCall
  BY <1>1, <1>2 DEF Kept!StoreNext, Kept!StoreRaise
<1>3. CASE call[t] = NoCall
  <2>1. call' = call
    BY <1>1, <1>3 DEF Settling, Shape, TypeOK
  <2> QED
    BY <1>1, <2>1 DEF Kept!StoreNext, Kept!StoreWork
<1> QED
  BY <1>2, <1>3

\* What a step does to the writers it is not of.
LEMMA OthersStay ==
    ASSUME Settling, NEW t \in Writers,
           \A s \in Writers \ {t} : op'[s] = op[s] /\ call'[s] = call[s],
           call'[t] = NoCall \/ call'[t] = call[t],
           \A o \in Objects :
              (call[t] # NoCall => o # call[t].obj) => ValueIn(view', o) = ValueIn(view, o)
    PROVE  /\ \A s \in Writers \ {t} : AloneOK(s)'
           /\ \A o \in Objects : ~InUse(o) => ~InUse(o)'
<1>1. \A s \in Writers : call'[s] # NoCall => call[s] # NoCall /\ call'[s] = call[s]
  OBVIOUS
<1>2. ASSUME NEW s \in Writers \ {t}, call'[s] # NoCall, call'[s].alone
      PROVE  /\ \A u \in Writers \ {s} : call'[u] # NoCall => call'[u].obj # call'[s].obj
             /\ Reached(op'[s].call, op'[s].at, ValueIn(view', call'[s].obj), call'[s].target)
  <2>1. call'[s] = call[s] /\ op'[s] = op[s] /\ AloneOK(s)
    BY DEF Settling
  <2>2. \A u \in Writers \ {s} : call[u] # NoCall => call[u].obj # call[s].obj
    BY <1>2, <2>1 DEF AloneOK
  <2>3. call[s].obj \in Objects
    BY <1>2, <2>1 DEF Settling, Shape, TypeOK
  <2>4. ValueIn(view', call[s].obj) = ValueIn(view, call[s].obj)
    BY <2>2, <2>3
  <2>5. Reached(op[s].call, op[s].at, ValueIn(view, call[s].obj), call[s].target)
    BY <1>2, <2>1 DEF AloneOK
  <2> QED
    BY <1>1, <2>1, <2>2, <2>4, <2>5
<1>3. \A s \in Writers \ {t} : AloneOK(s)'
  BY <1>2 DEF AloneOK
<1> QED
  BY <1>1, <1>3 DEF InUse

\* A statement of a call.
LEMMA StatementStep ==
    ASSUME Settling, NEW t \in Writers, Statement(t)
    PROVE  Settling' /\ Kept!StoreNext
<1> DEFINE c == op[t].call
           n == After(c, op[t].at)
<1>1. Effect(t) /\ Shape'
  BY StatementEffect, ShapeNext DEF Settling, Next
<1>2. /\ op[t].at # "done" /\ view' \in Tables /\ disk' \in {disk, view'}
      /\ n = "done" => disk' = view'
      /\ \A o \in Objects :
            (call[t] # NoCall => o # call[t].obj) => ValueIn(view', o) = ValueIn(view, o)
      /\ Raise(t) \/ (Step(t) /\ Advances(t))
  BY <1>1 DEF Effect
<1> HIDE DEF n
<1>3. settled \in SUBSET Objects
  BY DEF Settling, Shape, TypeOK
<1>4. \A o \in settled : call[t] # NoCall => o # call[t].obj
  BY DEF Settling, SettledOK, InUse
<1>5. \A o \in settled : /\ ValueIn(view', o) = ValueIn(view, o)
                         /\ ValueIn(view', o) = ValueIn(disk', o)
  BY <1>2, <1>3, <1>4 DEF Settling, SettledOK
<1>6. Kept!Keep
  BY <1>2, <1>5, OthersKept
<1>7. Raise(t) \/ Return(t) \/ (op' = [op EXCEPT ![t].at = n] /\ UNCHANGED <<object, kept>>)
  BY <1>2 DEF Step, n
<1>8. /\ \A s \in Writers \ {t} : op'[s] = op[s] /\ call'[s] = call[s]
      /\ call'[t] = NoCall \/ call'[t] = call[t]
  BY <1>7 DEF Raise, Return, Ended, object, Settling, Shape, TypeOK
<1>9. /\ \A s \in Writers \ {t} : AloneOK(s)'
      /\ \A o \in Objects : ~InUse(o) => ~InUse(o)'
  BY <1>2, <1>8, OthersStay
<1>10. \A o \in settled : SettledOK(o)'
  BY <1>3, <1>5, <1>9 DEF Settling, SettledOK
<1>11. CASE Raise(t)
  <2>1. call'[t] = NoCall /\ settled' = settled
    BY <1>11 DEF Raise, Ended, Settling, Shape, TypeOK
  <2>2. AloneOK(t)'
    BY <2>1 DEF AloneOK
  <2>3. Settling'
    BY <1>1, <1>9, <1>10, <2>1, <2>2 DEF Settling
  <2> QED
    BY <1>6, <1>11, <2>3, RaiseStep
<1>12. CASE ~Raise(t) /\ n = "done"
  <2>1. Return(t) /\ Advances(t)
    BY <1>2, <1>12 DEF Step, n
  <2>2. call'[t] = NoCall /\ call' = [call EXCEPT ![t] = NoCall]
    BY <2>1 DEF Return, Ended, Settling, Shape, TypeOK
  <2>3. AloneOK(t)'
    BY <2>2 DEF AloneOK
  <2>4. CASE call[t] # NoCall /\ call[t].alone
    <3>1. settled' = settled \cup {call[t].obj}
      BY <2>1, <2>4 DEF Return
    <3>2. /\ \A s \in Writers \ {t} : call[s] # NoCall => call[s].obj # call[t].obj
          /\ Reached(c, op[t].at, ValueIn(view, call[t].obj), call[t].target)
      BY <2>4 DEF Settling, AloneOK
    <3>3. call[t].obj \in Objects /\ call[t].target \in Values
      BY <2>4 DEF Settling, Shape, TypeOK
    <3>4. c.kind # "record_node_traffic" /\ call[t].obj = ObjectOf(c)
      BY <1>2, <2>4, WriterFacts DEF Settling
    <3>5. Reached(c, "done", ValueIn(view', call[t].obj), call[t].target)
      BY <1>12, <2>1, <3>2, <3>3, <3>4 DEF Advances, n
    <3>6. ValueIn(view', call[t].obj) = call[t].target
      BY <3>5 DEF Reached
    <3>7. ASSUME NEW o \in Objects, o = call[t].obj
          PROVE  ~InUse(o)'
      BY <2>2, <3>2, <3>7, <1>8 DEF InUse
    <3>8. ValueIn(view', call[t].obj) = ValueIn(disk', call[t].obj)
      BY <1>2, <1>12
    <3>9. ASSUME NEW o \in settled' PROVE SettledOK(o)'
      <4>1. CASE o \in settled
        BY <4>1, <1>10
      <4>2. CASE o = call[t].obj
        BY <4>2, <3>3, <3>7, <3>8 DEF SettledOK
      <4> QED
        BY <4>1, <4>2, <3>1
    <3>10. Settling'
      BY <1>1, <1>9, <2>3, <3>9 DEF Settling
    <3>11. Kept!StoreReturn(t)
      BY <1>6, <2>2, <2>4, <3>1, <3>3, <3>6 DEF Kept!StoreReturn
    <3> QED
      BY <3>10, <3>11 DEF Kept!StoreNext
  <2>5. CASE ~(call[t] # NoCall /\ call[t].alone)
    <3>1. UNCHANGED settled
      BY <2>1, <2>5 DEF Return
    <3>2. Settling'
      BY <1>1, <1>9, <1>10, <2>3, <3>1 DEF Settling
    <3>3. CASE call[t] # NoCall
      BY <1>6, <2>2, <2>5, <3>1, <3>2, <3>3 DEF Kept!StoreReturn, Kept!StoreNext
    <3>4. CASE call[t] = NoCall
      <4>1. call' = call
        BY <2>2, <3>4 DEF Settling, Shape, TypeOK
      <4> QED
        BY <4>1, <1>6, <3>1, <3>2 DEF Kept!StoreWork, Kept!StoreNext
    <3> QED
      BY <3>3, <3>4
  <2> QED
    BY <2>4, <2>5
<1>13. CASE ~Raise(t) /\ n # "done"
  <2>1. Advances(t) /\ op' = [op EXCEPT ![t].at = n] /\ UNCHANGED object
    BY <1>2, <1>13 DEF Step, n
  <2>2. op'[t].call = c /\ op'[t].at = n /\ call' = call /\ settled' = settled
    BY <2>1 DEF Settling, Shape, TypeOK, object
  <2>3. ASSUME call[t] # NoCall, call[t].alone
        PROVE  Reached(c, n, ValueIn(view', call[t].obj), call[t].target)
    <3>1. /\ Reached(c, op[t].at, ValueIn(view, call[t].obj), call[t].target)
          /\ call[t].target \in Values
      BY <2>3 DEF Settling, AloneOK, Shape, TypeOK
    <3>2. c.kind # "record_node_traffic" /\ call[t].obj = ObjectOf(c)
      BY <1>2, <2>3, WriterFacts DEF Settling
    <3> QED
      BY <2>1, <3>1, <3>2 DEF Advances, n
  <2>4. AloneOK(t)'
    <3>1. AloneOK(t)
      BY DEF Settling
    <3> QED
      BY <3>1, <2>2, <2>3 DEF AloneOK
  <2>5. Settling'
    BY <1>1, <1>9, <1>10, <2>2, <2>4 DEF Settling
  <2> QED
    BY <2>2, <2>5, <1>6 DEF Kept!StoreWork, Kept!StoreNext
<1> QED
  BY <1>11, <1>12, <1>13

\* Where a call begins, and what it will leave.
LEMMA BeginReached ==
    ASSUME Shape, NEW c \in Calls, c.kind # "record_node_traffic",
           NEW s, s \in {"connect", First(c)}
    PROVE  Reached(c, s, ValueIn(view, ObjectOf(c)), Target(c))
<1> DEFINE v == ValueIn(view, ObjectOf(c))
<1>1. s \notin {"drop", "rows", "policies", "commit", "done"}
  BY CallFields DEF First
<1>2. c.kind \in Updates =>
         /\ ObjectOf(c) = c.uid /\ c.uid \in Ids
         /\ v = [ident |-> view.users[c.uid], tags |-> view.inbounds[c.uid],
                 outs |-> view.outbounds[c.uid]]
  BY CallFields, PolicyTableAssumption DEF Updates, ObjectOf, ValueIn
<1>3. CASE c.kind = "update_user_inbounds"
  <2>1. Target(c) = [v EXCEPT !.ident = c.ident, !.tags = c.tags]
    BY <1>2, <1>3 DEF Target, Updates
  <2> HIDE DEF v
  <2>2. Target(c) = [ident |-> c.ident, tags |-> c.tags, outs |-> v.outs]
    BY <1>2, <1>3, <2>1 DEF Updates
  <2> QED
    BY <1>1, <1>3, <2>2 DEF Reached, v
<1>4. CASE c.kind = "update_user_outbounds"
  <2>1. Target(c) = [v EXCEPT !.ident = c.ident, !.outs = c.outs]
    BY <1>2, <1>4 DEF Target, Updates
  <2> HIDE DEF v
  <2>2. Target(c) = [ident |-> c.ident, tags |-> v.tags, outs |-> c.outs]
    BY <1>2, <1>4, <2>1 DEF Updates
  <2> QED
    BY <1>1, <1>4, <2>2 DEF Reached, v
<1>5. CASE c.kind = "remove_user"
  BY <1>1, <1>5 DEF Target, Reached
<1>6. CASE c.kind = "replace_node_outbound_policies"
  BY <1>1, <1>6 DEF Target, Reached
<1> QED
  BY <1>3, <1>4, <1>5, <1>6, CallFields

\* A call begins.
LEMMA BeginStep ==
    ASSUME Settling, NEW t \in Writers, NEW c \in Calls, Begin(t, c)
    PROVE  Settling' /\ Kept!StoreNext
<1> DEFINE s == IF connected THEN First(c) ELSE "connect"
           o == ObjectOf(c)
           w == Target(c)
<1>1. /\ op[t].at = "done" /\ UNCHANGED <<view, disk>>
      /\ op' = [op EXCEPT ![t] = [call |-> c, at |-> s, cancelled |-> FALSE]]
  BY DEF Begin, tables
<1>2. /\ op'[t].call = c /\ op'[t].at = s
      /\ \A u \in Writers \ {t} : op'[u] = op[u]
      /\ call[t] = NoCall
  BY <1>1 DEF Settling, Shape, TypeOK, CallOK
<1>3. Kept!Keep
  <2>1. view' \in Tables
    BY <1>1 DEF Settling, Shape, TypeOK
  <2> QED
    BY <1>1, <2>1, OthersKept
<1>4. Shape'
  BY BeginShape DEF Settling
<1>5. s \in {"connect", First(c)}
  OBVIOUS
<1> HIDE DEF s
<1>6. CASE c.kind = "record_node_traffic"
  <2>1. UNCHANGED object
    BY <1>6 DEF Begin
  <2>2. \A u \in Writers : AloneOK(u)'
    BY <2>1, <1>1, <1>2 DEF Settling, AloneOK, object
  <2>3. \A x \in settled : SettledOK(x)'
    BY <2>1, <1>1 DEF Settling, SettledOK, InUse, object
  <2> QED
    BY <1>3, <1>4, <2>1, <2>2, <2>3 DEF Settling, object, Kept!StoreNext, Kept!StoreWork
<1>7. CASE c.kind # "record_node_traffic"
  <2>1. BeginOn(t, o, w)
    BY <1>7 DEF Begin
  <2>2. o \in Objects /\ w \in Values
    BY <1>7, TargetTypes DEF Settling, Shape, TypeOK
  <2>3. Reached(c, s, ValueIn(view, o), w)
    BY <1>5, <1>7, BeginReached DEF Settling
  <2> HIDE DEF o, w
  <2>4. Kept!StoreBegin(t, o, w)
    BY <2>1, <1>2, <1>3 DEF BeginOn, Kept!StoreBegin, Kept!InUse, InUse
  <2> DEFINE mine == [obj |-> o, target |-> w, alone |-> ~InUse(o)]
  <2>5. /\ call'[t] = mine
        /\ \A u \in Writers \ {t} :
              call'[u] = IF call[u] # NoCall /\ call[u].obj = o
                         THEN [call[u] EXCEPT !.alone = FALSE] ELSE call[u]
    BY <2>1 DEF BeginOn
  <2>6. mine.obj = o /\ mine.target = w /\ (mine.alone <=> ~InUse(o))
    OBVIOUS
  <2> HIDE DEF mine
  <2>7. ASSUME NEW u \in Writers \ {t}
        PROVE  /\ call[u] = NoCall => call'[u] = NoCall
               /\ call[u] # NoCall => call'[u].obj = call[u].obj
               /\ call[u] # NoCall /\ call[u].obj = o => ~call'[u].alone
               /\ call[u] # NoCall /\ call[u].obj # o => call'[u] = call[u]
    <3>1. CASE call[u] = NoCall
      BY <2>5, <3>1
    <3>2. CASE call[u] # NoCall /\ call[u].obj # o
      BY <2>5, <3>2
    <3>3. CASE call[u] # NoCall /\ call[u].obj = o
      <4>1. call[u] \in [obj : Objects, target : Values, alone : BOOLEAN]
        BY <3>3 DEF Settling, Shape, TypeOK
      <4>2. call'[u] = [call[u] EXCEPT !.alone = FALSE]
        BY <2>5, <3>3
      <4> QED
        BY <4>1, <4>2, <3>3
    <3> QED
      BY <3>1, <3>2, <3>3
  <2>8. AloneOK(t)'
    <3>1. ASSUME call'[t].alone
          PROVE  \A u \in Writers \ {t} : call'[u] # NoCall => call'[u].obj # o
      <4>1. ~InUse(o)
        BY <3>1, <2>5, <2>6
      <4> QED
        BY <4>1, <2>7 DEF InUse
    <3>2. Reached(op'[t].call, op'[t].at, ValueIn(view', o), w)
      BY <1>1, <1>2, <2>3
    <3> QED
      BY <3>1, <3>2, <2>5, <2>6 DEF AloneOK
  <2>9. ASSUME NEW u \in Writers \ {t} PROVE AloneOK(u)'
    <3>1. SUFFICES ASSUME call'[u] # NoCall, call'[u].alone
                   PROVE  /\ \A x \in Writers \ {u} :
                                call'[x] # NoCall => call'[x].obj # call'[u].obj
                          /\ Reached(op'[u].call, op'[u].at, ValueIn(view', call'[u].obj),
                                     call'[u].target)
      BY DEF AloneOK
    <3>2. call'[u] = call[u] /\ call[u] # NoCall /\ call[u].obj # o
      BY <3>1, <2>7
    <3>3. /\ \A x \in Writers \ {u} : call[x] # NoCall => call[x].obj # call[u].obj
          /\ Reached(op[u].call, op[u].at, ValueIn(view, call[u].obj), call[u].target)
      BY <3>1, <3>2 DEF Settling, AloneOK
    <3>4. ASSUME NEW x \in Writers \ {u}, call'[x] # NoCall PROVE call'[x].obj # call'[u].obj
      <4>1. CASE x = t
        BY <4>1, <2>5, <2>6, <3>2
      <4>2. CASE x # t
        BY <4>2, <3>2, <3>3, <3>4, <2>7
      <4> QED
        BY <4>1, <4>2
    <3> QED
      BY <3>2, <3>3, <3>4, <1>1, <1>2
  <2>10. ASSUME NEW x \in settled' PROVE SettledOK(x)'
    <3>1. x \in settled /\ x # o
      BY <2>1 DEF BeginOn
    <3>2. ~InUse(x) /\ ValueIn(view, x) = ValueIn(disk, x)
      BY <3>1 DEF Settling, SettledOK
    <3>3. ASSUME NEW u \in Writers, call'[u] # NoCall PROVE call'[u].obj # x
      <4>1. CASE u = t
        BY <4>1, <2>5, <2>6, <3>1
      <4>2. CASE u # t
        BY <4>2, <2>7, <3>2, <3>3 DEF InUse
      <4> QED
        BY <4>1, <4>2
    <3> QED
      BY <3>2, <3>3, <1>1 DEF SettledOK, InUse
  <2>11. Settling'
    BY <1>4, <2>8, <2>9, <2>10 DEF Settling
  <2> QED
    BY <2>2, <2>4, <2>11 DEF Kept!StoreNext
<1> QED
  BY <1>6, <1>7

\* The steps that write no table: a read, an error, a cancellation.
LEMMA ReadingStep ==
    ASSUME Settling, NEW r \in Readers, Reading(r)
    PROVE  Settling' /\ Kept!StoreNext
<1>1. Shape' /\ UNCHANGED <<view, disk, op, call, settled>>
  BY ReadingShape DEF Settling, object
<1>2. Kept!Keep
  <2>1. view' \in Tables
    BY <1>1 DEF Shape, TypeOK
  <2> QED
    BY <1>1, <2>1, OthersKept
<1>3. Settling'
  BY <1>1 DEF Settling, AloneOK, SettledOK, InUse
<1> QED
  BY <1>1, <1>2, <1>3 DEF Kept!StoreNext, Kept!StoreWork

LEMMA FaultStep ==
    ASSUME Settling, NEW t \in Writers, Fail(t) \/ Cancel(t)
    PROVE  Settling' /\ Kept!StoreNext
<1>1. Shape' /\ UNCHANGED <<view, disk>>
  BY FaultShape DEF Settling, tables
<1>2. Kept!Keep
  <2>1. view' \in Tables
    BY <1>1 DEF Shape, TypeOK
  <2> QED
    BY <1>1, <2>1, OthersKept
<1>3. settled \in SUBSET Objects
  BY DEF Settling, Shape, TypeOK
<1>4. CASE Raise(t)
  <2>1. /\ call'[t] = NoCall /\ settled' = settled
        /\ \A s \in Writers \ {t} : op'[s] = op[s] /\ call'[s] = call[s]
    BY <1>4 DEF Raise, Ended, Settling, Shape, TypeOK
  <2>2. /\ \A s \in Writers \ {t} : AloneOK(s)'
        /\ \A o \in Objects : ~InUse(o) => ~InUse(o)'
    BY <2>1, <1>1, OthersStay
  <2>3. AloneOK(t)'
    BY <2>1 DEF AloneOK
  <2>4. \A o \in settled : SettledOK(o)'
    BY <2>2, <1>1, <1>3 DEF Settling, SettledOK
  <2>5. Settling'
    BY <1>1, <2>1, <2>2, <2>3, <2>4 DEF Settling
  <2> QED
    BY <1>2, <1>4, <2>5, RaiseStep
<1>5. CASE op' = [op EXCEPT ![t].cancelled = TRUE] /\ UNCHANGED <<object, kept>>
  <2>1. /\ call' = call /\ settled' = settled
        /\ \A s \in Writers : op'[s].call = op[s].call /\ op'[s].at = op[s].at
    BY <1>5 DEF object, Settling, Shape, TypeOK
  <2>2. Settling'
    BY <1>1, <2>1 DEF Settling, AloneOK, SettledOK, InUse
  <2> QED
    BY <1>2, <2>1, <2>2 DEF Kept!StoreNext, Kept!StoreWork
<1> QED
  BY <1>4, <1>5 DEF Fail, Cancel

\* The node ends: the open transaction is gone.
LEMMA CrashStep ==
    ASSUME Settling, Crash
    PROVE  Settling' /\ Kept!StoreNext
<1>1. /\ Shape' /\ view' = disk /\ disk' = disk
      /\ call' = [s \in Writers |-> NoCall] /\ settled' = Objects
  BY CrashShape DEF Crash, Settling
<1>2. Kept!Keep
  <2>1. view' \in Tables /\ \A o \in settled : ValueIn(view', o) = ValueIn(view, o)
    BY <1>1 DEF Settling, SettledOK, Shape, TypeOK
  <2> QED
    BY <2>1, OthersKept
<1>3. Settling'
  BY <1>1 DEF Settling, AloneOK, SettledOK, InUse
<1> QED
  BY <1>1, <1>2, <1>3 DEF Kept!StoreNext, Kept!StoreCrash

\* SqliteStorage is what its callers take it for: a call that returned and
\* ran alone on its object is on the disk and stays, whatever other tasks
\* write, commit and fail to write on the same connection, and through a
\* crash (sqlite.py:3-4).
THEOREM StorageImplementsStore == Spec => ImplementsStore
<1>1. Init => Settling /\ Kept!StoreInit
  <2>1. SUFFICES ASSUME Init PROVE Settling /\ Kept!StoreInit
    OBVIOUS
  <2>2. Shape /\ view = disk /\ settled = Objects /\ call = [s \in Writers |-> NoCall]
    BY <2>1, InitShape DEF Init
  <2>3. Settling
    BY <2>2 DEF Settling, AloneOK, SettledOK, InUse
  <2>4. \A o \in Objects : ValueIn(view, o) \in Values
    BY <2>2, ValueTypes DEF Shape, TypeOK
  <2> QED
    BY <2>2, <2>3, <2>4 DEF Kept!StoreInit
<1>2. Settling /\ [Next]_vars => Settling' /\ [Kept!StoreNext]_(Kept!storeVars)
  <2>1. SUFFICES ASSUME Settling, [Next]_vars
                 PROVE  Settling' /\ [Kept!StoreNext]_(Kept!storeVars)
    OBVIOUS
  <2>2. CASE UNCHANGED vars
    <3>1. UNCHANGED <<view, disk, op, call, settled>> /\ Shape'
      BY <2>1, <2>2, ShapeNext DEF vars, tables, object, Settling
    <3>2. Settling'
      BY <2>1, <3>1 DEF Settling, AloneOK, SettledOK, InUse
    <3> QED
      BY <3>1, <3>2 DEF Kept!storeVars
  <2>3. CASE Next
    <3>1. ASSUME NEW t \in Writers, NEW c \in Calls, Begin(t, c)
          PROVE  Settling' /\ Kept!StoreNext
      BY <2>1, <3>1, BeginStep
    <3>2. ASSUME NEW t \in Writers, Statement(t) PROVE Settling' /\ Kept!StoreNext
      BY <2>1, <3>2, StatementStep
    <3>3. ASSUME NEW r \in Readers, Reading(r) PROVE Settling' /\ Kept!StoreNext
      BY <2>1, <3>3, ReadingStep
    <3>4. ASSUME NEW t \in Writers, Fail(t) \/ Cancel(t) PROVE Settling' /\ Kept!StoreNext
      BY <2>1, <3>4, FaultStep
    <3> QED
      BY <2>1, <2>3, <3>1, <3>2, <3>3, <3>4, CrashStep DEF Next
  <2> QED
    BY <2>1, <2>2, <2>3
<1> QED
  BY <1>1, <1>2, PTL DEF Spec, ImplementsStore, Kept!StoreSpec


(***************************************************************************)
(* The buckets of node_traffic.                                            *)
(***************************************************************************)
\* A statement adds a sample to its bucket or leaves the buckets alone.
LEMMA TrafficEffect ==
    ASSUME Shape, NEW t \in Writers, Statement(t), NEW h \in Hours
    PROVE  view'.traffic[h] = IF op[t].at = "bucket" /\ op[t].call.hour = h
                              THEN view.traffic[h] + 1 ELSE view.traffic[h]
<1> DEFINE c == op[t].call
<1>1. view \in Tables
  BY DEF Shape, TypeOK
<1>2. CASE AddToBucket(t)
  <2>1. /\ op[t].at = "bucket"
        /\ view' = [view EXCEPT !.traffic = [view.traffic EXCEPT ![c.hour] = view.traffic[c.hour] + 1]]
    BY <1>2 DEF AddToBucket, At, Writes
  <2>2. view'.traffic = [view.traffic EXCEPT ![c.hour] = view.traffic[c.hour] + 1]
    BY <1>1, <2>1 DEF Tables
  <2>3. c.hour \in Hours /\ view.traffic \in [Hours -> Nat]
    BY <1>1, <2>1, WriterFacts, CallFields DEF Tables
  <2> QED
    BY <2>1, <2>2, <2>3
<1>3. CASE Connect(t) \/ Commit(t)
  BY <1>3 DEF Connect, Commit, At
<1>4. CASE UpsertUser(t)
  <2>1. view' = [view EXCEPT !.users = [view.users EXCEPT ![c.uid] = c.ident]]
    BY <1>4 DEF UpsertUser, Writes
  <2> QED
    BY <1>1, <1>4, <2>1 DEF Tables, UpsertUser, At
<1>5. CASE DropRows(t)
  <2>1. \/ view' = [view EXCEPT !.inbounds = [view.inbounds EXCEPT ![c.uid] = {}]]
        \/ view' = [view EXCEPT !.outbounds = [view.outbounds EXCEPT ![c.uid] = NoOuts]]
    BY <1>5 DEF DropRows, Writes
  <2> QED
    BY <1>1, <1>5, <2>1 DEF Tables, DropRows, At
<1>6. CASE InsertRows(t)
  <2>1. \/ view' = view
        \/ \E some : view' = [view EXCEPT !.inbounds =
                                  [view.inbounds EXCEPT ![c.uid] = view.inbounds[c.uid] \cup some]]
        \/ view' = [view EXCEPT !.outbounds = [view.outbounds EXCEPT ![c.uid] = c.outs]]
    BY <1>6 DEF InsertRows, InsertInbounds, InsertOutbounds, Writes
  <2>2. view'.traffic = view.traffic
    BY <1>1, <2>1 DEF Tables
  <2> QED
    BY <1>6, <2>2 DEF InsertRows, At
<1>7. CASE DeleteUser(t)
  <2>1. view'.traffic = view.traffic
    BY <1>1, <1>7 DEF DeleteUser, Writes, WithoutUser, Tables
  <2> QED
    BY <1>7, <2>1 DEF DeleteUser, At
<1>8. CASE ClearPolicies(t)
  BY <1>1, <1>8 DEF ClearPolicies, Writes, Tables, At
<1>9. CASE InsertPolicies(t)
  <2>1. \E some : view' = [view EXCEPT !.policies = view.policies \cup some]
    BY <1>9 DEF InsertPolicies, Writes
  <2> QED
    BY <1>1, <1>9, <2>1 DEF Tables, InsertPolicies, At
<1> QED
  BY <1>2, <1>3, <1>4, <1>5, <1>6, <1>7, <1>8, <1>9 DEF Statement

\* Steps of the other kinds.
LEMMA OthersView ==
    ASSUME Shape, [Next]_vars, ~\E t \in Writers : Statement(t), ~Crash
    PROVE  UNCHANGED <<view, disk>>
<1>1. ASSUME NEW t \in Writers, NEW c \in Calls, Begin(t, c) PROVE UNCHANGED <<view, disk>>
  BY <1>1 DEF Begin, tables
<1>2. ASSUME NEW r \in Readers, Reading(r) PROVE UNCHANGED <<view, disk>>
  BY <1>2, ReadingShape
<1>3. ASSUME NEW t \in Writers, Fail(t) \/ Cancel(t) PROVE UNCHANGED <<view, disk>>
  BY <1>3, FaultShape DEF tables
<1>4. CASE UNCHANGED vars
  BY <1>4 DEF vars, tables
<1> QED
  BY <1>1, <1>2, <1>3, <1>4 DEF Next

\* The calls that are to add a sample to bucket h, and those that have and are to commit.
Records(t, h) ==
    op[t].at # "done" /\ op[t].call.kind = "record_node_traffic" /\ op[t].call.hour = h

Coming(h) == {t \in Writers : Records(t, h) /\ op[t].at \in {"connect", "bucket"}}

Added(h) == {t \in Writers : Records(t, h) /\ op[t].at = "commit"}

CountOK(h) ==
    /\ kept[h] <= disk.traffic[h] /\ disk.traffic[h] <= asked[h]
    /\ kept[h] + Cardinality(Added(h)) <= view.traffic[h]
    /\ view.traffic[h] + Cardinality(Coming(h)) <= asked[h]

LEMMA CountTypes ==
    ASSUME Shape, NEW h \in Hours
    PROVE  /\ kept[h] \in Nat /\ asked[h] \in Nat
           /\ view.traffic[h] \in Nat /\ disk.traffic[h] \in Nat
           /\ IsFiniteSet(Added(h)) /\ Cardinality(Added(h)) \in Nat
           /\ IsFiniteSet(Coming(h)) /\ Cardinality(Coming(h)) \in Nat
<1>1. Added(h) \in SUBSET Writers /\ Coming(h) \in SUBSET Writers
  BY DEF Added, Coming
<1>2. IsFiniteSet(Added(h)) /\ IsFiniteSet(Coming(h))
  BY <1>1, FiniteAssumption, FS_Subset
<1> QED
  BY <1>2, FS_CardinalityType DEF Shape, TypeOK, Tables

\* A writer that leaves a finite set, or joins it.
LEMMA OneLess ==
    ASSUME NEW S, IsFiniteSet(S), NEW t, NEW T, T = S \ {t}
    PROVE  /\ Cardinality(T) <= Cardinality(S)
           /\ t \in S => Cardinality(T) = Cardinality(S) - 1
<1>1. Cardinality(S) \in Nat
  BY FS_CardinalityType
<1>2. CASE t \in S
  <2>1. Cardinality(T) = Cardinality(S) - 1
    BY <1>2, FS_RemoveElement
  <2> QED
    BY <1>1, <2>1
<1>3. CASE t \notin S
  <2>1. T = S
    BY <1>3
  <2>2. Cardinality(T) = Cardinality(S)
    BY <2>1
  <2> QED
    BY <1>1, <1>3, <2>2
<1> QED
  BY <1>2, <1>3

LEMMA OneMore ==
    ASSUME NEW S, IsFiniteSet(S), NEW t, NEW T, T \subseteq S \cup {t}
    PROVE  Cardinality(T) <= Cardinality(S) + 1
<1>1. /\ IsFiniteSet(S \cup {t}) /\ Cardinality(S \cup {t}) \in Nat
      /\ Cardinality(S \cup {t}) <= Cardinality(S) + 1
  BY FS_AddElement, FS_CardinalityType
<1>2. Cardinality(T) <= Cardinality(S \cup {t}) /\ Cardinality(T) \in Nat
  BY <1>1, FS_Subset, FS_CardinalityType
<1> QED
  BY <1>1, <1>2, FS_CardinalityType

\* Fewer calls on their way, and the tables as they were or committed.
LEMMA CountLess ==
    ASSUME Shape, NEW h \in Hours, CountOK(h),
           Added(h)' \subseteq Added(h), Coming(h)' \subseteq Coming(h),
           view'.traffic[h] = view.traffic[h], disk' \in {disk, view'},
           kept'[h] = kept[h], asked'[h] = asked[h]
    PROVE  CountOK(h)'
<1> DEFINE added == Cardinality(Added(h))
           coming == Cardinality(Coming(h))
           addedNext == Cardinality(Added(h)')
           comingNext == Cardinality(Coming(h)')
<1>1. /\ addedNext \in Nat /\ addedNext <= added
      /\ comingNext \in Nat /\ comingNext <= coming
  BY CountTypes, FS_Subset, FS_CardinalityType
<1>2. /\ kept[h] \in Nat /\ asked[h] \in Nat /\ view.traffic[h] \in Nat /\ disk.traffic[h] \in Nat
      /\ added \in Nat /\ coming \in Nat
  BY CountTypes
<1>3. /\ kept[h] <= disk.traffic[h] /\ disk.traffic[h] <= asked[h]
      /\ kept[h] + added <= view.traffic[h] /\ view.traffic[h] + coming <= asked[h]
  BY DEF CountOK
<1>4. disk'.traffic[h] \in {disk.traffic[h], view.traffic[h]}
  OBVIOUS
<1> HIDE DEF added, coming, addedNext, comingNext
<1>5. /\ kept'[h] <= disk'.traffic[h] /\ disk'.traffic[h] <= asked'[h]
      /\ kept'[h] + addedNext <= view'.traffic[h] /\ view'.traffic[h] + comingNext <= asked'[h]
  BY <1>1, <1>2, <1>3, <1>4
<1> QED
  BY <1>5 DEF CountOK, addedNext, comingNext

\* The calls on their way differ at most by the one that moves.
LEMMA OneMoves ==
    ASSUME NEW t \in Writers, NEW h \in Hours, \A s \in Writers \ {t} : op'[s] = op[s]
    PROVE  /\ Added(h)' = IF Records(t, h)' /\ op'[t].at = "commit"
                          THEN Added(h) \cup {t} ELSE Added(h) \ {t}
           /\ Coming(h)' = IF Records(t, h)' /\ op'[t].at \in {"connect", "bucket"}
                           THEN Coming(h) \cup {t} ELSE Coming(h) \ {t}
<1>1. \A s \in Writers \ {t} : Records(s, h)' <=> Records(s, h)
  BY DEF Records
<1> QED
  BY <1>1 DEF Added, Coming

LEMMA CountBegin ==
    ASSUME Shape, NEW h \in Hours, CountOK(h), NEW t \in Writers, NEW c \in Calls, Begin(t, c)
    PROVE  CountOK(h)'
<1> DEFINE s == IF connected THEN First(c) ELSE "connect"
<1>1. /\ op[t].at = "done"
      /\ op' = [op EXCEPT ![t] = [call |-> c, at |-> s, cancelled |-> FALSE]]
      /\ UNCHANGED <<view, disk, kept>>
  BY DEF Begin, tables
<1>2. /\ op'[t].call = c /\ op'[t].at = s /\ \A x \in Writers \ {t} : op'[x] = op[x]
  BY <1>1 DEF Shape, TypeOK
<1>3. s \in {"connect", "user", "delete", "clear", "bucket"}
  BY CallFields DEF First
<1> HIDE DEF s
<1>4. t \notin Added(h) /\ t \notin Coming(h)
  BY <1>1 DEF Added, Coming, Records
<1>5. Added(h)' \subseteq Added(h)
  BY <1>2, <1>3, OneMoves
<1>6. CASE c.kind = "record_node_traffic" /\ c.hour = h
  <2>1. asked'[h] = asked[h] + 1
    BY <1>6 DEF Begin, Shape, TypeOK
  <2>2. Coming(h)' \subseteq Coming(h) \cup {t}
    BY <1>2, OneMoves
  <2>3. /\ Cardinality(Coming(h)') \in Nat
        /\ Cardinality(Coming(h)') <= Cardinality(Coming(h)) + 1
    <3>1. IsFiniteSet(Coming(h)')
      BY <2>2, CountTypes, FS_AddElement, FS_Subset
    <3> QED
      BY <3>1, <2>2, CountTypes, OneMore, FS_CardinalityType
  <2>4. /\ Cardinality(Added(h)') \in Nat /\ Cardinality(Added(h)') <= Cardinality(Added(h))
    BY <1>5, CountTypes, FS_Subset, FS_CardinalityType
  <2>5. kept' = kept /\ view' = view /\ disk' = disk
    BY <1>1
  <2> QED
    BY <2>1, <2>3, <2>4, <2>5, CountTypes DEF CountOK
<1>7. CASE ~(c.kind = "record_node_traffic" /\ c.hour = h)
  <2>1. asked'[h] = asked[h]
    BY <1>7, CallFields DEF Begin, Shape, TypeOK
  <2>2. ~Records(t, h)'
    BY <1>2, <1>7 DEF Records
  <2>3. Coming(h)' \subseteq Coming(h)
    BY <1>2, <2>2, OneMoves
  <2> QED
    BY <1>1, <1>5, <2>1, <2>3, CountLess
<1> QED
  BY <1>6, <1>7

LEMMA CountFault ==
    ASSUME Shape, NEW h \in Hours, CountOK(h), NEW t \in Writers, Fail(t) \/ Cancel(t)
    PROVE  CountOK(h)'
<1>1. UNCHANGED <<view, disk, asked, kept>>
  BY DEF Fail, Cancel, Raise, tables
<1>2. /\ op'[t] = NoOp \/ (op'[t].call = op[t].call /\ op'[t].at = op[t].at)
      /\ \A x \in Writers \ {t} : op'[x] = op[x]
      /\ op[t].at # "done"
  BY DEF Fail, Cancel, Raise, Ended, Shape, TypeOK
<1>3. Records(t, h)' => Records(t, h) /\ op'[t].at = op[t].at
  BY <1>2 DEF Records, NoOp
<1>4. Added(h)' \subseteq Added(h) /\ Coming(h)' \subseteq Coming(h)
  <2>1. /\ Records(t, h)' /\ op'[t].at = "commit" => t \in Added(h)
        /\ Records(t, h)' /\ op'[t].at \in {"connect", "bucket"} => t \in Coming(h)
    BY <1>3 DEF Added, Coming
  <2> QED
    BY <1>2, <2>1, OneMoves
<1> QED
  BY <1>1, <1>4, CountLess

LEMMA CountCrash ==
    ASSUME Shape, NEW h \in Hours, CountOK(h), Crash
    PROVE  CountOK(h)'
<1>1. Added(h)' = {} /\ Coming(h)' = {}
  BY DEF Crash, Added, Coming, Records, NoOp
<1>2. UNCHANGED <<disk, asked, kept>> /\ view' = disk
  BY DEF Crash
<1> QED
  BY <1>1, <1>2, CountTypes, FS_EmptySet DEF CountOK

LEMMA CountStatement ==
    ASSUME Shape, NEW h \in Hours, CountOK(h), NEW t \in Writers, Statement(t)
    PROVE  CountOK(h)'
<1> DEFINE c == op[t].call
           n == After(c, op[t].at)
<1>1. Effect(t)
  BY StatementEffect
<1>2. /\ op[t].at # "done" /\ disk' \in {disk, view'} /\ asked' = asked
      /\ n = "done" => disk' = view'
      /\ Raise(t) \/ Step(t)
  BY <1>1 DEF Effect
<1>3. /\ view'.traffic[h] = IF op[t].at = "bucket" /\ c.hour = h
                            THEN view.traffic[h] + 1 ELSE view.traffic[h]
  BY TrafficEffect
<1>4. /\ c \in Calls /\ op[t].at \in Statements
      /\ op[t].at \in {"user", "drop", "rows"} => c.kind \in Updates
      /\ op[t].at = "delete" => c.kind = "remove_user"
      /\ op[t].at \in {"clear", "policies"} => c.kind = "replace_node_outbound_policies"
      /\ op[t].at = "bucket" => c.kind = "record_node_traffic"
  BY <1>2, WriterFacts
<1>5. /\ op[t].at = "bucket" => n = "commit"
      /\ op[t].at = "commit" => n = "done"
      /\ n = "commit" /\ c.kind = "record_node_traffic" => op[t].at = "bucket"
      /\ n = "done" => op[t].at = "commit"
      /\ n \in {"connect", "bucket"} => op[t].at = "connect"
  <2>1. First(c) \in {"user", "delete", "clear", "bucket"}
    BY <1>4, CallFields DEF First
  <2> QED
    BY <1>4, <2>1 DEF After, Statements, Updates
<1> HIDE DEF n
<1>6. Raise(t) \/ Return(t) \/ (op' = [op EXCEPT ![t].at = n] /\ UNCHANGED <<object, kept>>)
  BY <1>2 DEF Step, n
<1>7. \A x \in Writers \ {t} : op'[x] = op[x]
  BY <1>6 DEF Raise, Return, Ended, Shape, TypeOK
<1>8. Return(t) => n = "done" \/ Raise(t)
  <2> SUFFICES ASSUME Return(t), n # "done", ~Raise(t) PROVE FALSE
    OBVIOUS
  <2>1. op' = [op EXCEPT ![t].at = n]
    <3>1. op[t].cancelled \in BOOLEAN
      BY DEF Shape, TypeOK
    <3> QED
      BY <1>2, <3>1 DEF Step, n
  <2>2. op' = [op EXCEPT ![t] = NoOp]
    BY DEF Return, Ended
  <2>3. op'[t].at = n /\ op'[t] = NoOp
    BY <2>1, <2>2 DEF Shape, TypeOK
  <2> QED
    BY <2>3 DEF NoOp
<1>9. op'[t] = NoOp \/ (op'[t].call = c /\ op'[t].at = n /\ kept' = kept)
  BY <1>6 DEF Raise, Return, Ended, Shape, TypeOK
<1>10. CASE op[t].at = "bucket" /\ c.hour = h
  <2>1. t \in Coming(h) /\ t \notin Added(h)
    BY <1>4, <1>10 DEF Coming, Added, Records
  <2>2. Coming(h)' = Coming(h) \ {t}
    BY <1>5, <1>7, <1>9, <1>10, OneMoves DEF NoOp, Records
  <2>3. Added(h)' \subseteq Added(h) \cup {t}
    BY <1>7, OneMoves
  <2>4. kept' = kept /\ disk' = disk
    <3>1. n = "commit"
      BY <1>5, <1>10
    <3>2. kept' = kept
      BY <1>6, <1>8, <3>1 DEF Raise
    <3>3. disk' = disk
      BY <1>10 DEF Statement, Connect, UpsertUser, DropRows, InsertRows, DeleteUser, ClearPolicies,
                   InsertPolicies, AddToBucket, Commit, At, Writes
    <3> QED
      BY <3>2, <3>3
  <2>5. /\ Cardinality(Coming(h)') = Cardinality(Coming(h)) - 1
        /\ Cardinality(Added(h)') <= Cardinality(Added(h)) + 1
        /\ Cardinality(Added(h)') \in Nat
    <3>1. IsFiniteSet(Added(h)')
      BY <2>3, CountTypes, FS_AddElement, FS_Subset
    <3> QED
      BY <3>1, <2>1, <2>2, <2>3, CountTypes, OneLess, OneMore, FS_CardinalityType
  <2>6. view'.traffic[h] = view.traffic[h] + 1 /\ asked' = asked
    BY <1>2, <1>3, <1>10
  <2> QED
    BY <2>4, <2>5, <2>6, CountTypes DEF CountOK
<1>11. CASE op[t].at = "commit" /\ Records(t, h)
  <2>1. t \in Added(h) /\ t \notin Coming(h)
    BY <1>11 DEF Coming, Added
  <2>2. op'[t] = NoOp
    <3>1. n = "done"
      BY <1>5, <1>11
    <3> QED
      BY <1>2, <3>1 DEF Step, Raise, Return, Ended, Shape, TypeOK, n
  <2>3. Added(h)' = Added(h) \ {t} /\ Coming(h)' \subseteq Coming(h)
    BY <1>7, <2>2, OneMoves DEF NoOp, Records
  <2>4. kept'[h] \in Nat /\ kept'[h] <= kept[h] + 1
    <3>1. kept \in [Hours -> Nat] /\ c.kind = "record_node_traffic" /\ c.hour = h
      BY <1>11 DEF Shape, TypeOK, Records
    <3>2. kept' = kept \/ kept' = [kept EXCEPT ![h] = kept[h] + 1]
      BY <1>6, <3>1 DEF Raise, Return
    <3> QED
      BY <3>1, <3>2
  <2>5. /\ Cardinality(Added(h)') = Cardinality(Added(h)) - 1
        /\ Cardinality(Coming(h)') <= Cardinality(Coming(h))
        /\ Cardinality(Coming(h)') \in Nat
    BY <2>1, <2>3, CountTypes, OneLess, FS_Subset, FS_CardinalityType
  <2>6. view'.traffic[h] = view.traffic[h] /\ disk'.traffic[h] = view.traffic[h] /\ asked' = asked
    <3>1. disk' = view'
      BY <1>2, <1>5, <1>11
    <3> QED
      BY <1>2, <1>3, <1>11, <3>1
  <2>7. Cardinality(Added(h)') \in Nat
    BY <2>3, CountTypes, FS_Subset, FS_CardinalityType
  <2> QED
    BY <2>4, <2>5, <2>6, <2>7, CountTypes DEF CountOK
<1>12. CASE /\ ~(op[t].at = "bucket" /\ c.hour = h)
            /\ ~(op[t].at = "commit" /\ Records(t, h))
  <2>1. Added(h)' \subseteq Added(h) /\ Coming(h)' \subseteq Coming(h)
    <3>1. Records(t, h)' => Records(t, h) /\ op'[t].at = n
      BY <1>2, <1>9 DEF Records, NoOp
    <3>2. /\ Records(t, h)' /\ op'[t].at = "commit" => FALSE
          /\ Records(t, h)' /\ op'[t].at \in {"connect", "bucket"} => t \in Coming(h)
      BY <1>5, <1>12, <3>1 DEF Records, Coming
    <3> QED
      BY <1>7, <3>2, OneMoves
  <2>2. kept'[h] = kept[h]
    <3>1. CASE kept' = kept
      BY <3>1
    <3>2. CASE kept' # kept
      <4>1. Return(t) /\ c.kind = "record_node_traffic" /\ kept' = [kept EXCEPT ![c.hour] = @ + 1]
        BY <1>6, <3>2 DEF Raise, Return
      <4>2. n = "done"
        BY <1>8, <4>1, <3>2 DEF Raise
      <4>3. c.hour # h
        BY <1>2, <1>5, <1>12, <4>1, <4>2 DEF Records
      <4> QED
        BY <4>1, <4>3 DEF Shape, TypeOK
    <3> QED
      BY <3>1, <3>2
  <2>3. view'.traffic[h] = view.traffic[h] /\ asked' = asked
    BY <1>2, <1>3, <1>12
  <2> QED
    BY <1>2, <2>1, <2>2, <2>3, CountLess
<1> QED
  BY <1>10, <1>11, <1>12

\* A sample is counted once: those that record_node_traffic returned from are in the
\* last commit, which has no more than were handed to it, through crashes, failed
\* commits and cancelled calls (sqlite.py:396-410).
THEOREM SamplesCountOnce == Spec => []TrafficKept
<1> DEFINE Inv == Shape /\ \A h \in Hours : CountOK(h)
<1>1. Init => Inv
  <2> SUFFICES ASSUME Init PROVE Inv
    OBVIOUS
  <2>1. Shape
    BY InitShape
  <2>2. ASSUME NEW h \in Hours PROVE CountOK(h)
    <3>1. Added(h) = {} /\ Coming(h) = {}
      BY DEF Init, Added, Coming, Records, NoOp
    <3>2. kept[h] = 0 /\ asked[h] = 0 /\ view.traffic[h] = 0 /\ disk.traffic[h] = 0
      BY DEF Init, Empty
    <3> QED
      BY <3>1, <3>2, FS_EmptySet DEF CountOK
  <2> QED
    BY <2>1, <2>2
<1>2. ASSUME Inv, [Next]_vars PROVE Inv'
  <2>1. Shape'
    BY <1>2, ShapeNext
  <2>2. ASSUME NEW h \in Hours PROVE CountOK(h)'
    <3>1. CASE UNCHANGED <<op, view, disk, asked, kept>>
      BY <1>2, <3>1 DEF CountOK, Added, Coming, Records
    <3>2. ASSUME NEW r \in Readers, Reading(r) PROVE UNCHANGED <<op, view, disk, asked, kept>>
      BY <1>2, <3>2, ReadingShape DEF counters
    <3>3. UNCHANGED vars => UNCHANGED <<op, view, disk, asked, kept>>
      BY DEF vars, tables, counters
    <3>4. ASSUME NEW t \in Writers, Statement(t) PROVE CountOK(h)'
      BY <1>2, <3>4, CountStatement
    <3>5. ASSUME NEW t \in Writers, NEW c \in Calls, Begin(t, c) PROVE CountOK(h)'
      BY <1>2, <3>5, CountBegin
    <3>6. ASSUME NEW t \in Writers, Fail(t) \/ Cancel(t) PROVE CountOK(h)'
      BY <1>2, <3>6, CountFault
    <3>7. CASE Crash
      BY <1>2, <3>7, CountCrash
    <3> QED
      BY <1>2, <3>1, <3>2, <3>3, <3>4, <3>5, <3>6, <3>7 DEF Next
  <2> QED
    BY <2>1, <2>2
<1>3. Inv => TrafficKept
  BY DEF TrafficKept, CountOK
<1> QED
  BY <1>1, <1>2, <1>3, PTL DEF Spec

(***************************************************************************)
(* The operations that read.                                               *)
(***************************************************************************)
Reads == [kind : {"none", "users", "totals"}, step : {"done", "tags", "outs", "month", "total"},
          found : [Ids -> Idents \cup {NoRow}], tags : [Ids -> SUBSET Tags],
          outs : [Ids -> Outs], todo : SUBSET Ids, sums : [1..3 -> Nat], fixed : SUBSET Ids]

\* What list_users() has found so far of the users nobody works on.
ListOK(r) ==
    LET R == read[r] IN
    R.kind = "users" =>
        /\ R.step \in {"tags", "outs"}
        /\ R.fixed \subseteq settled
        /\ \A u \in R.fixed :
              /\ R.found[u] = view.users[u]
              /\ view.users[u] # NoRow =>
                    /\ R.step = "tags" => u \in R.todo
                    /\ R.step = "outs" => R.tags[u] = view.inbounds[u]
                    /\ u \notin R.todo => R.outs[u] = view.outbounds[u]

\* What get_node_traffic_totals() has summed up is no more than what is to come.
SumsOK(r) ==
    LET R == read[r] IN
    R.kind = "totals" =>
        /\ R.step \in {"month", "total", "done"}
        /\ R.step = "month" => R.sums[1] <= SumOf(view, Month)
        /\ R.step # "month" => R.sums[1] <= R.sums[2]
        /\ R.step = "total" => R.sums[2] <= SumOf(view, Hours)
        /\ R.step = "done" => R.sums[2] <= R.sums[3]

ReadOK(r) ==
    /\ read[r] \in Reads
    /\ read[r].kind = "none" => read[r] = NoRead
    /\ ListOK(r)
    /\ SumsOK(r)

LEMMA SumIs ==
    ASSUME NEW v \in Tables, NEW S \in SUBSET Hours
    PROVE  SumOf(v, S) = Total(v.traffic, S)
<1> DEFINE sum == CHOOSE g : g = [s \in SUBSET S |-> IF s = {} THEN 0
                      ELSE LET h == CHOOSE x \in s : TRUE IN v.traffic[h] + g[s \ {h}]]
<1>1. SumOf(v, S) = sum[S]
  BY DEF SumOf
<1>2. IsFiniteSet(S)
  BY FiniteAssumption, FS_Subset
<1>3. SumsUp(sum, v.traffic, S)
  <2>1. PICK g : SumsUp(g, v.traffic, S)
    BY <1>2, SumsExist
  <2>2. g = [s \in SUBSET S |-> IF s = {} THEN 0
                      ELSE LET h == CHOOSE x \in s : TRUE IN v.traffic[h] + g[s \ {h}]]
    BY <2>1 DEF SumsUp, Pick
  <2>3. sum = [s \in SUBSET S |-> IF s = {} THEN 0
                      ELSE LET h == CHOOSE x \in s : TRUE IN v.traffic[h] + sum[s \ {h}]]
    BY <2>2
  <2> HIDE DEF sum
  <2> QED
    BY <2>3 DEF SumsUp, Pick
<1> HIDE DEF sum
<1> QED
  BY <1>1, <1>2, <1>3, TotalIs

\* A sum is a number, and no less over more hours or fuller buckets.
LEMMA SumsGrow ==
    ASSUME NEW v \in Tables, NEW w \in Tables, NEW S \in SUBSET Hours, NEW T \in SUBSET S,
           \A h \in Hours : v.traffic[h] <= w.traffic[h]
    PROVE  SumOf(v, T) \in Nat /\ SumOf(w, S) \in Nat /\ SumOf(v, T) <= SumOf(w, S)
<1>1. IsFiniteSet(S) /\ IsFiniteSet(T)
  BY FiniteAssumption, FS_Subset
<1>2. v.traffic \in [Hours -> Nat] /\ w.traffic \in [Hours -> Nat]
  BY DEF Tables
<1>3. Total(v.traffic, T) \in Nat /\ Total(w.traffic, S) \in Nat
  BY <1>1, <1>2, TotalType
<1>4. Total(v.traffic, T) <= Total(w.traffic, S)
  BY <1>1, <1>2, TotalGrows
<1> QED
  BY <1>3, <1>4, SumIs

\* A statement leaves the value of a settled user alone and takes no sample away.
LEMMA StatementReads ==
    ASSUME Settling, NEW t \in Writers, Statement(t)
    PROVE  /\ \A u \in settled \cap Ids :
                 /\ view'.users[u] = view.users[u]
                 /\ view'.inbounds[u] = view.inbounds[u]
                 /\ view'.outbounds[u] = view.outbounds[u]
           /\ \A h \in Hours : view.traffic[h] <= view'.traffic[h]
           /\ view' \in Tables
           /\ settled \subseteq settled'
           /\ read' = read
<1>1. Effect(t)
  BY StatementEffect DEF Settling
<1>2. ASSUME NEW u \in settled \cap Ids
      PROVE  /\ view'.users[u] = view.users[u]
             /\ view'.inbounds[u] = view.inbounds[u]
             /\ view'.outbounds[u] = view.outbounds[u]
  <2>1. u \in Objects /\ (call[t] # NoCall => u # call[t].obj)
    BY DEF Objects, Settling, SettledOK, InUse
  <2>2. ValueIn(view', u) = ValueIn(view, u)
    BY <1>1, <2>1 DEF Effect
  <2>3. /\ ValueIn(view, u) = [ident |-> view.users[u], tags |-> view.inbounds[u],
                               outs |-> view.outbounds[u]]
        /\ ValueIn(view', u) = [ident |-> view'.users[u], tags |-> view'.inbounds[u],
                                outs |-> view'.outbounds[u]]
    BY PolicyTableAssumption DEF ValueIn
  <2> QED
    BY <2>2, <2>3
<1>3. ASSUME NEW h \in Hours PROVE view.traffic[h] <= view'.traffic[h]
  <2>1. view.traffic[h] \in Nat
    BY DEF Settling, Shape, TypeOK, Tables
  <2> QED
    BY <2>1, TrafficEffect DEF Settling
<1>4. settled \subseteq settled'
  BY <1>1 DEF Effect, Step, Raise, Return, object
<1> QED
  BY <1>1, <1>2, <1>3, <1>4 DEF Effect

\* Reads go on while the tables change.
LEMMA ReadsKept ==
    ASSUME view \in Tables, view' \in Tables, NEW r \in Readers, ReadOK(r), read'[r] = read[r],
           \A u \in read[r].fixed :
              /\ view'.users[u] = view.users[u]
              /\ view'.inbounds[u] = view.inbounds[u]
              /\ view'.outbounds[u] = view.outbounds[u],
           \A h \in Hours : view.traffic[h] <= view'.traffic[h],
           settled \subseteq settled'
    PROVE  ReadOK(r)'
<1>1. ListOK(r)'
  BY DEF ReadOK, ListOK
<1>2. SumsOK(r)'
  <2>1. /\ SumOf(view, Month) \in Nat /\ SumOf(view', Month) \in Nat
        /\ SumOf(view, Month) <= SumOf(view', Month)
    BY BucketsAssumption, SumsGrow
  <2>2. /\ SumOf(view, Hours) \in Nat /\ SumOf(view', Hours) \in Nat
        /\ SumOf(view, Hours) <= SumOf(view', Hours)
    BY SumsGrow
  <2>3. read[r].sums[1] \in Nat /\ read[r].sums[2] \in Nat
    BY DEF ReadOK, Reads
  <2>4. SumsOK(r)
    BY DEF ReadOK
  <2> QED
    BY <2>1, <2>2, <2>3, <2>4 DEF SumsOK
<1> QED
  BY <1>1, <1>2 DEF ReadOK

LEMMA NoReadType == NoRead \in Reads /\ NoRead.kind = "none"
<1>1. NoRead \in Reads
  BY OutsAssumption DEF NoRead, Reads
<1>2. NoRead.kind = "none"
  BY DEF NoRead
<1> QED
  BY <1>1, <1>2

LEMMA NoReadOK == ASSUME NEW r, read[r] = NoRead PROVE ReadOK(r)
  BY NoReadType DEF ReadOK, ListOK, SumsOK

\* A call begins: its object is settled no more, and no reader takes it for that.
LEMMA BeginReads ==
    ASSUME Settling, NEW t \in Writers, NEW c \in Calls, Begin(t, c), NEW r \in Readers, ReadOK(r),
           read \in [Readers -> Reads]
    PROVE  ReadOK(r)'
<1>1. view' = view /\ view \in Tables
  BY DEF Begin, tables, Settling, Shape, TypeOK
<1>2. CASE c.kind = "record_node_traffic"
  <2>1. read' = read /\ settled' = settled
    BY <1>2 DEF Begin, object
  <2> QED
    BY <1>1, <2>1 DEF ReadOK, ListOK, SumsOK
<1>3. CASE c.kind # "record_node_traffic"
  <2> DEFINE o == ObjectOf(c)
  <2>1. /\ settled' = settled \ {o}
        /\ read' = [x \in Readers |-> [read[x] EXCEPT !.fixed = read[x].fixed \ {o}]]
    BY <1>3 DEF Begin, BeginOn
  <2> HIDE DEF o
  <2>2. read[r] \in Reads
    OBVIOUS
  <2>3. read'[r] = [read[r] EXCEPT !.fixed = read[r].fixed \ {o}]
    BY <2>1
  <2>4. /\ read'[r].kind = read[r].kind /\ read'[r].step = read[r].step
        /\ read'[r].found = read[r].found /\ read'[r].tags = read[r].tags
        /\ read'[r].outs = read[r].outs /\ read'[r].todo = read[r].todo
        /\ read'[r].sums = read[r].sums /\ read'[r].fixed = read[r].fixed \ {o}
    BY <2>2, <2>3 DEF Reads
  <2>5. read'[r] \in Reads
    <3>1. read[r].fixed \ {o} \in SUBSET Ids
      BY <2>2 DEF Reads
    <3> QED
      BY <2>2, <2>3, <3>1 DEF Reads
  <2>6. read[r].kind = "none" => read'[r] = NoRead
    <3>1. SUFFICES ASSUME read[r] = NoRead PROVE read'[r] = NoRead
      BY DEF ReadOK
    <3>2. NoRead.fixed \ {o} = NoRead.fixed
      BY DEF NoRead
    <3>3. [NoRead EXCEPT !.fixed = NoRead.fixed] = NoRead
      BY DEF NoRead
    <3> QED
      BY <2>3, <3>1, <3>2, <3>3
  <2>7. ListOK(r)'
    <3>1. SUFFICES ASSUME read[r].kind = "users" PROVE ListOK(r)'
      BY <2>4 DEF ListOK
    <3>2. /\ read[r].step \in {"tags", "outs"}
          /\ read[r].fixed \subseteq settled
          /\ \A u \in read[r].fixed :
                /\ read[r].found[u] = view.users[u]
                /\ view.users[u] # NoRow =>
                      /\ read[r].step = "tags" => u \in read[r].todo
                      /\ read[r].step = "outs" => read[r].tags[u] = view.inbounds[u]
                      /\ u \notin read[r].todo => read[r].outs[u] = view.outbounds[u]
      BY <3>1 DEF ReadOK, ListOK
    <3>3. read'[r].fixed \subseteq settled' /\ read'[r].fixed \subseteq read[r].fixed
      BY <2>1, <2>4, <3>2
    <3> QED
      BY <1>1, <2>4, <3>2, <3>3 DEF ListOK
  <2>8. SumsOK(r)'
    BY <1>1, <2>4 DEF ReadOK, SumsOK
  <2> QED
    BY <2>4, <2>5, <2>6, <2>7, <2>8 DEF ReadOK
<1> QED
  BY <1>2, <1>3

\* list_users() begins, and goes on.
LEMMA ListUsersReads ==
    ASSUME Settling, NEW r \in Readers, read \in [Readers -> Reads], ReadOK(r), ListUsers(r)
    PROVE  ReadOK(r)'
<1> DEFINE rows == {u \in Ids : view.users[u] # NoRow}
<1>1. /\ read'[r] = [NoRead EXCEPT !.kind = "users", !.step = "tags", !.found = view.users,
                                   !.todo = rows, !.fixed = settled \cap Ids]
      /\ view' = view /\ settled' = settled
  BY DEF ListUsers, object
<1>2. /\ read'[r].kind = "users" /\ read'[r].step = "tags" /\ read'[r].found = view.users
      /\ read'[r].todo = rows /\ read'[r].fixed = settled \cap Ids
      /\ read'[r].tags = NoRead.tags /\ read'[r].outs = NoRead.outs
      /\ read'[r].sums = NoRead.sums
  BY <1>1 DEF NoRead
<1>3. read'[r] \in Reads
  <2>1. NoRead \in Reads
    BY OutsAssumption DEF NoRead, Reads
  <2>2. view.users \in [Ids -> Idents \cup {NoRow}] /\ rows \in SUBSET Ids
    BY DEF Settling, Shape, TypeOK, Tables
  <2> HIDE DEF rows
  <2> QED
    BY <1>1, <2>1, <2>2 DEF Reads
<1>4. ListOK(r)'
  <2>1. /\ read'[r].fixed \subseteq settled'
        /\ \A u \in read'[r].fixed : view'.users[u] # NoRow => u \in read'[r].todo
    BY <1>1, <1>2
  <2>2. \A u \in read'[r].fixed : u \notin read'[r].todo => view'.users[u] = NoRow
    BY <2>1
  <2> HIDE DEF rows
  <2> QED
    BY <1>1, <1>2, <2>1, <2>2 DEF ListOK
<1>5. SumsOK(r)'
  BY <1>2 DEF SumsOK
<1> QED
  BY <1>2, <1>3, <1>4, <1>5 DEF ReadOK

\* The statement a reader awaits tells what it reads.
LEMMA StepsFit ==
    ASSUME NEW r \in Readers, ReadOK(r)
    PROVE  /\ read[r].step \in {"tags", "outs"} => read[r].kind = "users"
           /\ read[r].step \in {"month", "total"} => read[r].kind = "totals"
  BY DEF ReadOK, ListOK, SumsOK, Reads, NoRead

LEMMA TagsReads ==
    ASSUME Settling, NEW r \in Readers, read \in [Readers -> Reads], ReadOK(r), ReadTags(r)
    PROVE  ReadOK(r)'
<1>1. /\ read[r].step = "tags" /\ read[r] \in Reads /\ view' = view /\ settled' = settled
      /\ read'[r] = [read[r] EXCEPT !.tags = view.inbounds, !.step = "outs"]
  BY DEF ReadTags, tables, object
<1>2. /\ read'[r].kind = read[r].kind /\ read'[r].step = "outs"
      /\ read'[r].found = read[r].found /\ read'[r].tags = view.inbounds
      /\ read'[r].outs = read[r].outs /\ read'[r].todo = read[r].todo
      /\ read'[r].sums = read[r].sums /\ read'[r].fixed = read[r].fixed
  BY <1>1 DEF Reads
<1>3. read'[r] \in Reads
  <2>1. view.inbounds \in [Ids -> SUBSET Tags]
    BY DEF Settling, Shape, TypeOK, Tables
  <2> QED
    BY <1>1, <2>1 DEF Reads
<1>4. read[r].kind = "users"
  BY <1>1, StepsFit
<1>5. ListOK(r)'
  BY <1>1, <1>2, <1>4 DEF ReadOK, ListOK
<1> QED
  BY <1>2, <1>3, <1>4, <1>5 DEF ReadOK, SumsOK

LEMMA OutboundsReads ==
    ASSUME Settling, NEW r \in Readers, read \in [Readers -> Reads], ReadOK(r),
           NEW u \in Ids, ReadOutbounds(r, u)
    PROVE  ReadOK(r)'
<1> DEFINE found == [read[r].outs EXCEPT ![u] = view.outbounds[u]]
           rest == read[r].todo \ {u}
<1>1. /\ read[r].step = "outs" /\ read[r] \in Reads /\ view' = view /\ settled' = settled
      /\ read'[r] = [read[r] EXCEPT !.outs = found, !.todo = rest]
  BY DEF ReadOutbounds, tables, object
<1>2. found \in [Ids -> Outs] /\ rest \in SUBSET Ids
  BY <1>1 DEF Reads, Settling, Shape, TypeOK, Tables
<1>3. found[u] = view.outbounds[u] /\ \A w \in Ids \ {u} : found[w] = read[r].outs[w]
  BY <1>1 DEF Reads
<1>4. \A w \in Ids : w \notin rest => w = u \/ w \notin read[r].todo
  OBVIOUS
<1> HIDE DEF found, rest
<1>5. /\ read'[r].kind = read[r].kind /\ read'[r].step = "outs"
      /\ read'[r].found = read[r].found /\ read'[r].tags = read[r].tags
      /\ read'[r].outs = found /\ read'[r].todo = rest
      /\ read'[r].sums = read[r].sums /\ read'[r].fixed = read[r].fixed
  BY <1>1 DEF Reads
<1>6. read'[r] \in Reads
  BY <1>1, <1>2 DEF Reads
<1>7. read[r].kind = "users" /\ read[r].fixed \subseteq Ids
  BY <1>1, StepsFit DEF Reads
<1>8. ListOK(r)'
  <2>1. ASSUME NEW w \in read[r].fixed, view.users[w] # NoRow, w \notin rest
        PROVE  found[w] = view.outbounds[w]
    <3>1. w \notin read[r].todo => read[r].outs[w] = view.outbounds[w]
      BY <2>1, <1>7 DEF ReadOK, ListOK
    <3> QED
      BY <1>3, <1>4, <1>7, <2>1, <3>1
  <2>2. /\ read[r].fixed \subseteq settled
        /\ \A w \in read[r].fixed :
              /\ read[r].found[w] = view.users[w]
              /\ view.users[w] # NoRow => read[r].tags[w] = view.inbounds[w]
    BY <1>1, <1>7 DEF ReadOK, ListOK
  <2> QED
    BY <1>1, <1>5, <2>1, <2>2 DEF ListOK
<1> QED
  BY <1>5, <1>6, <1>7, <1>8 DEF ReadOK, SumsOK

\* get_node_traffic_totals(): every sum is over more hours than the one before.
LEMMA TotalsReads ==
    ASSUME Settling, NEW r \in Readers, read \in [Readers -> Reads], ReadOK(r),
           GetTotals(r) \/ SumMonth(r) \/ SumTotal(r)
    PROVE  ReadOK(r)'
<1> DEFINE today == SumOf(view, Today)
           month == SumOf(view, Month)
           total == SumOf(view, Hours)
<1>1. /\ view \in Tables /\ view' = view /\ read[r] \in Reads
      /\ Today \subseteq Month /\ Month \subseteq Hours
  BY BucketsAssumption DEF GetTotals, SumMonth, SumTotal, tables, Settling, Shape, TypeOK
<1>2. /\ today \in Nat /\ month \in Nat /\ total \in Nat
      /\ today <= month /\ month <= total
  <2>1. \A h \in Hours : view.traffic[h] <= view.traffic[h]
    BY <1>1 DEF Tables
  <2>2. today \in Nat /\ month \in Nat /\ today <= month
    BY <1>1, <2>1, SumsGrow
  <2>3. month \in Nat /\ total \in Nat /\ month <= total
    BY <1>1, <2>1, SumsGrow
  <2> QED
    BY <2>2, <2>3
<1>3. month' = month /\ total' = total
  BY <1>1
<1> HIDE DEF today, month, total
<1>4. CASE GetTotals(r)
  <2> DEFINE sums == [NoRead.sums EXCEPT ![1] = today]
  <2>1. read'[r] = [NoRead EXCEPT !.kind = "totals", !.step = "month", !.sums = sums]
    BY <1>4 DEF GetTotals, today
  <2>2. sums \in [1..3 -> Nat] /\ sums[1] = today
    <3>1. NoRead.sums \in [1..3 -> Nat]
      BY DEF NoRead
    <3> QED
      BY <1>2, <3>1
  <2> HIDE DEF sums
  <2>3. read'[r].kind = "totals" /\ read'[r].step = "month" /\ read'[r].sums = sums
    BY <2>1 DEF NoRead
  <2>4. read'[r] \in Reads
    <3>1. NoRead \in Reads
      BY OutsAssumption DEF NoRead, Reads
    <3> QED
      BY <2>1, <2>2, <3>1 DEF Reads
  <2>5. SumsOK(r)'
    BY <1>2, <1>3, <2>2, <2>3 DEF SumsOK, month, total
  <2> QED
    BY <2>3, <2>4, <2>5 DEF ReadOK, ListOK
<1>5. CASE SumMonth(r)
  <2> DEFINE sums == [read[r].sums EXCEPT ![2] = month]
  <2>1. read[r].step = "month" /\ read'[r] = [read[r] EXCEPT !.sums = sums, !.step = "total"]
    BY <1>5 DEF SumMonth, month
  <2>2. read[r].kind = "totals"
    BY <2>1, StepsFit
  <2>3. /\ sums \in [1..3 -> Nat] /\ sums[1] = read[r].sums[1] /\ sums[2] = month
        /\ read[r].sums[1] \in Nat
    BY <1>1, <1>2 DEF Reads
  <2> HIDE DEF sums
  <2>4. read'[r].kind = "totals" /\ read'[r].step = "total" /\ read'[r].sums = sums
    BY <1>1, <2>1, <2>2 DEF Reads
  <2>5. read'[r] \in Reads
    BY <1>1, <2>1, <2>3 DEF Reads
  <2>6. read[r].sums[1] <= month
    BY <2>1, <2>2 DEF ReadOK, SumsOK, month
  <2>7. SumsOK(r)'
    BY <1>2, <1>3, <2>3, <2>4, <2>6 DEF SumsOK, month, total
  <2> QED
    BY <2>4, <2>5, <2>7 DEF ReadOK, ListOK
<1>6. CASE SumTotal(r)
  <2> DEFINE sums == [read[r].sums EXCEPT ![3] = total]
  <2>1. read[r].step = "total" /\ read'[r] = [read[r] EXCEPT !.sums = sums, !.step = "done"]
    BY <1>6 DEF SumTotal, total
  <2>2. read[r].kind = "totals"
    BY <2>1, StepsFit
  <2>3. /\ sums \in [1..3 -> Nat] /\ sums[1] = read[r].sums[1] /\ sums[2] = read[r].sums[2]
        /\ sums[3] = total
    BY <1>1, <1>2 DEF Reads
  <2> HIDE DEF sums
  <2>4. read'[r].kind = "totals" /\ read'[r].step = "done" /\ read'[r].sums = sums
    BY <1>1, <2>1, <2>2 DEF Reads
  <2>5. read'[r] \in Reads
    BY <1>1, <2>1, <2>3 DEF Reads
  <2>6. read[r].sums[1] <= read[r].sums[2] /\ read[r].sums[2] <= total
    BY <2>1, <2>2 DEF ReadOK, SumsOK, total
  <2>7. SumsOK(r)'
    BY <2>3, <2>4, <2>6 DEF SumsOK
  <2> QED
    BY <2>4, <2>5, <2>7 DEF ReadOK, ListOK
<1> QED
  BY <1>4, <1>5, <1>6

LEMMA ReadingReads ==
    ASSUME Settling, read \in [Readers -> Reads], \A r \in Readers : ReadOK(r),
           NEW x \in Readers, Reading(x), NEW r \in Readers
    PROVE  ReadOK(r)'
<1>1. CASE r # x
  <2>1. read'[r] = read[r]
    BY <1>1 DEF Reading, ListUsers, ReadTags, ReadOutbounds, GetTotals, SumMonth, SumTotal,
                ReadReturns
  <2>2. view' = view /\ settled' = settled
    BY ReadingShape DEF Settling, object
  <2> QED
    BY <2>1, <2>2 DEF ReadOK, ListOK, SumsOK
<1>2. CASE r = x /\ ReadReturns(x)
  <2>1. read'[r] = NoRead
    BY <1>2 DEF ReadReturns
  <2> QED
    BY <2>1, NoReadType DEF ReadOK, ListOK, SumsOK
<1>3. CASE r = x /\ ~ReadReturns(x)
  BY <1>3, ListUsersReads, TagsReads, OutboundsReads, TotalsReads DEF Reading
<1> QED
  BY <1>1, <1>2, <1>3

\* The invariant of the reads.
ReadInv == Settling /\ read \in [Readers -> Reads] /\ \A r \in Readers : ReadOK(r)

LEMMA ReadsTyped ==
    ASSUME ReadInv, [Next]_vars, \A r \in Readers : ReadOK(r)'
    PROVE  read' \in [Readers -> Reads]
<1>1. DOMAIN read' = Readers /\ read' = [r \in Readers |-> read'[r]]
  <2>1. CASE read' = read
    BY <2>1 DEF ReadInv
  <2>2. \A t \in Writers, c \in Calls : Begin(t, c) =>
            read' = read \/ read' = [r \in Readers |-> [read[r] EXCEPT !.fixed = @ \ {ObjectOf(c)}]]
    BY DEF Begin, BeginOn
  <2>3. \A t \in Writers : Statement(t) => read' = read
    BY StatementReads DEF ReadInv
  <2>4. ASSUME NEW r \in Readers, Reading(r)
        PROVE  DOMAIN read' = Readers /\ read' = [x \in Readers |-> read'[x]]
    <3> DEFINE Whole == DOMAIN read' = Readers /\ read' = [x \in Readers |-> read'[x]]
    <3>0. read \in [Readers -> Reads]
      BY DEF ReadInv
    <3>1. ListUsers(r) => Whole
      BY <3>0 DEF ListUsers
    <3>2. ReadTags(r) => Whole
      BY <3>0 DEF ReadTags
    <3>3. ASSUME NEW u \in Ids, ReadOutbounds(r, u) PROVE Whole
      BY <3>0, <3>3 DEF ReadOutbounds
    <3>4. GetTotals(r) => Whole
      BY <3>0 DEF GetTotals
    <3>5. SumMonth(r) => Whole
      BY <3>0 DEF SumMonth
    <3>6. SumTotal(r) => Whole
      BY <3>0 DEF SumTotal
    <3>7. ReadReturns(r) => Whole
      BY <3>0 DEF ReadReturns
    <3> QED
      BY <2>4, <3>1, <3>2, <3>3, <3>4, <3>5, <3>6, <3>7 DEF Reading
  <2>5. \A t \in Writers : Fail(t) \/ Cancel(t) => read' = read
    BY DEF Fail, Cancel
  <2>6. Crash => read' = [r \in Readers |-> NoRead]
    BY DEF Crash
  <2>7. UNCHANGED vars => read' = read
    BY DEF vars
  <2> QED
    BY <2>1, <2>2, <2>3, <2>4, <2>5, <2>6, <2>7 DEF Next, ReadInv
<1>2. \A r \in Readers : read'[r] \in Reads
  BY DEF ReadOK
<1> QED
  BY <1>1, <1>2

LEMMA ReadInvariant == Spec => []ReadInv
<1>1. Init => ReadInv
  <2> SUFFICES ASSUME Init PROVE ReadInv
    OBVIOUS
  <2>1. Settling
    BY InitShape DEF Init, Settling, AloneOK, SettledOK, InUse
  <2>2. \A r \in Readers : ReadOK(r)
    BY NoReadOK DEF Init
  <2>3. read \in [Readers -> Reads]
    BY <2>2 DEF Init, ReadOK
  <2> QED
    BY <2>1, <2>2, <2>3 DEF ReadInv
<1>2. ASSUME ReadInv, [Next]_vars PROVE ReadInv'
  <2>1. Settling /\ read \in [Readers -> Reads] /\ \A r \in Readers : ReadOK(r)
    BY <1>2 DEF ReadInv
  <2>2. CASE UNCHANGED vars
    <3>1. UNCHANGED <<view, disk, op, call, settled, read>> /\ Shape'
      BY <2>1, <2>2, ShapeNext DEF vars, tables, object, Settling
    <3> QED
      BY <2>1, <3>1 DEF ReadInv, Settling, AloneOK, SettledOK, InUse, ReadOK, ListOK, SumsOK
  <2>3. ASSUME NEW t \in Writers, NEW c \in Calls, Begin(t, c) PROVE ReadInv'
    <3>1. Settling'
      BY <2>1, <2>3, BeginStep
    <3>2. \A r \in Readers : ReadOK(r)'
      BY <2>1, <2>3, BeginReads
    <3> QED
      BY <1>2, <3>1, <3>2, ReadsTyped DEF ReadInv
  <2>4. ASSUME NEW t \in Writers, Statement(t) PROVE ReadInv'
    <3>1. Settling'
      BY <2>1, <2>4, StatementStep
    <3>2. ASSUME NEW r \in Readers PROVE ReadOK(r)'
      <4>1. /\ \A u \in settled \cap Ids :
                  /\ view'.users[u] = view.users[u]
                  /\ view'.inbounds[u] = view.inbounds[u]
                  /\ view'.outbounds[u] = view.outbounds[u]
            /\ \A h \in Hours : view.traffic[h] <= view'.traffic[h]
            /\ view' \in Tables /\ view \in Tables
            /\ settled \subseteq settled'
            /\ read' = read
        BY <2>1, <2>4, StatementReads DEF Settling, Shape, TypeOK
      <4>2. CASE read[r].kind = "users"
        <5>1. read[r].fixed \subseteq settled \cap Ids
          BY <2>1, <4>2 DEF ReadOK, ListOK, Reads
        <5> QED
          BY <2>1, <4>1, <5>1, ReadsKept
      <4>3. CASE read[r].kind # "users"
        <5>1. ListOK(r)'
          BY <4>1, <4>3 DEF ListOK
        <5>2. SumsOK(r)'
          <6>1. /\ SumOf(view, Month) \in Nat /\ SumOf(view', Month) \in Nat
                /\ SumOf(view, Month) <= SumOf(view', Month)
            BY <4>1, BucketsAssumption, SumsGrow
          <6>2. /\ SumOf(view, Hours) \in Nat /\ SumOf(view', Hours) \in Nat
                /\ SumOf(view, Hours) <= SumOf(view', Hours)
            BY <4>1, SumsGrow
          <6>3. read[r].sums[1] \in Nat /\ read[r].sums[2] \in Nat
            BY <2>1 DEF Reads
          <6> QED
            BY <2>1, <4>1, <6>1, <6>2, <6>3 DEF ReadOK, SumsOK
        <5> QED
          BY <2>1, <4>1, <5>1, <5>2 DEF ReadOK
      <4> QED
        BY <4>2, <4>3
    <3> QED
      BY <1>2, <3>1, <3>2, ReadsTyped DEF ReadInv
  <2>5. ASSUME NEW x \in Readers, Reading(x) PROVE ReadInv'
    <3>1. Settling'
      BY <2>1, <2>5, ReadingStep
    <3>2. \A r \in Readers : ReadOK(r)'
      BY <2>1, <2>5, ReadingReads
    <3> QED
      BY <1>2, <3>1, <3>2, ReadsTyped DEF ReadInv
  <2>6. ASSUME NEW t \in Writers, Fail(t) \/ Cancel(t) PROVE ReadInv'
    <3>1. Settling'
      BY <2>1, <2>6, FaultStep
    <3>2. view' = view /\ read' = read /\ settled' = settled
      BY <2>6 DEF Fail, Cancel, Raise, tables, object
    <3> QED
      BY <2>1, <3>1, <3>2 DEF ReadInv, ReadOK, ListOK, SumsOK
  <2>7. CASE Crash
    <3>1. Settling'
      BY <2>1, <2>7, CrashStep
    <3>2. read' = [r \in Readers |-> NoRead]
      BY <2>7 DEF Crash
    <3>3. ASSUME NEW r \in Readers PROVE ReadOK(r)'
      BY <3>2, NoReadType DEF ReadOK, ListOK, SumsOK
    <3> QED
      BY <1>2, <3>1, <3>3, ReadsTyped DEF ReadInv
  <2> QED
    BY <1>2, <2>2, <2>3, <2>4, <2>5, <2>6, <2>7 DEF Next
<1> QED
  BY <1>1, <1>2, PTL DEF Spec

\* list_users() returns the value of every user that no call worked on while it read,
\* though it takes three kinds of statements that others come between, and whatever
\* those do to other users (sqlite.py:150-168).
THEOREM ListsAreTrue == Spec => []ReadsSettled
<1>1. ReadInv => ReadsSettled
  <2> SUFFICES ASSUME ReadInv, NEW r \in Readers, Listed(r), NEW u \in read[r].fixed
               PROVE  /\ read[r].found[u] = view.users[u]
                      /\ view.users[u] # NoRow =>
                            /\ read[r].tags[u] = view.inbounds[u]
                            /\ read[r].outs[u] = view.outbounds[u]
    BY DEF ReadsSettled
  <2>1. read[r].kind = "users" /\ read[r].step = "outs" /\ read[r].todo = {}
    BY DEF Listed
  <2> QED
    BY <2>1 DEF ReadInv, ReadOK, ListOK
<1> QED
  BY <1>1, ReadInvariant, PTL

\* The sums of get_node_traffic_totals() are in order, although samples come between
\* its statements (sqlite.py:433-437).
THEOREM TotalsInOrder == Spec => []TotalsOrdered
<1>1. ReadInv => TotalsOrdered
  BY DEF ReadInv, TotalsOrdered, Totalled, ReadOK, SumsOK
<1> QED
  BY <1>1, ReadInvariant, PTL
=============================================================================

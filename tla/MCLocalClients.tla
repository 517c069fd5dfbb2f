---------------------------- MODULE MCLocalClients ----------------------------
(* Two tasks of one server beside a command-line process and a Memory       *)
(* object; the second bundle refers to the first one's evidence.            *)
EXTENDS LocalClients

CONSTANTS k1, k2, e1, e2, task1, task2, shell, object

Payload(k, e, references) ==
  [key |-> k, items |-> {e}, refs |-> references, group |-> [x \in EvidenceIds |-> NoGroup]]

First == Payload(k1, e1, {})
Second == Payload(k2, e2, {[kind |-> DerivedFrom, source |-> e2, target |-> e1]})
BothBundles == {First, Second}

Do(op, argument) == [op |-> op, arg |-> argument]
Just(op) == Do(op, NoArg)
Link == [source |-> 1, target |-> 2, name |-> "related"]

Plan(a, b, c, d) ==
  [x \in Clients |-> CASE x = task1 -> a [] x = task2 -> b [] x = shell -> c [] x = object -> d]

Apply(b) == Do("apply", b)
Rollback(k) == Do("rollback", k)

AllPlans ==
  {Plan(<<Apply(First)>>, <<Apply(First), Do("add", NoArg)>>, c, <<>>) :
     c \in {<<>>, <<Rollback(k1)>>, <<Apply(First)>>, <<Apply(Second)>>}}
  \cup
  {Plan(<<Apply(First), Just("health")>>, <<Rollback(k1)>>, c, <<>>) :
     c \in {<<>>, <<Rollback(k1)>>, <<Apply(Second)>>, <<Do("preview", First)>>}}
  \cup
  {Plan(<<Just("health")>>, <<Just("add"), Just("add"), Do("link", Link)>>, c, <<>>) :
     c \in {<<Just("add"), Do("feedback", Link)>>, <<Just("health")>>, <<Do("add", Invalid), Just("add")>>}}
  \cup
  {Plan(<<Just("health")>>, <<Just("add"), Do("link", Link)>>, <<>>, d) :
     d \in {<<Just("open"), Just("add"), Just("close"), Do("get", Invalid), Do("add", Invalid)>>,
            <<Just("open"), Do("link", Link), Do("get", 1), Just("close"), Do("get", 1)>>,
            <<Do("link", Link), Just("open"), Do("link", Invalid), Just("add"), Do("get", 9)>>}}
  \cup
  {Plan(<<Apply(First), Do("apply", Invalid)>>, <<Apply(First), Apply(First)>>, <<>>, <<>>)}
  \cup
  {Plan(<<Do("add", Invalid), Do("preview", First)>>, <<Do("rollback", k2), Just("health")>>,
        <<Apply(First), Rollback(k1), Apply(First)>>, <<>>)}
=============================================================================

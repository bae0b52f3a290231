--------------------------- MODULE Registry_proofs ---------------------------
(***************************************************************************)
(* Proofs about Registry, for any threads, names and topic addresses: the  *)
(* topics that requests use are alive and none is left behind, although    *)
(* nothing locks topics_; and the loss of stored records comes from racing *)
(* constructions and restarts alone.                                       *)
(***************************************************************************)
EXTENDS Registry, FiniteSetTheorems, TLAPS

\* Topic o is in topics_.
Linked(o) == \E n \in Names : o \in Range(topics_[n])

\* t has constructed a topic and not yet linked or destroyed it.
Inserting(t) == pc[t] \in {"emplace", "link"}

RegistryTypes ==
    /\ pc \in [Threads -> PCs]
    /\ name \in [Threads -> Names \cup {NoName}]
    /\ topic \in [Threads -> Topics \cup {NoTopic}]
    /\ topics_ \in [Names -> Seq(Topics)]
    /\ alive \subseteq Topics
    /\ \A t \in Threads : pc[t] # "idle" => name[t] \in Names

\* What topics_ holds is alive.
LinkedAlive == \A n \in Names : Range(topics_[n]) \subseteq alive

\* A topic that is being inserted is alive, in no other thread's hands and not
\* yet in topics_, so that destroying it takes it from nobody.
InsertingOwn ==
    /\ \A t \in Threads : Inserting(t) => topic[t] \in alive /\ ~Linked(topic[t])
    /\ \A t, u \in Threads : Inserting(t) /\ Inserting(u) /\ topic[t] = topic[u] => t = u

\* A request uses a topic that topics_ holds.
UsesLinked == \A t \in Threads : pc[t] \in {"store", "use"} => Linked(topic[t])

\* The inductive invariant.
OwnershipInv ==
    RegistryTypes /\ LinkedAlive /\ InsertingOwn /\ UsesLinked /\ TopicsOwned

-----------------------------------------------------------------------------
(* The nodes of a key *)

\* The first node is among the nodes of its key.
LEMMA HeadInRange ==
    ASSUME NEW nodes \in Seq(Topics), nodes # <<>>
    PROVE  Head(nodes) \in Range(nodes) /\ Head(nodes) \in Topics
<1>1. 1 \in DOMAIN nodes /\ Head(nodes) = nodes[1]
  OBVIOUS
<1>2. QED
  BY <1>1 DEF Range

\* Linking a node adds its topic to the nodes of the key and no other.
LEMMA LinkRange ==
    ASSUME NEW nodes \in Seq(Topics), NEW o \in Topics
    PROVE  /\ <<o>> \o nodes \in Seq(Topics)
           /\ Range(<<o>> \o nodes) = {o} \cup Range(nodes)
<1> DEFINE longer == <<o>> \o nodes
<1>1. /\ longer \in Seq(Topics)
      /\ Len(longer) = Len(nodes) + 1
      /\ longer[1] = o
      /\ \A i \in 1..Len(nodes) : longer[i + 1] = nodes[i]
      /\ DOMAIN longer = 1..Len(longer)
      /\ DOMAIN nodes = 1..Len(nodes)
  OBVIOUS
<1> HIDE DEF longer
<1>2. ASSUME NEW x \in Range(longer)
      PROVE  x = o \/ x \in Range(nodes)
  <2>1. PICK i \in 1..Len(longer) : x = longer[i]
    BY <1>1 DEF Range
  <2>2. CASE i = 1
    BY <1>1, <2>1, <2>2
  <2>3. CASE i # 1
    <3>1. i - 1 \in 1..Len(nodes) /\ (i - 1) + 1 = i
      BY <1>1, <2>3
    <3>2. x = nodes[i - 1]
      BY <1>1, <2>1, <3>1
    <3>3. QED
      BY <1>1, <3>1, <3>2 DEF Range
  <2>4. QED
    BY <2>2, <2>3
<1>3. o \in Range(longer)
  <2>1. 1 \in DOMAIN longer
    BY <1>1
  <2>2. QED
    BY <1>1, <2>1 DEF Range
<1>4. ASSUME NEW x \in Range(nodes)
      PROVE  x \in Range(longer)
  <2>1. PICK i \in 1..Len(nodes) : x = nodes[i]
    BY <1>1 DEF Range
  <2>2. i + 1 \in DOMAIN longer /\ longer[i + 1] = x
    BY <1>1, <2>1
  <2>3. QED
    BY <2>2 DEF Range
<1>5. QED
  BY <1>1, <1>2, <1>3, <1>4 DEF longer

\* A key's first node is linked.
LEMMA HeadLinked ==
    ASSUME RegistryTypes, NEW n \in Names, topics_[n] # <<>>
    PROVE  Head(topics_[n]) \in Topics /\ Linked(Head(topics_[n]))
BY HeadInRange DEF RegistryTypes, Linked

-----------------------------------------------------------------------------
(* Every step keeps the ownership of topics *)

\* A process that has just started ...
FreshState ==
    /\ pc = [t \in Threads |-> "idle"]
    /\ name = [t \in Threads |-> NoName]
    /\ topic = [t \in Threads |-> NoTopic]
    /\ topics_ = [n \in Names |-> <<>>]
    /\ alive = {}

\* ... owns nothing.
LEMMA FreshOwnership == FreshState => OwnershipInv
<1> SUFFICES ASSUME FreshState PROVE OwnershipInv
  OBVIOUS
<1>1. RegistryTypes
  BY DEF FreshState, RegistryTypes, PCs
<1>2. \A n \in Names : Range(topics_[n]) = {}
  BY DEF FreshState, Range
<1>3. QED
  BY <1>1, <1>2 DEF FreshState, OwnershipInv, LinkedAlive, InsertingOwn, Inserting,
                    UsesLinked, TopicsOwned

\* A step of t that leaves topics_ and alive alone, and after which t inserts
\* the topic it inserted before, if any, and uses a linked one, if any.
LEMMA QuietStep ==
    ASSUME OwnershipInv, RegistryTypes', NEW t \in Threads,
           UNCHANGED <<topics_, alive>>,
           \A u \in Threads \ {t} : pc'[u] = pc[u] /\ topic'[u] = topic[u],
           Inserting(t) <=> Inserting(t)', Inserting(t) => topic'[t] = topic[t],
           pc'[t] \in {"store", "use"} => Linked(topic'[t])
    PROVE  OwnershipInv'
<1>1. \A o : Linked(o)' <=> Linked(o)
  BY DEF Linked
<1>2. \A u \in Threads : Inserting(u)' <=> Inserting(u)
  BY DEF Inserting
<1>3. \A u \in Threads : Inserting(u) => topic'[u] = topic[u]
  OBVIOUS
<1>4. InsertingOwn'
  BY <1>1, <1>2, <1>3 DEF OwnershipInv, InsertingOwn
<1>5. UsesLinked'
  BY <1>1 DEF OwnershipInv, UsesLinked
<1>6. LinkedAlive'
  BY DEF OwnershipInv, LinkedAlive
<1>7. TopicsOwned'
  <2> SUFFICES ASSUME NEW o \in alive
               PROVE  Linked(o) \/ \E u \in Threads : Inserting(u)' /\ topic'[u] = o
    BY <1>1 DEF TopicsOwned, Linked, Inserting
  <2>1. Linked(o) \/ \E u \in Threads : Inserting(u) /\ topic[u] = o
    BY DEF OwnershipInv, TopicsOwned, Linked, Inserting
  <2>2. QED
    BY <1>2, <1>3, <2>1
<1>8. QED
  BY <1>4, <1>5, <1>6, <1>7 DEF OwnershipInv

\* The steps that leave topics_ and alive alone.
LEMMA QuietOwnership ==
    ASSUME OwnershipInv, NEW t \in Threads,
           \/ \E n \in Names : Request(t, n)
           \/ Get(t) \/ Find(t) \/ Store(t) \/ Use(t)
           \/ Emplace(t) /\ topics_[name[t]] = <<>>
           \/ \E u \in Threads : Race(t, u)
    PROVE  OwnershipInv'
<1> USE DEF RegistryTypes
<1>0. RegistryTypes
  BY DEF OwnershipInv
<1>1. ASSUME NEW n \in Names, Request(t, n)
      PROVE  OwnershipInv'
  <2>1. RegistryTypes'
    BY <1>0, <1>1 DEF Request, PCs
  <2>2. /\ UNCHANGED <<topics_, alive, topic>>
        /\ \A u \in Threads \ {t} : pc'[u] = pc[u] /\ topic'[u] = topic[u]
        /\ ~Inserting(t) /\ ~Inserting(t)' /\ pc'[t] \notin {"store", "use"}
    BY <1>0, <1>1 DEF Request, Inserting
  <2>3. QED
    BY <2>1, <2>2, QuietStep
<1>2. ASSUME Get(t) \/ Find(t)
      PROVE  OwnershipInv'
  <2>1. name[t] \in Names
    BY <1>0, <1>2 DEF Get, Find
  <2>2. CASE topics_[name[t]] # <<>>
    <3>1. PICK point \in {"store", "use"} : Obtain(t, Head(topics_[name[t]]), point)
      BY <1>2, <2>2 DEF Get, Find
    <3>2. Head(topics_[name[t]]) \in Topics /\ Linked(Head(topics_[name[t]]))
      BY <1>0, <2>1, <2>2, HeadLinked
    <3>3. UNCHANGED <<topics_, alive, name>> /\ ~Inserting(t)
      BY <1>2 DEF Get, Find, Inserting
    <3>4. /\ \A u \in Threads \ {t} : pc'[u] = pc[u] /\ topic'[u] = topic[u]
          /\ pc'[t] = point /\ topic'[t] = Head(topics_[name[t]])
          /\ ~Inserting(t)'
      BY <1>0, <3>1, <3>2 DEF Obtain, Inserting
    <3>5. RegistryTypes'
      BY <1>0, <2>1, <3>1, <3>2, <3>3 DEF Obtain, PCs
    <3>6. QED
      BY <3>2, <3>3, <3>4, <3>5, QuietStep
  <2>3. CASE topics_[name[t]] = <<>>
    <3>1. PICK point \in {"idle", "construct"} : Obtain(t, NoTopic, point)
      BY <1>2, <2>3 DEF Get, Find
    <3>2. UNCHANGED <<topics_, alive, name>> /\ ~Inserting(t)
      BY <1>2 DEF Get, Find, Inserting
    <3>3. /\ \A u \in Threads \ {t} : pc'[u] = pc[u] /\ topic'[u] = topic[u]
          /\ pc'[t] = point /\ ~Inserting(t)'
      BY <1>0, <3>1 DEF Obtain, Inserting
    <3>4. RegistryTypes'
      BY <1>0, <2>1, <3>1, <3>2 DEF Obtain, PCs
    <3>5. QED
      BY <3>2, <3>3, <3>4, QuietStep
  <2>4. QED
    BY <2>2, <2>3
<1>3. ASSUME Store(t) \/ Use(t)
      PROVE  OwnershipInv'
  <2>1. RegistryTypes'
    BY <1>0, <1>3 DEF Store, Use, PCs
  <2>2. /\ UNCHANGED <<topics_, alive, topic>>
        /\ \A u \in Threads \ {t} : pc'[u] = pc[u] /\ topic'[u] = topic[u]
        /\ ~Inserting(t) /\ ~Inserting(t)' /\ pc'[t] \notin {"store", "use"}
    BY <1>0, <1>3 DEF Store, Use, Inserting
  <2>3. QED
    BY <2>1, <2>2, QuietStep
<1>4. ASSUME Emplace(t), topics_[name[t]] = <<>>
      PROVE  OwnershipInv'
  <2>1. RegistryTypes'
    BY <1>0, <1>4 DEF Emplace, Obtain, PCs
  <2>2. /\ UNCHANGED <<topics_, alive, topic>>
        /\ \A u \in Threads \ {t} : pc'[u] = pc[u] /\ topic'[u] = topic[u]
        /\ Inserting(t) /\ Inserting(t)' /\ pc'[t] \notin {"store", "use"}
    BY <1>0, <1>4 DEF Emplace, Obtain, Inserting
  <2>3. QED
    BY <2>1, <2>2, QuietStep
<1>5. ASSUME NEW u \in Threads, Race(t, u)
      PROVE  OwnershipInv'
  <2>1. UNCHANGED <<pc, name, topic, topics_, alive>>
    BY <1>5 DEF Race
  <2>2. QED
    BY <2>1 DEF OwnershipInv, LinkedAlive, InsertingOwn, Inserting, UsesLinked,
                TopicsOwned, Linked
<1>6. QED
  BY <1>1, <1>2, <1>3, <1>4, <1>5

\* A topic is constructed at an address nobody holds.
LEMMA ConstructOwnership ==
    ASSUME OwnershipInv, NEW t \in Threads, Construct(t)
    PROVE  OwnershipInv'
<1>1. PICK o \in Topics \ alive : alive' = alive \cup {o} /\ Obtain(t, o, "emplace")
  BY DEF Construct
<1>2. pc[t] = "construct" /\ UNCHANGED <<name, topics_>>
  BY DEF Construct
<1>3. RegistryTypes'
  BY <1>1, <1>2 DEF OwnershipInv, RegistryTypes, Obtain, PCs
<1>4. /\ \A u \in Threads \ {t} : pc'[u] = pc[u] /\ topic'[u] = topic[u]
      /\ pc'[t] = "emplace" /\ topic'[t] = o /\ Inserting(t)' /\ ~Inserting(t)
  BY <1>1, <1>2 DEF OwnershipInv, RegistryTypes, Obtain, Inserting
<1>5. \A u \in Threads \ {t} : Inserting(u)' <=> Inserting(u)
  BY <1>4 DEF Inserting
<1>6. (\A x : Linked(x)' <=> Linked(x)) /\ ~Linked(o)
  BY <1>2 DEF Linked, OwnershipInv, LinkedAlive
<1>7. LinkedAlive'
  BY <1>1, <1>2 DEF OwnershipInv, LinkedAlive
<1>8. InsertingOwn'
  BY <1>1, <1>4, <1>5, <1>6 DEF OwnershipInv, InsertingOwn
<1>9. UsesLinked'
  BY <1>4, <1>6 DEF OwnershipInv, UsesLinked
<1>10. TopicsOwned'
  <2> SUFFICES ASSUME NEW x \in alive'
               PROVE  Linked(x) \/ \E u \in Threads : Inserting(u)' /\ topic'[u] = x
    BY <1>6 DEF TopicsOwned, Linked, Inserting
  <2>1. x = o \/ Linked(x) \/ \E u \in Threads : Inserting(u) /\ topic[u] = x
    BY <1>1 DEF OwnershipInv, TopicsOwned, Linked, Inserting
  <2>2. QED
    BY <1>4, <1>5, <2>1
<1>11. QED
  BY <1>3, <1>7, <1>8, <1>9, <1>10 DEF OwnershipInv

\* The thread that lost the race destroys its topic, which nobody else has.
LEMMA LoserOwnership ==
    ASSUME OwnershipInv, NEW t \in Threads, Emplace(t), topics_[name[t]] # <<>>
    PROVE  OwnershipInv'
<1> DEFINE o == Head(topics_[name[t]])
<1>1. /\ pc[t] = "emplace" /\ alive' = alive \ {topic[t]}
      /\ Obtain(t, o, "store") /\ UNCHANGED <<name, topics_>>
      /\ name[t] \in Names
  BY DEF Emplace, OwnershipInv, RegistryTypes
<1>2. o \in Topics /\ Linked(o)
  BY <1>1, HeadLinked DEF OwnershipInv
<1> HIDE DEF o
<1>3. RegistryTypes'
  BY <1>1, <1>2 DEF OwnershipInv, RegistryTypes, Obtain, PCs
<1>4. /\ \A u \in Threads \ {t} : pc'[u] = pc[u] /\ topic'[u] = topic[u]
      /\ pc'[t] = "store" /\ topic'[t] = o /\ ~Inserting(t)' /\ Inserting(t)
  BY <1>1 DEF OwnershipInv, RegistryTypes, Obtain, Inserting
<1>5. \A u \in Threads \ {t} : Inserting(u)' <=> Inserting(u)
  BY <1>4 DEF Inserting
<1>6. (\A x : Linked(x)' <=> Linked(x)) /\ ~Linked(topic[t])
  BY <1>1, <1>4 DEF Linked, OwnershipInv, InsertingOwn
<1>7. LinkedAlive'
  BY <1>1, <1>6 DEF OwnershipInv, LinkedAlive, Linked
<1>8. InsertingOwn'
  BY <1>1, <1>4, <1>5, <1>6 DEF OwnershipInv, InsertingOwn
<1>9. UsesLinked'
  BY <1>2, <1>4, <1>6 DEF OwnershipInv, UsesLinked
<1>10. TopicsOwned'
  <2> SUFFICES ASSUME NEW x \in alive'
               PROVE  Linked(x) \/ \E u \in Threads : Inserting(u)' /\ topic'[u] = x
    BY <1>6 DEF TopicsOwned, Linked, Inserting
  <2>1. Linked(x) \/ \E u \in Threads : Inserting(u) /\ topic[u] = x
    BY <1>1 DEF OwnershipInv, TopicsOwned, Linked, Inserting
  <2>2. x # topic[t]
    BY <1>1
  <2>3. QED
    BY <1>4, <1>5, <2>1, <2>2
<1>11. QED
  BY <1>3, <1>7, <1>8, <1>9, <1>10 DEF OwnershipInv

\* A node is linked: its topic passes from the thread to topics_.
LEMMA LinkOwnership ==
    ASSUME OwnershipInv, NEW t \in Threads, Link(t)
    PROVE  OwnershipInv'
<1> DEFINE o == topic[t]
           n == name[t]
<1>1. /\ pc[t] = "link" /\ Obtain(t, o, "store") /\ UNCHANGED <<name, alive>>
      /\ topics_' = [topics_ EXCEPT ![n] = <<o>> \o @]
      /\ n \in Names
  BY DEF Link, OwnershipInv, RegistryTypes
<1>2. o \in alive /\ o \in Topics /\ ~Linked(o)
  BY <1>1 DEF OwnershipInv, RegistryTypes, InsertingOwn, Inserting
<1>3. /\ <<o>> \o topics_[n] \in Seq(Topics)
      /\ Range(<<o>> \o topics_[n]) = {o} \cup Range(topics_[n])
  BY <1>1, <1>2, LinkRange DEF OwnershipInv, RegistryTypes
<1>4. /\ topics_' \in [Names -> Seq(Topics)]
      /\ Range(topics_'[n]) = {o} \cup Range(topics_[n])
      /\ \A x \in Names \ {n} : topics_'[x] = topics_[x]
  BY <1>1, <1>3 DEF OwnershipInv, RegistryTypes
<1> HIDE DEF o, n
<1>5. \A x : Linked(x)' <=> Linked(x) \/ x = o
  BY <1>1, <1>4 DEF Linked
<1>6. RegistryTypes'
  BY <1>1, <1>2, <1>4 DEF OwnershipInv, RegistryTypes, Obtain, PCs
<1>7. /\ \A u \in Threads \ {t} : pc'[u] = pc[u] /\ topic'[u] = topic[u]
      /\ pc'[t] = "store" /\ topic'[t] = o /\ ~Inserting(t)' /\ Inserting(t)
  BY <1>1 DEF OwnershipInv, RegistryTypes, Obtain, Inserting
<1>8. \A u \in Threads \ {t} : Inserting(u)' <=> Inserting(u)
  BY <1>7 DEF Inserting
<1>9. LinkedAlive'
  BY <1>1, <1>2, <1>4 DEF OwnershipInv, LinkedAlive
<1>10. InsertingOwn'
  BY <1>1, <1>5, <1>7, <1>8 DEF OwnershipInv, InsertingOwn, o
<1>11. UsesLinked'
  BY <1>5, <1>7 DEF OwnershipInv, UsesLinked
<1>12. TopicsOwned'
  <2> SUFFICES ASSUME NEW x \in alive
               PROVE  Linked(x)' \/ \E u \in Threads : Inserting(u)' /\ topic'[u] = x
    BY <1>1 DEF TopicsOwned, Linked, Inserting
  <2>1. Linked(x) \/ \E u \in Threads : Inserting(u) /\ topic[u] = x
    BY <1>1 DEF OwnershipInv, TopicsOwned, Linked, Inserting
  <2>2. QED
    BY <1>5, <1>7, <1>8, <2>1 DEF o
<1>13. QED
  BY <1>6, <1>9, <1>10, <1>11, <1>12 DEF OwnershipInv

\* Every step keeps the ownership of topics.
LEMMA NextOwnership ==
    ASSUME OwnershipInv, [Next]_vars
    PROVE  OwnershipInv'
<1>1. CASE Crash
  <2>1. FreshState'
    BY <1>1 DEF Crash, Fresh, FreshState
  <2>2. (FreshState => OwnershipInv)'
    BY FreshOwnership, PTL
  <2>3. QED
    BY <2>1, <2>2
<1>2. ASSUME NEW t \in Threads, Step(t)
      PROVE  OwnershipInv'
  <2>1. CASE Construct(t)
    BY <2>1, ConstructOwnership
  <2>2. CASE Emplace(t) /\ topics_[name[t]] # <<>>
    BY <2>2, LoserOwnership
  <2>3. CASE Link(t)
    BY <2>3, LinkOwnership
  <2>4. QED
    BY <1>2, <2>1, <2>2, <2>3, QuietOwnership DEF Step
<1>3. CASE UNCHANGED vars
  BY <1>3 DEF vars, OwnershipInv, RegistryTypes, LinkedAlive, InsertingOwn, Inserting,
              UsesLinked, TopicsOwned, Linked
<1>4. QED
  BY <1>1, <1>2, <1>3 DEF Next

\* OwnershipInv is an invariant.
THEOREM Ownership == Spec => []OwnershipInv
<1>1. Init => OwnershipInv
  BY FreshOwnership DEF Init, Fresh, FreshState
<1>2. OwnershipInv /\ [Next]_vars => OwnershipInv'
  BY NextOwnership
<1>3. QED
  BY <1>1, <1>2, PTL DEF Spec

\* For any number of threads in the unlocked registry: the topic that
\* get_or_create_topic or get_topic returned is alive while a request uses it.
THEOREM ReturnedTopicsLive == Spec => []ReturnedTopicAlive
<1>1. OwnershipInv => ReturnedTopicAlive
  BY DEF OwnershipInv, UsesLinked, LinkedAlive, Linked, ReturnedTopicAlive
<1>2. QED
  BY <1>1, Ownership, PTL

\* For any number of threads in the unlocked registry: every constructed topic
\* is in topics_ or in the hands of the thread that inserts it.
THEOREM NoTopicLeaks == Spec => []TopicsOwned
<1>1. OwnershipInv => TopicsOwned
  BY DEF OwnershipInv
<1>2. QED
  BY <1>1, Ownership, PTL

-----------------------------------------------------------------------------
(* One thread and no restart: the files keep what was stored *)

\* topics_ has at most one node for a key, and no two keys share a topic.
OneNode ==
    /\ \A n \in Names : topics_[n] = <<>> \/ topics_[n] = <<Head(topics_[n])>>
    /\ \A m, n \in Names :
          topics_[m] # <<>> /\ topics_[n] # <<>> /\ Head(topics_[m]) = Head(topics_[n]) => m = n

\* A topic's stream writes at the end of its file.
AtEnd == \A n \in Names : topics_[n] # <<>> => offset[Head(topics_[n])] = Len(file[n])

\* A file is truncated only before anything was stored in it.
NotStoredYet ==
    \A n \in Names : topics_[n] = <<>> => \A r \in stored : r.name # n

\* What the only thread knows of the topic it is creating or has found.
Creating ==
    \A t \in Threads :
        /\ pc[t] \in {"construct", "emplace", "link"} => topics_[name[t]] = <<>>
        /\ Inserting(t) => offset[topic[t]] = 0 /\ file[name[t]] = <<>>
        /\ pc[t] = "store" => topics_[name[t]] = <<topic[t]>>

FileTypes ==
    /\ offset \in [Topics -> Nat]
    /\ file \in [Names -> Seq([name : Names, id : Nat] \cup {Hole})]
    /\ stored \subseteq [name : Names, id : Nat]
    /\ IsFiniteSet(stored)
    /\ crashes = 0

\* The inductive invariant.
StoredInv ==
    OwnershipInv /\ FileTypes /\ OneNode /\ AtEnd /\ NotStoredYet /\ Creating /\ WallKeepsStored

\* A record written at the end of a file is added to it.
LEMMA WriteAtEnd ==
    ASSUME NEW S, NEW f \in Seq(S), NEW r \in S
    PROVE  /\ Write(f, Len(f), r) \in Seq(S)
           /\ Len(Write(f, Len(f), r)) = Len(f) + 1
           /\ r \in Range(Write(f, Len(f), r))
           /\ Range(f) \subseteq Range(Write(f, Len(f), r))
<1> DEFINE g == Write(f, Len(f), r)
<1>1. g = [i \in 1..(Len(f) + 1) |-> IF i = Len(f) + 1 THEN r ELSE f[i]]
  BY DEF Write
<1>2. /\ g \in Seq(S) /\ Len(g) = Len(f) + 1
      /\ DOMAIN g = 1..(Len(f) + 1) /\ DOMAIN f = 1..Len(f)
      /\ g[Len(f) + 1] = r /\ \A i \in 1..Len(f) : g[i] = f[i]
  BY <1>1
<1> HIDE DEF g
<1>3. Len(f) + 1 \in DOMAIN g /\ \A i \in DOMAIN f : i \in DOMAIN g /\ g[i] = f[i]
  BY <1>2
<1>4. r \in Range(g) /\ Range(f) \subseteq Range(g)
  BY <1>2, <1>3 DEF Range
<1>5. QED
  BY <1>2, <1>4 DEF g

\* The only thread neither races nor loses a race: every step keeps StoredInv.
LEMMA NextStored ==
    ASSUME \A t, u \in Threads : t = u, MaxCrash = 0, StoredInv, [Next]_vars
    PROVE  StoredInv'
<1> USE DEF StoredInv
<1>0. OwnershipInv'
  BY NextOwnership
<1>1. ~Crash
  BY DEF Crash, FileTypes
<1>2. CASE UNCHANGED vars
  BY <1>0, <1>2 DEF vars, FileTypes, OneNode, AtEnd, NotStoredYet, Creating, Inserting,
                    WallKeepsStored
<1>3. ASSUME NEW t \in Threads, Step(t)
      PROVE  StoredInv'
  <2> USE DEF OwnershipInv, RegistryTypes, FileTypes
  <2>0. Threads = {t}
    BY <1>3
  <2>1. ASSUME \/ \E n \in Names : Request(t, n)
               \/ Use(t)
        PROVE  StoredInv'
    <3>1. UNCHANGED <<topics_, offset, file, stored, crashes>>
      BY <2>1 DEF Request, Use
    <3>2. pc'[t] \notin {"construct", "emplace", "link", "store"}
      BY <2>1 DEF Request, Use
    <3>3. Creating'
      BY <2>0, <3>2 DEF Creating, Inserting
    <3>4. QED
      BY <1>0, <3>1, <3>3 DEF OneNode, AtEnd, NotStoredYet, WallKeepsStored
  <2>2. CASE Find(t) \/ Get(t)
    <3>1. UNCHANGED <<topics_, offset, file, stored, crashes, name>> /\ name[t] \in Names
      BY <2>2 DEF Find, Get
    <3>2. \/ /\ topics_[name[t]] # <<>> /\ pc'[t] = "store"
             /\ topic'[t] = Head(topics_[name[t]])
          \/ topics_[name[t]] = <<>> /\ pc'[t] = "construct"
          \/ pc'[t] \in {"use", "idle"}
      BY <2>2 DEF Find, Get, Obtain
    <3>3. Creating'
      BY <2>0, <3>1, <3>2 DEF Creating, Inserting, OneNode
    <3>4. QED
      BY <1>0, <3>1, <3>3 DEF OneNode, AtEnd, NotStoredYet, WallKeepsStored
  <2>3. CASE Construct(t)
    <3> DEFINE n == name[t]
    <3>1. PICK o \in Topics \ alive :
            offset' = [offset EXCEPT ![o] = 0] /\ Obtain(t, o, "emplace")
      BY <2>3 DEF Construct
    <3>2. /\ n \in Names /\ topics_[n] = <<>>
          /\ file' = [file EXCEPT ![n] = <<>>]
          /\ UNCHANGED <<name, topics_, stored, crashes>>
      BY <2>3 DEF Construct, Creating
    <3>3. \A m \in Names : topics_[m] # <<>> => Head(topics_[m]) # o
      BY HeadInRange DEF LinkedAlive
    <3>4. FileTypes'
      BY <3>1, <3>2
    <3>5. AtEnd'
      BY <3>1, <3>2, <3>3, HeadInRange DEF AtEnd
    <3>6. Creating'
      BY <2>0, <3>1, <3>2 DEF Creating, Inserting, Obtain
    <3>7. WallKeepsStored'
      BY <3>2 DEF WallKeepsStored, NotStoredYet
    <3>8. QED
      BY <1>0, <3>2, <3>4, <3>5, <3>6, <3>7 DEF OneNode, NotStoredYet
  <2>4. CASE Emplace(t)
    <3>1. topics_[name[t]] = <<>>
      BY <2>4 DEF Emplace, Creating
    <3>2. UNCHANGED <<topics_, offset, file, stored, crashes, name, topic>> /\ pc'[t] = "link"
      BY <2>4, <3>1 DEF Emplace, Obtain
    <3>3. Creating'
      BY <2>0, <2>4, <3>1, <3>2 DEF Creating, Inserting, Emplace
    <3>4. QED
      BY <1>0, <3>2, <3>3 DEF OneNode, AtEnd, NotStoredYet, WallKeepsStored
  <2>5. CASE Link(t)
    <3> DEFINE n == name[t]
               o == topic[t]
    <3>1. /\ n \in Names /\ topics_[n] = <<>> /\ o \in Topics
          /\ ~Linked(o) /\ offset[o] = 0 /\ file[n] = <<>>
      BY <2>5 DEF Link, Creating, Inserting, InsertingOwn
    <3>2. /\ topics_' = [topics_ EXCEPT ![n] = <<o>>]
          /\ UNCHANGED <<offset, file, stored, crashes, name, topic>>
          /\ pc'[t] = "store"
      BY <2>5, <3>1 DEF Link, Obtain
    <3>3. \A m \in Names : topics_[m] # <<>> => Head(topics_[m]) # o
      BY <3>1, HeadInRange DEF Linked
    <3>4. Len(<<>>) = 0 /\ Head(<<o>>) = o
      OBVIOUS
    <3>5. OneNode'
      BY <3>1, <3>2, <3>3, <3>4 DEF OneNode
    <3>6. AtEnd'
      BY <3>1, <3>2, <3>4 DEF AtEnd
    <3>7. NotStoredYet'
      BY <3>1, <3>2 DEF NotStoredYet
    <3>8. Creating'
      BY <2>0, <3>1, <3>2 DEF Creating, Inserting
    <3>9. QED
      BY <1>0, <3>2, <3>5, <3>6, <3>7, <3>8 DEF WallKeepsStored
  <2>6. CASE Store(t)
    <3> DEFINE n == name[t]
               o == topic[t]
               r == [name |-> n, id |-> Cardinality(stored) + 1]
    <3>1. /\ n \in Names /\ topics_[n] = <<o>> /\ o = Head(topics_[n]) /\ o \in Topics
          /\ offset[o] = Len(file[n]) /\ topics_[n] # <<>>
      <4>1. n \in Names /\ topics_[n] = <<o>>
        BY <2>6 DEF Store, Creating
      <4>2. Head(<<o>>) = o /\ <<o>> # <<>>
        OBVIOUS
      <4>3. o \in Topics
        BY <4>1, <4>2, HeadInRange
      <4>4. QED
        BY <4>1, <4>2, <4>3 DEF AtEnd
    <3>2. r \in [name : Names, id : Nat] /\ r.name = n
      BY <3>1, FS_CardinalityType
    <3> HIDE DEF r
    <3>3. /\ file' = [file EXCEPT ![n] = Write(file[n], Len(file[n]), r)]
          /\ offset' = [offset EXCEPT ![o] = Len(file[n]) + 1]
          /\ stored' = stored \cup {r}
          /\ UNCHANGED <<topics_, name, topic, crashes>> /\ pc'[t] = "idle"
      BY <2>6, <3>1 DEF Store, r
    <3> DEFINE g == Write(file[n], Len(file[n]), r)
    <3>4. /\ g \in Seq([name : Names, id : Nat] \cup {Hole})
          /\ Len(g) = Len(file[n]) + 1
          /\ r \in Range(g) /\ Range(file[n]) \subseteq Range(g)
      <4> DEFINE S == [name : Names, id : Nat] \cup {Hole}
      <4>1. file[n] \in Seq(S) /\ r \in S
        BY <3>1, <3>2
      <4> HIDE DEF S
      <4>2. QED
        BY <4>1, WriteAtEnd DEF S
    <3> HIDE DEF g
    <3>5. FileTypes'
      <4>1. IsFiniteSet(stored')
        BY <3>3, FS_AddElement
      <4>2. QED
        BY <3>1, <3>2, <3>3, <3>4, <4>1 DEF g
    <3>6. AtEnd'
      BY <3>1, <3>3, <3>4 DEF AtEnd, OneNode, g
    <3>7. NotStoredYet'
      <4>1. \A m \in Names : topics_[m] = <<>> => m # n
        BY <3>1
      <4>2. \A m \in Names : topics_'[m] = <<>> => \A x \in stored' : x.name # m
        BY <3>2, <3>3, <4>1 DEF NotStoredYet
      <4>3. QED
        BY <4>2 DEF NotStoredYet
    <3>8. Creating'
      BY <2>0, <3>3 DEF Creating, Inserting
    <3>9. WallKeepsStored'
      BY <3>1, <3>2, <3>3, <3>4 DEF WallKeepsStored, g
    <3>10. QED
      BY <1>0, <3>3, <3>5, <3>6, <3>7, <3>8, <3>9 DEF OneNode
  <2>7. ~\E u \in Threads : Race(t, u)
    BY DEF Race
  <2>8. QED
    BY <1>3, <2>1, <2>2, <2>3, <2>4, <2>5, <2>6, <2>7 DEF Step
<1>4. QED
  BY <1>1, <1>2, <1>3 DEF Next

\* If one thread runs all sessions and the broker is never restarted, the file
\* of a topic keeps every record that store() has written: the races of the
\* unlocked registry and the truncation at a restart are the only ways to lose
\* one.
THEOREM OneThreadKeepsStored ==
    ASSUME \A t, u \in Threads : t = u, MaxCrash = 0
    PROVE  Spec => []WallKeepsStored
<1>1. Init => StoredInv
  <2> SUFFICES ASSUME Init PROVE StoredInv
    OBVIOUS
  <2>1. OwnershipInv
    BY FreshOwnership DEF Init, Fresh, FreshState
  <2>2. FileTypes
    BY FS_EmptySet DEF Init, Fresh, FileTypes
  <2>3. QED
    BY <2>1, <2>2 DEF Init, Fresh, StoredInv, OneNode, AtEnd, NotStoredYet, Creating,
                      Inserting, WallKeepsStored
<1>2. StoredInv /\ [Next]_vars => StoredInv'
  BY NextStored
<1>3. StoredInv => WallKeepsStored
  BY DEF StoredInv
<1>4. QED
  BY <1>1, <1>2, <1>3, PTL DEF Spec

=============================================================================

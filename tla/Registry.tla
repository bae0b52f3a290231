------------------------------ MODULE Registry ------------------------------
(***************************************************************************)
(* topic_registry_t (src/rpc/rpc-session.h), the creation of topics and    *)
(* their log files (src/wall/wall-writer.h).                               *)
(*                                                                         *)
(* get_or_create_topic and get_topic begin with                            *)
(*     auto lock = mutex_.lock();                                          *)
(* which builds a coroutine and never runs it, so nothing is locked: the   *)
(* threads that run sessions enter topics_ together.  A find is one step;  *)
(* an emplace looks the key up and then links its node.  Two threads       *)
(* inside topics_, one of them linking, are a data race, whose outcomes    *)
(* are any interleaving of the steps and the end of the process.           *)
(*                                                                         *)
(* A topic's file is opened with ios::out: it is truncated, and the stream *)
(* writes at an offset of its own, which begins at 0.  A file is a         *)
(* sequence of records; what lies before a record that was written beyond  *)
(* the end is a Hole.                                                      *)
(***************************************************************************)
EXTENDS Naturals, Sequences, FiniteSets, Functions

CONSTANTS Threads,
          Names,      \* topic names
          Topics,     \* addresses of topic objects, as many as can be in use
          MaxStore,   \* bound on the records of a behaviour
          MaxCrash,   \* bound on the restarts of a behaviour
          Hole, NoTopic, NoName

ASSUME RegistryAssumption ==
    /\ MaxStore \in Nat /\ MaxCrash \in Nat
    /\ NoTopic \notin Topics /\ NoName \notin Names

VARIABLES pc,
          name,       \* name[t]: the topic named by the request t handles
          topic,      \* topic[t]: the topic t has found or constructed
          topics_,    \* topics_[n]: the nodes of key n, the last linked one first
          alive,      \* the constructed topics
          offset,     \* offset[o]: where topic o's stream writes next
          file,       \* file[n]: what is in the file /tmp/n
          stored,     \* history: the records store() has written
          died,       \* a data race ended the process
          stores, crashes

vars == <<pc, name, topic, topics_, alive, offset, file, stored, died, stores, crashes>>

Record == [name : Names, id : 1..MaxStore]

PCs == {"idle", "create", "construct", "emplace", "link", "store", "get", "use"}

TypeOK ==
    /\ pc \in [Threads -> PCs]
    /\ name \in [Threads -> Names \cup {NoName}]
    /\ topic \in [Threads -> Topics \cup {NoTopic}]
    /\ topics_ \in [Names -> Seq(Topics)]
    /\ alive \subseteq Topics
    /\ offset \in [Topics -> Nat]
    /\ file \in [Names -> Seq(Record \cup {Hole})]
    /\ stored \subseteq Record
    /\ died \in BOOLEAN
    /\ stores \in 0..MaxStore /\ crashes \in 0..MaxCrash

\* A process that has just started: no request, no topic.
Fresh(p, n, o, ts, a, off) ==
    /\ p = [t \in Threads |-> "idle"]
    /\ n = [t \in Threads |-> NoName]
    /\ o = [t \in Threads |-> NoTopic]
    /\ ts = [x \in Names |-> <<>>]
    /\ a = {}
    /\ off = [x \in Topics |-> 0]

Init ==
    /\ Fresh(pc, name, topic, topics_, alive, offset)
    /\ file = [n \in Names |-> <<>>]
    /\ stored = {}
    /\ died = FALSE
    /\ stores = 0 /\ crashes = 0

-----------------------------------------------------------------------------
(* get_or_create_topic and get_topic *)

\* Thread t takes up a PUSH (handle_push), or a PULL or DELETE, for topic n.
Request(t, n) ==
    /\ pc[t] = "idle"
    /\ name' = [name EXCEPT ![t] = n]
    /\ \/ /\ stores < MaxStore
          /\ stores' = stores + 1
          /\ pc' = [pc EXCEPT ![t] = "create"]
       \/ /\ pc' = [pc EXCEPT ![t] = "get"]
          /\ UNCHANGED stores
    /\ UNCHANGED <<topic, topics_, alive, offset, file, stored, died, crashes>>

\* t has the topic o and goes on at point.
Obtain(t, o, point) ==
    /\ topic' = [topic EXCEPT ![t] = o]
    /\ pc' = [pc EXCEPT ![t] = point]

\* get_topic: a null pointer ends the request.  A DELETE that finds its message
\* will store a record of the removal; a PULL, or a DELETE that does not, will
\* only look.
Get(t) ==
    LET nodes == topics_[name[t]]
    IN  /\ pc[t] = "get"
        /\ \/ nodes # <<>> /\ Obtain(t, Head(nodes), "use") /\ UNCHANGED stores
           \/ /\ nodes # <<>> /\ stores < MaxStore
              /\ stores' = stores + 1
              /\ Obtain(t, Head(nodes), "store")
           \/ nodes = <<>> /\ Obtain(t, NoTopic, "idle") /\ UNCHANGED stores
        /\ UNCHANGED <<name, topics_, alive, offset, file, stored, died, crashes>>

\* get_or_create_topic, up to the result of find.
Find(t) ==
    LET nodes == topics_[name[t]]
    IN  /\ pc[t] = "create"
        /\ \/ nodes # <<>> /\ Obtain(t, Head(nodes), "store")
           \/ nodes = <<>> /\ Obtain(t, NoTopic, "construct")
        /\ UNCHANGED <<name, topics_, alive, offset, file, stored, died, stores, crashes>>

\* make_unique<topic_type_t>: the argument of emplace is built first, and
\* with it the wall_writer_t, which truncates the file.
Construct(t) ==
    /\ pc[t] = "construct"
    /\ \E o \in Topics \ alive :
          /\ alive' = alive \cup {o}
          /\ offset' = [offset EXCEPT ![o] = 0]
          /\ Obtain(t, o, "emplace")
    /\ file' = [file EXCEPT ![name[t]] = <<>>]
    /\ UNCHANGED <<name, topics_, stored, died, stores, crashes>>

EmplaceKeepsOwn(t) ==
    LET nodes == topics_[name[t]]
    IN  /\ pc[t] = "emplace"
        /\ \/ /\ nodes # <<>>
              /\ alive' = alive \ {topic[t]}
              /\ Obtain(t, topic[t], "store")
           \/ /\ nodes = <<>>
              /\ Obtain(t, topic[t], "link")
              /\ UNCHANGED alive
        /\ UNCHANGED <<name, topics_, offset, file, stored, died, stores, crashes>>

EmplaceLeaks(t) ==
    LET nodes == topics_[name[t]]
    IN  /\ pc[t] = "emplace"
        /\ \/ nodes # <<>> /\ Obtain(t, Head(nodes), "store")
           \/ nodes = <<>> /\ Obtain(t, topic[t], "link")
        /\ UNCHANGED <<name, topics_, alive, offset, file, stored, died, stores, crashes>>

\* emplace looks the key up.  If somebody has inserted it meanwhile, the new
\* topic is destroyed and the old one returned.
Emplace(t) ==
    LET nodes == topics_[name[t]]
    IN  /\ pc[t] = "emplace"
        /\ \/ /\ nodes # <<>>
              /\ alive' = alive \ {topic[t]}
              /\ Obtain(t, Head(nodes), "store")
           \/ /\ nodes = <<>>
              /\ Obtain(t, topic[t], "link")
              /\ UNCHANGED alive
        /\ UNCHANGED <<name, topics_, offset, file, stored, died, stores, crashes>>

\* emplace links its node, in front of a node of the same key that another
\* thread has linked since.
Link(t) ==
    /\ pc[t] = "link"
    /\ topics_' = [topics_ EXCEPT ![name[t]] = <<topic[t]>> \o @]
    /\ Obtain(t, topic[t], "store")
    /\ UNCHANGED <<name, alive, offset, file, stored, died, stores, crashes>>

\* The data race on topics_.
Race(t, u) ==
    /\ t # u
    /\ pc[t] = "link" /\ pc[u] \in {"create", "get", "emplace", "link"}
    /\ died' = TRUE
    /\ UNCHANGED <<pc, name, topic, topics_, alive, offset, file, stored, stores, crashes>>

-----------------------------------------------------------------------------
(* Using a topic *)

\* File f with record r written at offset off.
Write(f, off, r) ==
    [i \in 1..(IF Len(f) > off THEN Len(f) ELSE off + 1) |->
        IF i = off + 1 THEN r ELSE IF i <= Len(f) THEN f[i] ELSE Hole]

\* topic->push and topic->remove: store() writes and flushes the record.
Store(t) ==
    LET n == name[t]
        o == topic[t]
        r == [name |-> n, id |-> Cardinality(stored) + 1]
    IN  /\ pc[t] = "store"
        /\ file' = [file EXCEPT ![n] = Write(@, offset[o], r)]
        /\ offset' = [offset EXCEPT ![o] = @ + 1]
        /\ stored' = stored \cup {r}
        /\ pc' = [pc EXCEPT ![t] = "idle"]
        /\ UNCHANGED <<name, topic, topics_, alive, died, stores, crashes>>

\* topic->read, and topic->remove where the message is not the one to remove.
Use(t) ==
    /\ pc[t] = "use"
    /\ pc' = [pc EXCEPT ![t] = "idle"]
    /\ UNCHANGED <<name, topic, topics_, alive, offset, file, stored, died, stores, crashes>>

\* The broker dies and is started again.  Nothing reads the files.
Crash ==
    /\ crashes < MaxCrash
    /\ crashes' = crashes + 1
    /\ Fresh(pc', name', topic', topics_', alive', offset')
    /\ died' = FALSE
    /\ UNCHANGED <<file, stored, stores>>

Step(t) ==
    \/ \E n \in Names : Request(t, n)
    \/ Get(t) \/ Find(t) \/ Construct(t) \/ Emplace(t) \/ Link(t)
    \/ \E u \in Threads : Race(t, u)
    \/ Store(t) \/ Use(t)

Next == Crash \/ (~died /\ \E t \in Threads : Step(t))

Spec == Init /\ [][Next]_vars

-----------------------------------------------------------------------------
(* Properties *)

\* The topic that get_or_create_topic or get_topic returns is not destroyed
\* while a request uses it, although threads that lose the race to insert a
\* topic destroy theirs.
ReturnedTopicAlive == \A t \in Threads : pc[t] \in {"store", "use"} => topic[t] \in alive

\* Every constructed topic is reachable in topics_, or a thread is about to
\* insert it: the threads that lose the race leave no topic behind.
TopicsOwned ==
    \A o \in alive :
        \/ \E n \in Names : o \in Range(topics_[n])
        \/ \E t \in Threads : pc[t] \in {"emplace", "link"} /\ topic[t] = o

\* What store() has written stays in the topic's file: it is there to
\* recover from.
WallKeepsStored == \A r \in stored : r \in Range(file[r.name])
=============================================================================

--------------------------- MODULE AlgorithmProofs ---------------------------
(***************************************************************************)
(* Theorems about the sequential algorithms that Algorithms puts side by  *)
(* side, for all their inputs.                                              *)
(***************************************************************************)
EXTENDS Algorithms, SequenceFacts

Ruleset == INSTANCE RulesetProofs

-----------------------------------------------------------------------------
(* The algorithms side by side. *)

\* Every step is one of the algorithm a behaviour is about, or changes nothing.
LEMMA StepOfSubject ==
  ASSUME [AnyStep]_all
  PROVE  /\ subject' = subject
         /\ subject = "template" => [Template!Next]_(Template!vars)
         /\ subject = "groups" => [Groups!Next]_(Groups!vars)
         /\ subject = "private" => [Private!Next]_(Private!vars)
         /\ subject = "collect" => [Collect!Next]_(Collect!vars)
         /\ subject = "mrs" => [Mrs!Next]_(Mrs!vars)
<1>1. CASE UNCHANGED all
  <2>1. /\ subject' = subject /\ nodes' = nodes /\ phase' = phase /\ outcome' = outcome
        /\ UNCHANGED ofTemplate /\ UNCHANGED ofGroups /\ UNCHANGED ofPrivate
        /\ UNCHANGED ofCollect /\ UNCHANGED ofMrs
    BY <1>1 DEF all
  <2>2. UNCHANGED Template!vars
    BY <2>1 DEF ofTemplate, Template!vars
  <2>3. UNCHANGED Groups!vars
    BY <2>1 DEF ofGroups, Groups!vars
  <2>4. UNCHANGED Private!vars
    BY <2>1 DEF ofPrivate, Private!vars
  <2>5. UNCHANGED Collect!vars
    BY <2>1 DEF ofCollect, Collect!vars
  <2>6. UNCHANGED Mrs!vars
    BY <2>1 DEF ofMrs, Mrs!vars, Mrs!trie, Mrs!ranges
  <2> QED
    BY <2>1, <2>2, <2>3, <2>4, <2>5, <2>6
<1>2. CASE AnyStep
  BY <1>2 DEF AnyStep, NamesStep, ChainStep, GroupsStep, TemplateStep, PrivateStep, CollectStep,
              MrsStep
<1> QED
  BY <1>1, <1>2

-----------------------------------------------------------------------------
(* NodeNames: names are distinct and their numbers have no gaps.  The names *)
(* in use are those given, and the numbers below the counter of a name are  *)
(* taken.                                                                   *)

\* The types of what naming reads and writes.
NamesTyped ==
    /\ nodes \in Seq([kind : Kinds, name : Names])
    /\ prefix \in BOOLEAN
    /\ names \in Seq(Seq(Nat))
    /\ used \subseteq Seq(Nat)
    /\ DOMAIN next \subseteq Seq(Nat)
    /\ \A name \in DOMAIN next : next[name] \in Nat /\ next[name] >= 2

UsedAreNames == used = {names[i] : i \in DOMAIN names}

\* Every number below the counter of a name was tried, and is taken.
TriedAreTaken ==
    \A name \in Seq(Nat) : \A m \in 2 .. Counter(name) - 1 : Append(name, m) \in used

NamingInv == NamesTyped /\ UsedAreNames /\ TriedAreTaken /\ NamesDistinct /\ NumbersHaveNoGaps

\* The name a proxy asks for is a sequence of numbers.
LEMMA WantedType ==
  ASSUME NamesTyped, NEW i \in Positions
  PROVE  Wanted(i) \in Seq(Nat)
<1>1. nodes[i].name \in Seq(Words) /\ nodes[i].kind \in Kinds
  <2>1. nodes[i] \in [kind : Kinds, name : Names]
    BY ElementOfSeq DEF NamesTyped, Positions
  <2> QED
    BY <2>1, NamesAssumption
<1>2. <<Label[nodes[i].kind]>> \in Seq(Words)
  BY <1>1, NamesAssumption
<1>3. <<Label[nodes[i].kind]>> \o nodes[i].name \in Seq(Words)
  BY <1>1, <1>2
<1>4. \A name \in Seq(Words) : [k \in DOMAIN name |-> Dash[name[k]]] \in Seq(Nat)
  <2> TAKE name \in Seq(Words)
  <2>1. DOMAIN name = 1 .. Len(name) /\ Len(name) \in Nat
    OBVIOUS
  <2>2. \A k \in 1 .. Len(name) : Dash[name[k]] \in Nat
    <3> TAKE k \in 1 .. Len(name)
    <3>1. name[k] \in Words
      BY ElementOfSeq
    <3> QED
      BY <3>1, NamesAssumption
  <2>3. [k \in 1 .. Len(name) |-> Dash[name[k]]] \in [1 .. Len(name) -> Nat]
    BY <2>2
  <2> QED
    BY <2>1, <2>3
<1> QED
  BY <1>1, <1>3, <1>4 DEF Wanted

\* The counter of a name is a number from two on.
LEMMA CounterType ==
  ASSUME NamesTyped, NEW name \in Seq(Nat)
  PROVE  Counter(name) \in Nat /\ Counter(name) >= 2
  BY DEF NamesTyped, Counter

\* Giving a proxy a name that is free keeps names distinct and the names in use
\* those given.
LEMMA NameStep ==
  ASSUME NamingInv, NEW name \in Seq(Nat), name \notin used, Name(name)
  PROVE  /\ names' \in Seq(Seq(Nat))
         /\ used' \subseteq Seq(Nat)
         /\ UsedAreNames'
         /\ NamesDistinct'
<1> USE DEF NamingInv, NamesTyped, Name
<1>1. names' \in Seq(Seq(Nat)) /\ Len(names') = Len(names) + 1
  OBVIOUS
<1>2. /\ \A i \in 1 .. Len(names) : names'[i] = names[i]
      /\ names'[Len(names) + 1] = name
  OBVIOUS
<1>3. DOMAIN names = 1 .. Len(names) /\ DOMAIN names' = 1 .. Len(names) + 1
  BY <1>1
<1>4. UsedAreNames'
  <2>1. used' = used \cup {name}
    OBVIOUS
  <2>2. used = {names[i] : i \in 1 .. Len(names)}
    BY <1>3 DEF UsedAreNames
  <2>3. {names'[i] : i \in 1 .. Len(names) + 1} = {names[i] : i \in 1 .. Len(names)} \cup {name}
    BY <1>2
  <2> QED
    BY <1>3, <2>1, <2>2, <2>3 DEF UsedAreNames
<1>5. NamesDistinct'
  BY <1>1, <1>2, <1>3 DEF NamesDistinct, UsedAreNames
<1> QED
  BY <1>1, <1>4, <1>5

\* The earlier names are those in use.
LEMMA EarlierAreUsed ==
  ASSUME NamingInv
  PROVE  Earlier(Current) = used
  BY DEF NamingInv, NamesTyped, Earlier, Current, UsedAreNames

\* A step that appends a name keeps the numbers of the others.
LEMMA GapsStep ==
  ASSUME NamingInv, NEW name \in Seq(Nat), Name(name),
         \/ name = Wanted(Current)
         \/ /\ Wanted(Current) \in used
            /\ name = Append(Wanted(Current), Last(name))
            /\ Last(name) >= 2
            /\ \A m \in 2 .. Last(name) - 1 : Append(Wanted(Current), m) \in used
  PROVE  NumbersHaveNoGaps'
<1> SUFFICES ASSUME NEW i \in DOMAIN names', names'[i] # Wanted(i)
             PROVE  /\ Wanted(i) \in Earlier(i)'
                    /\ names'[i] = Append(Wanted(i), Last(names'[i]))
                    /\ Last(names'[i]) >= 2
                    /\ \A m \in 2 .. Last(names'[i]) - 1 : Append(Wanted(i), m) \in Earlier(i)'
  <2>1. \A i : Wanted(i)' = Wanted(i)
    BY DEF Name, Wanted
  <2> QED
    BY <2>1 DEF NumbersHaveNoGaps, Last
<1> USE DEF NamingInv, NamesTyped, Name
<1>1. DOMAIN names' = 1 .. Len(names) + 1 /\ DOMAIN names = 1 .. Len(names)
  OBVIOUS
<1>2. /\ \A j \in 1 .. Len(names) : names'[j] = names[j]
      /\ names'[Len(names) + 1] = name
  OBVIOUS
<1>3. Earlier(i)' = Earlier(i)
  BY <1>1, <1>2 DEF Earlier
<1>4. CASE i \in DOMAIN names
  <2>1. names'[i] = names[i]
    BY <1>1, <1>2, <1>4
  <2> QED
    BY <1>3, <1>4, <2>1 DEF NumbersHaveNoGaps
<1>5. CASE i = Current
  <2>1. names'[i] = name
    BY <1>2, <1>5 DEF Current
  <2> QED
    BY <1>3, <1>5, <2>1, EarlierAreUsed
<1> QED
  BY <1>1, <1>4, <1>5 DEF Current

\* A step that gives no name keeps the numbers.
LEMMA GapsKept ==
  ASSUME NumbersHaveNoGaps, UNCHANGED <<nodes, prefix, names>>
  PROVE  NumbersHaveNoGaps'
<1>1. \A i : Wanted(i)' = Wanted(i) /\ Earlier(i)' = Earlier(i)
  BY DEF Wanted, Earlier
<1> QED
  BY <1>1 DEF NumbersHaveNoGaps, Last

\* Counting a number whose name is taken keeps the counters below taken names.
LEMMA CountedStep ==
  ASSUME NamingInv, NEW name \in Seq(Nat), NEW taken, used \subseteq taken,
         Append(name, Counter(name)) \in taken,
         next' = Counted(name, Counter(name) + 1), used' = taken
  PROVE  /\ TriedAreTaken'
         /\ (DOMAIN next)' \subseteq Seq(Nat)
         /\ \A n \in (DOMAIN next)' : next'[n] \in Nat /\ next'[n] >= 2
<1> USE DEF NamingInv
<1>1. Counter(name) \in Nat /\ Counter(name) >= 2
  BY CounterType
<1>2. /\ (DOMAIN next)' = DOMAIN next \cup {name}
      /\ next'[name] = Counter(name) + 1
      /\ \A n \in DOMAIN next \ {name} : next'[n] = next[n]
  BY DEF Counted
<1>3. \A n \in Seq(Nat) : Counter(n)' = IF n = name THEN Counter(name) + 1 ELSE Counter(n)
  BY <1>2 DEF Counter
<1>4. TriedAreTaken'
  <2> SUFFICES ASSUME NEW n \in Seq(Nat), NEW m \in 2 .. Counter(n)' - 1
               PROVE  Append(n, m) \in taken
    BY DEF TriedAreTaken
  <2>1. CASE n = name
    <3>1. m \in 2 .. Counter(name) - 1 \/ m = Counter(name)
      BY <1>1, <1>3, <2>1
    <3> QED
      BY <2>1, <3>1 DEF TriedAreTaken
  <2>2. CASE n # name
    BY <1>3, <2>2 DEF TriedAreTaken
  <2> QED
    BY <2>1, <2>2
<1>5. ASSUME NEW n \in (DOMAIN next)'
      PROVE  next'[n] \in Nat /\ next'[n] >= 2
  <2>1. CASE n = name
    BY <1>1, <1>2, <2>1
  <2>2. CASE n # name
    <3>1. n \in DOMAIN next /\ next'[n] = next[n]
      BY <1>2, <1>5, <2>2
    <3> QED
      BY <3>1 DEF NamesTyped
  <2> QED
    BY <2>1, <2>2
<1>6. (DOMAIN next)' \subseteq Seq(Nat)
  BY <1>2 DEF NamesTyped
<1> QED
  BY <1>4, <1>5, <1>6

\* Before the first name nothing is taken.
LEMMA NamingInit == Init => NamingInv
<1> SUFFICES ASSUME Init PROVE NamingInv
  OBVIOUS
<1>1. nodes \in Seq([kind : Kinds, name : Names])
  <2>1. PICK n \in 0 .. MaxNodes : nodes \in [1 .. n -> [kind : Kinds, name : Names]]
    BY DEF Init
  <2>2. n \in Nat
    BY NamesAssumption
  <2> DEFINE S == [kind : Kinds, name : Names]
  <2>3. nodes \in [1 .. n -> S]
    BY <2>1
  <2> HIDE DEF S
  <2>4. nodes \in Seq(S)
    BY <2>2, <2>3
  <2> QED
    BY <2>4 DEF S
<1>2. names = <<>> /\ used = {} /\ next = <<>> /\ prefix \in BOOLEAN
  BY DEF Init
<1>3. \A name : Counter(name) = 2
  BY <1>2 DEF Counter
<1> QED
  BY <1>1, <1>2, <1>3 DEF NamingInv, NamesTyped, UsedAreNames, TriedAreTaken, NamesDistinct,
     NumbersHaveNoGaps

\* Every step keeps the invariant.
LEMMA NamingStep == NamingInv /\ [Next]_vars => NamingInv'
<1> SUFFICES ASSUME NamingInv, [Next]_vars
             PROVE  NamingInv'
  OBVIOUS
<1> DEFINE base == Wanted(Current)
<1>0. Current \in Positions => base \in Seq(Nat)
  BY WantedType DEF NamingInv
<1>1. CASE Keep
  <2>1. /\ base \in Seq(Nat) /\ base \notin used /\ Name(base)
        /\ next' = next /\ used \subseteq used'
    BY <1>0, <1>1 DEF Keep, Name
  <2>2. /\ names' \in Seq(Seq(Nat)) /\ used' \subseteq Seq(Nat)
        /\ UsedAreNames' /\ NamesDistinct'
    BY <2>1, NameStep
  <2>3. NumbersHaveNoGaps'
    BY <2>1, GapsStep
  <2>4. TriedAreTaken'
    BY <2>1 DEF NamingInv, TriedAreTaken, Counter
  <2>5. NamesTyped'
    BY <2>1, <2>2 DEF NamingInv, NamesTyped, Name
  <2> QED
    BY <2>2, <2>3, <2>4, <2>5 DEF NamingInv
<1>2. CASE Suffix
  <2> DEFINE name == Candidate(base)
  <2>1. /\ base \in Seq(Nat) /\ base \in used /\ name \notin used /\ Name(name)
        /\ next' = Counted(base, Counter(base) + 1)
    BY <1>0, <1>2 DEF Suffix
  <2>2. Counter(base) \in Nat /\ Counter(base) >= 2
    BY <2>1, CounterType DEF NamingInv
  <2>3. name \in Seq(Nat) /\ name = Append(base, Counter(base)) /\ Last(name) = Counter(base)
    BY <2>1, <2>2 DEF Candidate, Last
  <2>4. /\ names' \in Seq(Seq(Nat)) /\ used' \subseteq Seq(Nat)
        /\ UsedAreNames' /\ NamesDistinct'
    BY <2>1, <2>3, NameStep
  <2>5. NumbersHaveNoGaps'
    <3>1. \A m \in 2 .. Last(name) - 1 : Append(base, m) \in used
      BY <2>1, <2>3 DEF NamingInv, TriedAreTaken
    <3>2. name = Append(base, Last(name)) /\ Last(name) >= 2
      BY <2>2, <2>3
    <3> QED
      BY <2>1, <2>3, <3>1, <3>2, GapsStep
  <2>6. /\ TriedAreTaken'
        /\ (DOMAIN next)' \subseteq Seq(Nat)
        /\ \A n \in (DOMAIN next)' : next'[n] \in Nat /\ next'[n] >= 2
    <3>1. used \subseteq used' /\ name \in used'
      BY <2>1 DEF Name
    <3> HIDE DEF base
    <3> QED
      BY <2>1, <2>3, <3>1, CountedStep
  <2>7. NamesTyped'
    BY <2>1, <2>4, <2>6 DEF NamingInv, NamesTyped, Name
  <2> QED
    BY <2>4, <2>5, <2>6, <2>7 DEF NamingInv
<1>3. CASE Count
  <2>1. /\ base \in Seq(Nat) /\ Append(base, Counter(base)) \in used
        /\ next' = Counted(base, Counter(base) + 1)
        /\ UNCHANGED <<nodes, prefix, names, used>>
    BY <1>0, <1>3 DEF Count, Candidate
  <2>2. /\ TriedAreTaken'
        /\ (DOMAIN next)' \subseteq Seq(Nat)
        /\ \A n \in (DOMAIN next)' : next'[n] \in Nat /\ next'[n] >= 2
    <3> HIDE DEF base
    <3> QED
      BY <2>1, CountedStep
  <2>3. NamesTyped' /\ UsedAreNames' /\ NamesDistinct'
    BY <2>1, <2>2 DEF NamingInv, NamesTyped, UsedAreNames, NamesDistinct
  <2>4. NumbersHaveNoGaps'
    BY <2>1, GapsKept DEF NamingInv
  <2> QED
    BY <2>2, <2>3, <2>4 DEF NamingInv
<1>4. CASE UNCHANGED <<nodes, prefix, names, used, next>>
  <2>1. NumbersHaveNoGaps'
    BY <1>4, GapsKept DEF NamingInv
  <2> QED
    BY <1>4, <2>1 DEF NamingInv, NamesTyped, UsedAreNames, TriedAreTaken, Counter, NamesDistinct
<1> QED
  BY <1>1, <1>2, <1>3, <1>4 DEF Next, Export, Exported, vars

\* The invariant holds in every state.
LEMMA NamingInvariant == Spec => []NamingInv
  BY NamingInit, NamingStep, PTL DEF Spec

\* No two proxies are exported under one name, whatever names the subscriptions
\* use.
THEOREM NamesAreDistinct == Spec => []NamesDistinct
<1>1. NamingInv => NamesDistinct
  BY DEF NamingInv
<1> QED
  BY <1>1, NamingInvariant, PTL

\* A proxy keeps its name unless an earlier one has it, and gets the first free
\* number otherwise.
THEOREM NumbersWithoutGaps == Spec => []NumbersHaveNoGaps
<1>1. NamingInv => NumbersHaveNoGaps
  BY DEF NamingInv
<1> QED
  BY <1>1, NamingInvariant, PTL

-----------------------------------------------------------------------------
(* TemplateVariables: the object holds what was inserted and the defaults, *)
(* which a compatible variable leaves alone.                               *)

\* A path is below each of the paths above it.
LEMMA AboveIsBelow ==
  ASSUME NEW S, NEW path \in Seq(S), NEW up \in Template!Above(path)
  PROVE  Template!IsBelow(path, up)
<1>1. PICK k \in 1 .. Len(path) - 1 : up = SubSeq(path, 1, k)
  BY DEF Template!Above
<1>2. Len(path) \in Nat /\ k \in Nat /\ k < Len(path) /\ \A i \in 1 .. k : path[i] \in S
  BY <1>1
<1>3. Len(SubSeq(path, 1, k)) = k
  BY <1>2, SubSeqProperties
<1> QED
  BY <1>1, <1>2, <1>3 DEF Template!IsBelow

\* The object holds the variables inserted so far and the other defaults, and
\* apart from them only the objects on their paths.
Holds(object, done) ==
    /\ done \cup DOMAIN Template!Defaults \subseteq DOMAIN object
    /\ \A path \in DOMAIN object :
          object[path] = IF path \in done THEN request[path]
                         ELSE IF path \in DOMAIN Template!Defaults THEN Template!Defaults[path]
                         ELSE Template!Nested

\* Whatever the order: a compatible request is inserted without a panic.
TemplateInv ==
    /\ request \in Requests
    /\ pending \subseteq DOMAIN request
    /\ Template!Compatible =>
          /\ Holds(requestObject, DOMAIN request \ pending)
          /\ outcome \in {"globals", "rendered", "panic"} => pending = {}

\* A compatible variable finds no value in its way.
LEMMA NotBlocked ==
  ASSUME Template!TemplateAssumption, TemplateInv, Template!Compatible, NEW path \in pending
  PROVE  ~Template!Blocked(requestObject, path)
<1> SUFFICES ASSUME NEW up \in Template!Above(path), up \in DOMAIN requestObject,
                    requestObject[up] # Template!Nested
             PROVE  FALSE
  BY DEF Template!Blocked
<1>1. path \in DOMAIN request /\ path \in Seq(STRING)
  BY DEF TemplateInv, Template!TemplateAssumption
<1>2. Template!IsBelow(path, up)
  BY <1>1, AboveIsBelow
<1>3. \/ up \in DOMAIN request
      \/ up \in DOMAIN Template!Defaults /\ Template!Defaults[up] # Template!Nested
  BY DEF TemplateInv, Holds
<1> QED
  BY <1>1, <1>2, <1>3 DEF Template!Compatible

\* Inserting a compatible variable leaves the others and the defaults alone.
LEMMA InsertHolds ==
  ASSUME TemplateInv, Template!Compatible, NEW path \in pending
  PROVE  Holds(Template!InsertDotted(requestObject, path, request[path]),
               DOMAIN request \ (pending \ {path}))
<1> DEFINE done == DOMAIN request \ pending
           kept == {p \in DOMAIN requestObject : ~Template!IsBelow(p, path)}
           object == Template!InsertDotted(requestObject, path, request[path])
<1>1. path \in DOMAIN request /\ DOMAIN request \ (pending \ {path}) = done \cup {path}
  BY DEF TemplateInv
<1>2. Holds(requestObject, done)
  BY DEF TemplateInv
<1>3. \A other \in done \cup DOMAIN Template!Defaults : other \in kept
  BY <1>1, <1>2 DEF Holds, Template!Compatible
<1>4. object = [p \in kept \cup Template!Above(path) \cup {path} |->
                  IF p = path THEN request[path]
                  ELSE IF p \in kept THEN requestObject[p] ELSE Template!Nested]
  BY DEF Template!InsertDotted
<1> HIDE DEF object, done
<1>5. \A p \in kept : requestObject[p] = IF p \in done THEN request[p]
                         ELSE IF p \in DOMAIN Template!Defaults THEN Template!Defaults[p]
                         ELSE Template!Nested
  BY <1>2 DEF Holds
<1> HIDE DEF kept
<1>6. Holds(object, done \cup {path})
  BY <1>3, <1>4, <1>5 DEF Holds
<1> QED
  BY <1>1, <1>6 DEF object

\* Every step keeps the invariant.
LEMMA TemplateKept ==
  ASSUME Template!TemplateAssumption, TemplateInv, [Template!Next]_(Template!vars)
  PROVE  TemplateInv'
<1>1. request' = request
  BY DEF Template!Next, Template!vars, Template!Expand, Template!InsertRequest,
         Template!RequestDone, Template!InsertGlobal, Template!Render
<1>2. Template!Compatible' = Template!Compatible
  BY <1>1 DEF Template!Compatible
<1>3. CASE Template!InsertRequest
  <2>1. PICK path \in pending :
          /\ pending' = pending \ {path}
          /\ outcome = "insert"
          /\ IF Template!Blocked(requestObject, path)
             THEN outcome' = "panic" /\ UNCHANGED requestObject
             ELSE /\ requestObject' =
                       Template!InsertDotted(requestObject, path, request[path])
                  /\ UNCHANGED outcome
    BY <1>3 DEF Template!InsertRequest
  <2>2. ASSUME Template!Compatible
        PROVE  /\ Holds(requestObject', DOMAIN request \ (pending \ {path}))
               /\ outcome' = "insert"
    BY <2>1, <2>2, NotBlocked, InsertHolds
  <2> QED
    BY <1>1, <1>2, <2>1, <2>2 DEF TemplateInv, Holds
<1>4. CASE Template!Expand \/ Template!RequestDone \/ Template!InsertGlobal \/ Template!Render
           \/ UNCHANGED Template!vars
  <2>1. /\ pending' = pending /\ requestObject' = requestObject
        /\ \/ outcome' \in {"config error", "insert"}
           \/ pending = {}
           \/ outcome' = outcome
           \/ outcome \in {"globals", "rendered", "panic"}
    BY <1>4 DEF Template!Expand, Template!RequestDone, Template!InsertGlobal, Template!Render,
                Template!vars
  <2> QED
    BY <1>1, <1>2, <2>1 DEF TemplateInv, Holds
<1> QED
  BY <1>3, <1>4 DEF Template!Next

\* For every request and all global variables: when no variable stands in the
\* way of another, every order of the HashMap renders the same.
THEOREM OrderNeverMatters == AnySpec => []OrderDoesNotMatter
<1> DEFINE Inv == subject = "template" => TemplateInv
<1>1. AnyInit => Inv
  BY DEF AnyInit, Template!Init, TemplateInv, Holds
<1>2. Inv /\ [AnyStep]_all => Inv'
  <2> SUFFICES ASSUME Inv, [AnyStep]_all, subject' = "template"
               PROVE  TemplateInv'
    OBVIOUS
  <2>1. TemplateInv /\ [Template!Next]_(Template!vars)
    BY StepOfSubject
  <2> QED
    BY <2>1, TemplateKept, AlgorithmsAssumption
<1>3. Inv => OrderDoesNotMatter
  BY DEF TemplateInv, Holds, OrderDoesNotMatter, Template!OrderDoesNotMatter
<1> QED
  BY <1>1, <1>2, <1>3, PTL DEF AnySpec

-----------------------------------------------------------------------------
(* RulesetCollect: what RulesetProofs proves of GET /ruleset alone.          *)

\* The two instances of SourceLoader are one.
LEMMA RulesetIsCollect ==
  /\ Ruleset!LoaderAssumption /\ Ruleset!CollectAssumption
  /\ Collect!Init => Ruleset!Init
  /\ [Collect!Next]_(Collect!vars) => [Ruleset!Next]_(Ruleset!vars)
  /\ Ruleset!LimitIsExact => Collect!LimitIsExact
  /\ Ruleset!OrderIrrelevantBelowLimit => Collect!OrderIrrelevantBelowLimit
<1>1. Ruleset!LoaderAssumption /\ Ruleset!CollectAssumption
  BY AlgorithmsAssumption DEF Ruleset!LoaderAssumption, Ruleset!CollectAssumption,
     Collect!LoaderAssumption, Collect!CollectAssumption
<1>2. Collect!Init => Ruleset!Init
  BY DEF Collect!Init, Ruleset!Init, Collect!Unfinished, Ruleset!Unfinished
<1>3. [Collect!Next]_(Collect!vars) => [Ruleset!Next]_(Ruleset!vars)
  <2>1. Collect!Poll => Ruleset!Poll
    <3>1. Collect!Concurrency = Ruleset!Concurrency
      BY Zenon DEF Collect!Concurrency, Ruleset!Concurrency, Collect!Larger, Ruleset!Larger,
         Collect!Smaller, Ruleset!Smaller, Collect!Sources, Ruleset!Sources,
         Collect!Cardinality, Ruleset!Cardinality
    <3>2. Collect!Started = Ruleset!Started /\ Collect!Sources = Ruleset!Sources
      BY Zenon DEF Collect!Started, Ruleset!Started, Collect!Sources, Ruleset!Sources,
         Collect!Range, Ruleset!Range
    <3>3. \A S : Collect!Cardinality(S) = Ruleset!Cardinality(S)
      BY Zenon DEF Collect!Cardinality, Ruleset!Cardinality
    <3> QED
      BY <3>1, <3>2, <3>3, Zenon DEF Collect!Poll, Ruleset!Poll, Collect!Unfinished,
         Ruleset!Unfinished
  <2>2. ASSUME NEW i, Collect!Finish(i) PROVE Ruleset!Finish(i)
    BY <2>2 DEF Collect!Finish, Ruleset!Finish, Collect!Unfinished, Ruleset!Unfinished,
       Collect!Error, Ruleset!Error
  <2>3. Collect!Deliver => Ruleset!Deliver
    BY Zenon DEF Collect!Deliver, Ruleset!Deliver, Collect!Unfinished, Ruleset!Unfinished,
       Collect!Loaded, Ruleset!Loaded, Collect!SortByIndex, Ruleset!SortByIndex,
       Collect!KthSmallest, Ruleset!KthSmallest, Collect!Range, Ruleset!Range,
       Collect!Cardinality, Ruleset!Cardinality
  <2>4. Collect!Returned => Ruleset!Returned
    BY DEF Collect!Returned, Ruleset!Returned, Collect!Unfinished, Ruleset!Unfinished,
       Collect!vars, Ruleset!vars
  <2>5. Collect!Sources = Ruleset!Sources
    BY DEF Collect!Sources, Ruleset!Sources
  <2> QED
    BY <2>1, <2>2, <2>3, <2>4, <2>5 DEF Collect!Next, Ruleset!Next, Collect!vars, Ruleset!vars
<1>4. /\ Collect!Answered <=> Ruleset!Answered
      /\ Ruleset!TotalRules = Collect!TotalRules
      /\ \A x, y : Ruleset!Smaller(x, y) = Collect!Smaller(x, y)
      /\ \A contents : Ruleset!AddAll(contents) = Collect!AddAll(contents)
      /\ \A contents : Ruleset!Encode(contents) = Collect!Encode(contents)
      /\ \A f : Ruleset!Range(f) = Collect!Range(f)
  <2>1. Collect!Answered <=> Ruleset!Answered
    BY DEF Collect!Answered, Ruleset!Answered
  <2>2. Ruleset!TotalRules = Collect!TotalRules
    BY Zenon DEF Collect!TotalRules, Ruleset!TotalRules, Collect!RulesIn, Ruleset!RulesIn
  <2>3. \A x, y : Ruleset!Smaller(x, y) = Collect!Smaller(x, y)
    BY Zenon DEF Collect!Smaller, Ruleset!Smaller
  <2>4. \A contents : Ruleset!AddAll(contents) = Collect!AddAll(contents)
    BY Zenon DEF Collect!AddAll, Ruleset!AddAll, Collect!AddContent, Ruleset!AddContent,
       Collect!Take, Ruleset!Take, Collect!Smaller, Ruleset!Smaller, Collect!Nothing,
       Ruleset!Nothing
  <2>5. \A f : Ruleset!Range(f) = Collect!Range(f)
    BY Zenon DEF Collect!Range, Ruleset!Range
  <2>6. \A contents : Ruleset!Encode(contents) = Collect!Encode(contents)
    BY <2>4, <2>5, ZenonT(60) DEF Collect!Encode, Ruleset!Encode
  <2> QED
    BY <2>1, <2>2, <2>3, <2>4, <2>5, <2>6
<1>5. Ruleset!LimitIsExact => Collect!LimitIsExact
  BY <1>4, Zenon DEF Collect!LimitIsExact, Ruleset!LimitIsExact
<1>6. Ruleset!OrderIrrelevantBelowLimit => Collect!OrderIrrelevantBelowLimit
  BY <1>4, Zenon DEF Collect!OrderIrrelevantBelowLimit, Ruleset!OrderIrrelevantBelowLimit
<1> QED
  BY <1>1, <1>2, <1>3, <1>5, <1>6

\* The invariant of RulesetProofs holds while GET /ruleset collects.
LEMMA CollectHolds == AnySpec => [](subject = "collect" => Ruleset!CollectInv)
<1> DEFINE Inv == subject = "collect" => Ruleset!CollectInv
<1>1. AnyInit => Inv
  BY RulesetIsCollect, Ruleset!CollectInit DEF AnyInit
<1>2. Inv /\ [AnyStep]_all => Inv'
  <2> SUFFICES ASSUME Inv, [AnyStep]_all, subject' = "collect"
               PROVE  Ruleset!CollectInv'
    OBVIOUS
  <2>1. Ruleset!CollectInv /\ [Ruleset!Next]_(Ruleset!vars)
    BY StepOfSubject, RulesetIsCollect
  <2> QED
    BY <2>1, RulesetIsCollect, Ruleset!CollectStep
<1> QED
  BY <1>1, <1>2, PTL DEF AnySpec

\* Whatever the limit and the contents: the rules of all sources together meet
\* max_allowed_rules exactly (the closure of ruleset in api.rs).
THEOREM LimitAlwaysExact == AnySpec => []LimitIsExact
<1>1. (subject = "collect" => Ruleset!CollectInv) => LimitIsExact
  <2> SUFFICES ASSUME Ruleset!CollectInv PROVE Collect!LimitIsExact
    BY DEF LimitIsExact
  <2> QED
    BY RulesetIsCollect, Ruleset!CollectIsExact
<1> QED
  BY <1>1, CollectHolds, PTL

\* Below the limit the answer is that to the sources in list order.
THEOREM OrderNeverShowsBelowLimit == AnySpec => []OrderIrrelevantBelowLimit
<1>1. (subject = "collect" => Ruleset!CollectInv) => OrderIrrelevantBelowLimit
  <2> SUFFICES ASSUME Ruleset!CollectInv PROVE Collect!OrderIrrelevantBelowLimit
    BY DEF OrderIrrelevantBelowLimit
  <2> QED
    BY RulesetIsCollect, Ruleset!CollectKeepsOrder
<1> QED
  BY <1>1, CollectHolds, PTL

-----------------------------------------------------------------------------
(* PrivateRewrite: substitution is a homomorphism, so that values without   *)
(* references may be substituted one after the other or at once.            *)

\* What a token of a text becomes.
Piece(token, bound) ==
    IF token.is = "ref" /\ token.of \in DOMAIN bound THEN bound[token.of] ELSE <<token>>

TextsFor(bound, T) == \A name \in DOMAIN bound : bound[name] \in Seq(T)

\* A token becomes a text.
LEMMA PieceType ==
  ASSUME NEW T, NEW token \in T, NEW bound, TextsFor(bound, T)
  PROVE  Piece(token, bound) \in Seq(T)
<1>1. <<token>> \in Seq(T)
  OBVIOUS
<1> QED
  BY <1>1 DEF Piece, TextsFor

\* Substitute is computed by the recursion that defines it.
SubstituteSteps(g, words, bound, T) ==
    /\ Private!Substitute(words, bound) = g[Len(words)]
    /\ g[0] = <<>>
    /\ \A n \in 1 .. Len(words) : g[n] = g[n - 1] \o Piece(words[n], bound)
    /\ \A n \in 0 .. Len(words) : g[n] \in Seq(T)

\* The function by which a text is substituted exists.
LEMMA SubstituteRecursion ==
  ASSUME NEW T, NEW words \in Seq(T), NEW bound, TextsFor(bound, T)
  PROVE  \E g : SubstituteSteps(g, words, bound, T)
<1> DEFINE N == Len(words)
           grow(n, got) == got \o Piece(words[n], bound)
           step == [p \in (1 .. N) \X Seq(T) |-> grow(p[1], p[2])]
<1>1. N \in Nat /\ \A n \in 1 .. N : Piece(words[n], bound) \in Seq(T)
  <2>1. N \in Nat /\ \A n \in 1 .. N : words[n] \in T
    OBVIOUS
  <2> QED
    BY <2>1, PieceType
<1>2. step \in [(1 .. N) \X Seq(T) -> Seq(T)]
  <2> HIDE DEF N
  <2>1. \A n \in 1 .. N, got \in Seq(T) : grow(n, got) \in Seq(T)
    BY <1>1
  <2> HIDE DEF grow
  <2> QED
    BY <2>1
<1>3. PICK f : f \in Recursions(N, Seq(T), <<>>, step)
  <2>1. <<>> \in Seq(T) /\ step \in Stepping(N, Seq(T))
    BY <1>2 DEF Stepping
  <2> HIDE DEF step, N
  <2> QED
    BY <1>1, <2>1, RecursionExists
<1>4. /\ f \in [0 .. N -> Seq(T)]
      /\ f[0] = <<>>
      /\ \A n \in 1 .. N : f[n] = step[<<n, f[n - 1]>>]
  BY <1>3 DEF Recursions
<1>5. \A n \in 1 .. N : f[n] = grow(n, f[n - 1])
  <2> SUFFICES ASSUME NEW n \in 1 .. N PROVE f[n] = grow(n, f[n - 1])
    OBVIOUS
  <2> HIDE DEF N, grow
  <2>1. n - 1 \in 0 .. N
    BY <1>1
  <2>2. <<n, f[n - 1]>> \in (1 .. N) \X Seq(T)
    BY <1>4, <2>1
  <2> QED
    BY <1>4, <2>2
<1> DEFINE isMeant(h) == h = [n \in 0 .. N |-> IF n = 0 THEN <<>> ELSE grow(n, h[n - 1])]
           g == CHOOSE h : isMeant(h)
<1>6. isMeant(f)
  <2> HIDE DEF N, grow
  <2> QED
    BY <1>1, <1>4, <1>5
<1>7. g = [n \in 0 .. N |-> IF n = 0 THEN <<>> ELSE grow(n, g[n - 1])]
  <2>1. isMeant(g)
    <3> HIDE DEF isMeant
    <3> QED
      BY <1>6
  <2> QED
    BY <2>1
<1>8. Private!Substitute(words, bound) = g[N]
  BY DEF Private!Substitute, Piece
<1> HIDE DEF g
<1>9. g[0] = <<>> /\ \A n \in 1 .. N : g[n] = grow(n, g[n - 1])
  <2> HIDE DEF N, grow
  <2> QED
    BY <1>1, <1>7
<1>10. \A n \in 0 .. N : g[n] \in Seq(T)
  <2> DEFINE U == {n \in 0 .. N : g[n] \in Seq(T)}
  <2>1. 0 \in U
    <3>1. g[0] \in Seq(T)
      BY <1>9
    <3> QED
      BY <1>1, <3>1
  <2>2. ASSUME NEW n \in 0 .. N - 1, n \in U PROVE n + 1 \in U
    <3>1. n + 1 \in 1 .. N /\ n + 1 \in 0 .. N /\ (n + 1) - 1 = n /\ g[n] \in Seq(T)
      BY <1>1, <2>2
    <3>2. g[n + 1] = g[n] \o Piece(words[n + 1], bound)
      <4>1. g[n + 1] = g[(n + 1) - 1] \o Piece(words[n + 1], bound)
        BY <1>9, <3>1
      <4> QED
        BY <3>1, <4>1
    <3>3. Piece(words[n + 1], bound) \in Seq(T)
      BY <1>1, <3>1
    <3>4. g[n + 1] \in Seq(T)
      BY <3>1, <3>2, <3>3
    <3> QED
      BY <3>1, <3>4
  <2>3. \A n \in 0 .. N : n \in U
    <3> HIDE DEF U, N
    <3> QED
      BY <1>1, <2>1, <2>2, BoundedInduction
  <2> QED
    BY <2>3
<1> QED
  BY <1>8, <1>9, <1>10 DEF SubstituteSteps

\* A text stays a text.
LEMMA SubstituteType ==
  ASSUME NEW T, NEW words \in Seq(T), NEW bound, TextsFor(bound, T)
  PROVE  Private!Substitute(words, bound) \in Seq(T)
<1>1. PICK g : SubstituteSteps(g, words, bound, T)
  BY SubstituteRecursion
<1>2. Len(words) \in 0 .. Len(words)
  OBVIOUS
<1> QED
  BY <1>1, <1>2 DEF SubstituteSteps

\* Nothing becomes nothing, and each token what it becomes.
LEMMA SubstituteEmpty ==
  ASSUME NEW T, NEW bound, TextsFor(bound, T)
  PROVE  Private!Substitute(<<>>, bound) = <<>>
<1>1. <<>> \in Seq(T) /\ Len(<<>>) = 0
  OBVIOUS
<1>2. PICK g : SubstituteSteps(g, <<>>, bound, T)
  BY <1>1, SubstituteRecursion
<1> QED
  BY <1>1, <1>2 DEF SubstituteSteps

\* A token more is substituted by itself.
LEMMA SubstituteAppend ==
  ASSUME NEW T, NEW words \in Seq(T), NEW token \in T, NEW bound, TextsFor(bound, T)
  PROVE  Private!Substitute(Append(words, token), bound)
            = Private!Substitute(words, bound) \o Piece(token, bound)
<1> DEFINE longer == Append(words, token)
           N == Len(words)
<1>1. /\ longer \in Seq(T) /\ Len(longer) = N + 1 /\ N \in Nat
      /\ longer[N + 1] = token /\ \A n \in 1 .. N : longer[n] = words[n]
  OBVIOUS
<1>2. PICK g : SubstituteSteps(g, words, bound, T)
  BY SubstituteRecursion
<1>3. PICK h : SubstituteSteps(h, longer, bound, T)
  <2> HIDE DEF longer
  <2> QED
    BY <1>1, SubstituteRecursion
<1> HIDE DEF longer
<1> DEFINE U == {n \in 0 .. N : g[n] = h[n]}
<1>4. 0 \in U
  BY <1>1, <1>2, <1>3 DEF SubstituteSteps
<1>5. ASSUME NEW n \in 0 .. N - 1, n \in U PROVE n + 1 \in U
  <2>1. n + 1 \in 1 .. N /\ n + 1 \in 1 .. N + 1 /\ (n + 1) - 1 = n /\ g[n] = h[n]
    BY <1>1, <1>5
  <2>2. g[n + 1] = g[(n + 1) - 1] \o Piece(words[n + 1], bound)
    BY <1>2, <2>1 DEF SubstituteSteps
  <2>3. h[n + 1] = h[(n + 1) - 1] \o Piece(longer[n + 1], bound)
    BY <1>1, <1>3, <2>1 DEF SubstituteSteps
  <2>4. longer[n + 1] = words[n + 1]
    BY <1>1, <2>1
  <2>5. g[n + 1] = h[n + 1]
    BY <2>1, <2>2, <2>3, <2>4
  <2> QED
    BY <2>1, <2>5
<1>6. \A n \in 0 .. N : n \in U
  <2> HIDE DEF U, N
  <2> QED
    BY <1>1, <1>4, <1>5, BoundedInduction
<1>7. N \in 0 .. N /\ N + 1 \in 1 .. N + 1 /\ (N + 1) - 1 = N
  BY <1>1
<1>8. g[N] = h[N]
  BY <1>6, <1>7
<1>9. h[N + 1] = h[(N + 1) - 1] \o Piece(longer[N + 1], bound)
  BY <1>1, <1>3, <1>7 DEF SubstituteSteps
<1>10. Private!Substitute(words, bound) = g[N] /\ Private!Substitute(longer, bound) = h[N + 1]
  BY <1>1, <1>2, <1>3 DEF SubstituteSteps
<1>11. Private!Substitute(longer, bound) = Private!Substitute(words, bound) \o Piece(token, bound)
  BY <1>1, <1>7, <1>8, <1>9, <1>10
<1> QED
  BY <1>11 DEF longer

\* Induction over the sequences of a set.
LEMMA SequenceInduction ==
  ASSUME NEW T, NEW Z, <<>> \in Z,
         \A s \in Seq(T), t \in T : s \in Z => Append(s, t) \in Z
  PROVE  \A s \in Seq(T) : s \in Z
<1> SUFFICES ASSUME NEW s \in Seq(T) PROVE s \in Z
  OBVIOUS
<1> DEFINE N == Len(s)
           front(n) == [k \in 1 .. n |-> s[k]]
           U == {n \in 0 .. N : front(n) \in Z}
<1>1. N \in Nat /\ \A k \in 1 .. N : s[k] \in T
  OBVIOUS
<1>2. \A n \in 0 .. N : front(n) \in Seq(T) /\ Len(front(n)) = n
  BY <1>1
<1>3. 0 \in U
  <2>1. front(0) \in Seq(T) /\ Len(front(0)) = 0
    BY <1>1, <1>2
  <2> HIDE DEF front
  <2>2. front(0) = <<>>
    BY <2>1, EmptySeq
  <2> QED
    BY <1>1, <2>2
<1>4. ASSUME NEW n \in 0 .. N - 1, n \in U PROVE n + 1 \in U
  <2>1. n + 1 \in 1 .. N /\ n \in 0 .. N /\ n + 1 \in 0 .. N /\ s[n + 1] \in T
    BY <1>1
  <2>2. Append(front(n), s[n + 1]) \in Z
    BY <1>2, <1>4, <2>1
  <2>3. front(n + 1) = Append(front(n), s[n + 1])
    <3>1. /\ Append(front(n), s[n + 1]) \in Seq(T)
          /\ Len(Append(front(n), s[n + 1])) = n + 1
          /\ \A k \in 1 .. n + 1 : Append(front(n), s[n + 1])[k] = s[k]
      BY <1>1, <1>2, <2>1
    <3>2. front(n + 1) \in Seq(T) /\ Len(front(n + 1)) = n + 1
          /\ \A k \in 1 .. n + 1 : front(n + 1)[k] = s[k]
      BY <1>1, <1>2, <2>1
    <3> HIDE DEF front
    <3> QED
      BY <3>1, <3>2, SeqEqual
  <2> QED
    BY <2>1, <2>2, <2>3
<1>5. \A n \in 0 .. N : n \in U
  <2> HIDE DEF U, N
  <2> QED
    BY <1>1, <1>3, <1>4, BoundedInduction
<1>6. front(N) \in Z
  BY <1>1, <1>5
<1>7. front(N) = s
  BY <1>1
<1> QED
  BY <1>6, <1>7

\* Substituting in a text of two parts is substituting in each.
Splits(a, b, bound) ==
    Private!Substitute(a \o b, bound) = Private!Substitute(a, bound) \o Private!Substitute(b, bound)

\* Substitution is a homomorphism.
LEMMA SubstituteConcat ==
  ASSUME NEW T, NEW a \in Seq(T), NEW bound, TextsFor(bound, T)
  PROVE  \A b \in Seq(T) : Splits(a, b, bound)
<1> DEFINE Right(b) == Private!Substitute(a \o b, bound)
                         = Private!Substitute(a, bound) \o Private!Substitute(b, bound)
           Z == {b \in Seq(T) : Right(b)}
<1>1. \A words \in Seq(T) : Private!Substitute(words, bound) \in Seq(T)
  BY SubstituteType
<1>2. <<>> \in Z
  <2>1. a \o <<>> = a /\ <<>> \in Seq(T)
    OBVIOUS
  <2>2. Private!Substitute(a, bound) \o <<>> = Private!Substitute(a, bound)
    BY <1>1
  <2>3. Right(<<>>)
    BY <2>1, <2>2, SubstituteEmpty
  <2> HIDE DEF Right
  <2> QED
    BY <2>1, <2>3
<1>3. ASSUME NEW b \in Seq(T), NEW t \in T, b \in Z
      PROVE  Append(b, t) \in Z
  <2>1. /\ a \o Append(b, t) = Append(a \o b, t)
        /\ a \o b \in Seq(T) /\ Append(b, t) \in Seq(T)
    OBVIOUS
  <2> DEFINE sa == Private!Substitute(a, bound)
             sb == Private!Substitute(b, bound)
             p == Piece(t, bound)
  <2>2. Private!Substitute(Append(a \o b, t), bound) = Private!Substitute(a \o b, bound) \o p
    BY <2>1, SubstituteAppend, ZenonT(60)
  <2>3. Private!Substitute(Append(b, t), bound) = sb \o p
    BY SubstituteAppend
  <2>4. Private!Substitute(a \o b, bound) = sa \o sb
    BY <1>3
  <2>5. sa \in Seq(T) /\ sb \in Seq(T) /\ p \in Seq(T)
    BY <1>1, PieceType
  <2> HIDE DEF sa, sb, p
  <2>6. (sa \o sb) \o p = sa \o (sb \o p)
    BY <2>5
  <2>7. Right(Append(b, t))
    BY <2>1, <2>2, <2>3, <2>4, <2>6 DEF sa
  <2> HIDE DEF Right
  <2> QED
    BY <2>1, <2>7
<1>4. \A b \in Seq(T) : b \in Z
  <2> HIDE DEF Z
  <2> QED
    BY <1>2, <1>3, SequenceInduction
<1> QED
  BY <1>4 DEF Splits

\* A text refers to none of these names.
Free(words, refs) == \A k \in DOMAIN words : ~(words[k].is = "ref" /\ words[k].of \in refs)

\* A text that refers to no bound name stays as it is.
LEMMA FreeUnchanged ==
  ASSUME NEW T, NEW bound, TextsFor(bound, T)
  PROVE  \A words \in Seq(T) :
            Free(words, DOMAIN bound) => Private!Substitute(words, bound) = words
<1> DEFINE Right(words) == Free(words, DOMAIN bound) => Private!Substitute(words, bound) = words
           Z == {words \in Seq(T) : Right(words)}
<1>1. <<>> \in Z
  <2>1. Right(<<>>)
    BY SubstituteEmpty
  <2> HIDE DEF Right
  <2> QED
    BY <2>1
<1>2. ASSUME NEW words \in Seq(T), NEW t \in T, words \in Z
      PROVE  Append(words, t) \in Z
  <2>1. ASSUME Free(Append(words, t), DOMAIN bound)
        PROVE  Private!Substitute(Append(words, t), bound) = Append(words, t)
    <3>1. /\ DOMAIN Append(words, t) = 1 .. Len(words) + 1 /\ DOMAIN words = 1 .. Len(words)
          /\ Len(words) \in Nat
          /\ Append(words, t)[Len(words) + 1] = t
          /\ \A k \in DOMAIN words : Append(words, t)[k] = words[k]
      OBVIOUS
    <3>2. Free(words, DOMAIN bound) /\ ~(t.is = "ref" /\ t.of \in DOMAIN bound)
      BY <2>1, <3>1 DEF Free
    <3>3. Private!Substitute(Append(words, t), bound) = words \o <<t>>
      BY <1>2, <3>2, SubstituteAppend DEF Piece
    <3>4. words \o <<t>> = Append(words, t)
      OBVIOUS
    <3> QED
      BY <3>3, <3>4
  <2>2. Right(Append(words, t)) /\ Append(words, t) \in Seq(T)
    BY <2>1
  <2> HIDE DEF Right
  <2> QED
    BY <2>2
<1>3. \A words \in Seq(T) : words \in Z
  <2> HIDE DEF Z
  <2> QED
    BY <1>1, <1>2, SequenceInduction
<1> QED
  BY <1>3

Both(one, other) ==
    [name \in DOMAIN one \cup DOMAIN other |->
        IF name \in DOMAIN one THEN one[name] ELSE other[name]]

\* No value of the one refers to what the other replaces.
Apart(one, other) == \A name \in DOMAIN one : Free(one[name], DOMAIN other)

\* Two substitutions are one, if the values of the first do not refer to the second.
LEMMA SubstituteTwice ==
  ASSUME NEW T, NEW one, NEW other, TextsFor(one, T), TextsFor(other, T),
         Apart(one, other), NEW given \in Seq(T)
  PROVE  Private!Substitute(Private!Substitute(given, one), other)
            = Private!Substitute(given, Both(one, other))
<1> DEFINE both == Both(one, other)
           Right(words) == Private!Substitute(Private!Substitute(words, one), other)
                             = Private!Substitute(words, both)
           Z == {words \in Seq(T) : Right(words)}
<1>1. TextsFor(both, T)
  BY DEF TextsFor, Both
<1>2. /\ \A words \in Seq(T) : Private!Substitute(words, one) \in Seq(T)
      /\ \A words \in Seq(T) : Private!Substitute(words, other) \in Seq(T)
  BY SubstituteType
<1>3. <<>> \in Z
  <2>1. Private!Substitute(<<>>, one) = <<>> /\ Private!Substitute(<<>>, other) = <<>>
    BY SubstituteEmpty
  <2>2. Private!Substitute(<<>>, both) = <<>>
    BY <1>1, SubstituteEmpty
  <2>3. Right(<<>>) /\ <<>> \in Seq(T)
    BY <2>1, <2>2
  <2> HIDE DEF Right
  <2> QED
    BY <2>3
<1>4. ASSUME NEW t \in T
      PROVE  Private!Substitute(Piece(t, one), other) = Piece(t, both)
  <2>1. CASE t.is = "ref" /\ t.of \in DOMAIN one
    <3>1. Piece(t, one) = one[t.of] /\ Piece(t, both) = one[t.of] /\ one[t.of] \in Seq(T)
      BY <2>1 DEF Piece, Both, TextsFor
    <3>2. Free(one[t.of], DOMAIN other)
      BY <2>1 DEF Apart
    <3> QED
      BY <3>1, <3>2, FreeUnchanged
  <2>2. CASE ~(t.is = "ref" /\ t.of \in DOMAIN one)
    <3>1. Piece(t, one) = <<t>> /\ Piece(t, both) = Piece(t, other)
      BY <2>2 DEF Piece, Both
    <3>2. <<t>> = Append(<<>>, t) /\ <<>> \in Seq(T)
      OBVIOUS
    <3>3. Private!Substitute(Append(<<>>, t), other)
            = Private!Substitute(<<>>, other) \o Piece(t, other)
      BY <3>2, SubstituteAppend, ZenonT(60)
    <3>4. Private!Substitute(<<>>, other) = <<>> /\ Piece(t, other) \in Seq(T)
      BY SubstituteEmpty, PieceType
    <3>5. <<>> \o Piece(t, other) = Piece(t, other)
      BY <3>4
    <3> QED
      BY <3>1, <3>2, <3>3, <3>4, <3>5
  <2> QED
    BY <2>1, <2>2
<1>5. ASSUME NEW words \in Seq(T), NEW t \in T, words \in Z
      PROVE  Append(words, t) \in Z
  <2>1. Private!Substitute(Append(words, t), one) = Private!Substitute(words, one) \o Piece(t, one)
    BY SubstituteAppend
  <2>2. Private!Substitute(words, one) \in Seq(T) /\ Piece(t, one) \in Seq(T)
    BY <1>2, PieceType
  <2>3. Private!Substitute(Private!Substitute(words, one) \o Piece(t, one), other)
           = Private!Substitute(Private!Substitute(words, one), other)
                \o Private!Substitute(Piece(t, one), other)
    <3> DEFINE front == Private!Substitute(words, one)
               back == Piece(t, one)
    <3> HIDE DEF front, back
    <3>1. front \in Seq(T) /\ back \in Seq(T)
      BY <2>2 DEF front, back
    <3>2. Splits(front, back, other)
      BY <3>1, SubstituteConcat
    <3> QED
      BY <3>2 DEF Splits, front, back
  <2>4. Private!Substitute(Append(words, t), both)
          = Private!Substitute(words, both) \o Piece(t, both)
    BY <1>1, SubstituteAppend
  <2>5. Private!Substitute(Private!Substitute(words, one), other) = Private!Substitute(words, both)
    BY <1>5
  <2>6. Right(Append(words, t))
    BY <1>4, <2>1, <2>3, <2>4, <2>5
  <2>7. Append(words, t) \in Seq(T)
    OBVIOUS
  <2> HIDE DEF Right
  <2> QED
    BY <2>6, <2>7
<1>6. \A words \in Seq(T) : words \in Z
  <2> HIDE DEF Z
  <2> QED
    BY <1>3, <1>5, SequenceInduction
<1> QED
  BY <1>6

\* What a text refers to after a substitution, its values still refer to, or it did.
LEMMA SubstituteFree ==
  ASSUME NEW T, NEW bound, TextsFor(bound, T), NEW refs,
         \A name \in DOMAIN bound : Free(bound[name], refs)
  PROVE  \A words \in Seq(T) :
            Free(words, refs \ DOMAIN bound) => Free(Private!Substitute(words, bound), refs)
<1> DEFINE Right(words) ==
               Free(words, refs \ DOMAIN bound) => Free(Private!Substitute(words, bound), refs)
           Z == {words \in Seq(T) : Right(words)}
<1>1. <<>> \in Z
  <2>1. Private!Substitute(<<>>, bound) = <<>> /\ <<>> \in Seq(T) /\ DOMAIN <<>> = {}
    BY SubstituteEmpty
  <2>2. Right(<<>>)
    BY <2>1 DEF Free
  <2> HIDE DEF Right
  <2> QED
    BY <2>1, <2>2
<1>2. ASSUME NEW words \in Seq(T), NEW t \in T, words \in Z
      PROVE  Append(words, t) \in Z
  <2>1. ASSUME Free(Append(words, t), refs \ DOMAIN bound)
        PROVE  Free(Private!Substitute(Append(words, t), bound), refs)
    <3>1. /\ DOMAIN Append(words, t) = 1 .. Len(words) + 1 /\ DOMAIN words = 1 .. Len(words)
          /\ Len(words) \in Nat
          /\ Append(words, t)[Len(words) + 1] = t
          /\ \A k \in DOMAIN words : Append(words, t)[k] = words[k]
      OBVIOUS
    <3>2. /\ Free(words, refs \ DOMAIN bound)
          /\ ~(t.is = "ref" /\ t.of \in refs \ DOMAIN bound)
      BY <2>1, <3>1 DEF Free
    <3> DEFINE one == Private!Substitute(words, bound)
               two == Piece(t, bound)
    <3>3. one \in Seq(T) /\ two \in Seq(T)
      BY SubstituteType, PieceType
    <3>4. Free(one, refs)
      BY <1>2, <3>2
    <3>5. Free(two, refs)
      <4>1. CASE t.is = "ref" /\ t.of \in DOMAIN bound
        BY <4>1 DEF Piece
      <4>2. CASE ~(t.is = "ref" /\ t.of \in DOMAIN bound)
        <5>1. two = <<t>> /\ DOMAIN <<t>> = {1} /\ <<t>>[1] = t
          BY <4>2 DEF Piece
        <5> HIDE DEF two
        <5> QED
          BY <3>2, <4>2, <5>1 DEF Free
      <4> QED
        BY <4>1, <4>2
    <3>6. Private!Substitute(Append(words, t), bound) = one \o two
      BY SubstituteAppend
    <3> HIDE DEF one, two
    <3>7. \A k \in DOMAIN (one \o two) :
             \/ k \in DOMAIN one /\ (one \o two)[k] = one[k]
             \/ k - Len(one) \in DOMAIN two /\ (one \o two)[k] = two[k - Len(one)]
      BY <3>3
    <3>8. Free(one \o two, refs)
      BY <3>4, <3>5, <3>7 DEF Free
    <3> QED
      BY <3>6, <3>8
  <2>2. Right(Append(words, t)) /\ Append(words, t) \in Seq(T)
    BY <2>1
  <2> HIDE DEF Right
  <2> QED
    BY <2>2
<1>3. \A words \in Seq(T) : words \in Z
  <2> HIDE DEF Z
  <2> QED
    BY <1>1, <1>2, SequenceInduction
<1> QED
  BY <1>3

\* Where a name is given last.
IsLast(list, name, n, k) ==
    list[k].key = name /\ \A later \in k + 1 .. n : list[later].key # name

\* The last variable of a name exists and is one.
LEMMA LastIsLast ==
  ASSUME NEW list, NEW n \in Nat, NEW name \in Private!NamesWithin(list, n)
  PROVE  /\ Private!LastWithin(list, name, n) \in 1 .. n
         /\ IsLast(list, name, n, Private!LastWithin(list, name, n))
         /\ \A k \in 1 .. n : IsLast(list, name, n, k) => k = Private!LastWithin(list, name, n)
<1> DEFINE places == {k \in 1 .. n : list[k].key = name}
           ages == {n - k : k \in places}
<1>1. places # {} /\ ages \subseteq Nat /\ ages # {}
  BY DEF Private!NamesWithin
<1>2. PICK m \in ages : \A a \in ages : m <= a
  <2> HIDE DEF ages
  <2> QED
    BY <1>1, LeastElement
<1>3. PICK k \in 1 .. n : list[k].key = name /\ m = n - k
  BY <1>2
<1>4. IsLast(list, name, n, k)
  <2> SUFFICES ASSUME NEW later \in k + 1 .. n, list[later].key = name PROVE FALSE
    BY <1>3 DEF IsLast
  <2>1. later \in 1 .. n /\ n - later \in ages
    OBVIOUS
  <2>2. n - k <= n - later
    BY <1>2, <1>3, <2>1
  <2> QED
    BY <2>1, <2>2
<1>5. Private!LastWithin(list, name, n) \in 1 .. n
      /\ IsLast(list, name, n, Private!LastWithin(list, name, n))
  BY <1>4 DEF Private!LastWithin, IsLast
<1>6. ASSUME NEW i \in 1 .. n, NEW j \in 1 .. n, IsLast(list, name, n, i), IsLast(list, name, n, j)
      PROVE  i = j
  BY <1>6 DEF IsLast
<1> QED
  BY <1>5, <1>6

\* A further variable.
LEMMA LastStep ==
  ASSUME NEW list, NEW n \in Nat
  PROVE  /\ Private!NamesWithin(list, n + 1) = Private!NamesWithin(list, n) \cup {list[n + 1].key}
         /\ Private!LastWithin(list, list[n + 1].key, n + 1) = n + 1
         /\ \A name \in Private!NamesWithin(list, n) \ {list[n + 1].key} :
               Private!LastWithin(list, name, n + 1) = Private!LastWithin(list, name, n)
<1>1. 1 .. n + 1 = (1 .. n) \cup {n + 1}
  OBVIOUS
<1>2. Private!NamesWithin(list, n + 1) = Private!NamesWithin(list, n) \cup {list[n + 1].key}
  BY <1>1 DEF Private!NamesWithin
<1>3. Private!LastWithin(list, list[n + 1].key, n + 1) = n + 1
  <2>1. IsLast(list, list[n + 1].key, n + 1, n + 1) /\ n + 1 \in 1 .. n + 1 /\ n + 1 \in Nat
    BY DEF IsLast
  <2> QED
    BY <1>2, <2>1, LastIsLast
<1>4. ASSUME NEW name \in Private!NamesWithin(list, n), name # list[n + 1].key
      PROVE  Private!LastWithin(list, name, n + 1) = Private!LastWithin(list, name, n)
  <2> DEFINE k == Private!LastWithin(list, name, n)
  <2>1. k \in 1 .. n /\ IsLast(list, name, n, k)
    BY LastIsLast
  <2> HIDE DEF k
  <2>2. k \in 1 .. n + 1 /\ IsLast(list, name, n + 1, k)
    BY <1>1, <1>4, <2>1 DEF IsLast
  <2>3. name \in Private!NamesWithin(list, n + 1) /\ n + 1 \in Nat
    BY <1>2
  <2>4. k = Private!LastWithin(list, name, n + 1)
    BY <2>2, <2>3, LastIsLast
  <2> QED
    BY <2>4 DEF k
<1> QED
  BY <1>2, <1>3, <1>4

\* What the names among the first n variables stand for.
Bound(list, n) ==
    [name \in Private!NamesWithin(list, n) |->
        Private!Meanings(list)[Private!LastWithin(list, name, n)]]

IsList(list, T) ==
    /\ list \in Seq({list[k] : k \in DOMAIN list})
    /\ \A k \in DOMAIN list : Private!Value(list[k]) \in Seq(T)

\* A variable means its text with what the names above it mean.
LEMMA MeaningsOf ==
  ASSUME NEW T, NEW list, IsList(list, T)
  PROVE  /\ Private!Meanings(list) \in [1 .. Len(list) -> Seq(T)]
         /\ \A n \in 0 .. Len(list) : TextsFor(Bound(list, n), T)
         /\ \A k \in 1 .. Len(list) :
               Private!Meanings(list)[k]
                  = Private!Substitute(Private!Value(list[k]), Bound(list, k - 1))
<1> DEFINE N == Len(list)
           H == Seq(Seq(T))
           above(k, h) == [name \in Private!NamesWithin(list, k - 1) |->
                              h[Private!LastWithin(list, name, k - 1)]]
           words(k, h) == Private!Substitute(Private!Value(list[k]), above(k, h))
           grow(k, h) == IF Len(h) = k - 1 THEN Append(h, words(k, h)) ELSE h
           step == [p \in (1 .. N) \X H |-> grow(p[1], p[2])]
<1>1. N \in Nat /\ DOMAIN list = 1 .. N /\ \A k \in 1 .. N : Private!Value(list[k]) \in Seq(T)
  BY DEF IsList
<1>2. ASSUME NEW k \in 1 .. N, NEW h, \A j \in 1 .. k - 1 : h[j] \in Seq(T)
      PROVE  TextsFor(above(k, h), T) /\ words(k, h) \in Seq(T)
  <2>1. k - 1 \in Nat
    BY <1>1
  <2>2. \A name \in Private!NamesWithin(list, k - 1) :
           Private!LastWithin(list, name, k - 1) \in 1 .. k - 1
    BY <2>1, LastIsLast
  <2>3. TextsFor(above(k, h), T)
    BY <1>2, <2>2 DEF TextsFor
  <2> HIDE DEF above
  <2> QED
    BY <1>1, <2>3, SubstituteType
<1>3. step \in [(1 .. N) \X H -> H]
  <2>1. ASSUME NEW k \in 1 .. N, NEW h \in H PROVE grow(k, h) \in H
    <3>1. CASE Len(h) = k - 1
      <4>1. \A j \in 1 .. k - 1 : h[j] \in Seq(T)
        BY <3>1
      <4>2. words(k, h) \in Seq(T)
        BY <1>2, <4>1
      <4> HIDE DEF words
      <4> QED
        BY <3>1, <4>2
    <3>2. CASE Len(h) # k - 1
      BY <3>2
    <3> QED
      BY <3>1, <3>2
  <2> HIDE DEF grow, N, H
  <2> QED
    BY <2>1
<1>4. PICK f : f \in Recursions(N, H, <<>>, step)
  <2>1. <<>> \in H /\ step \in Stepping(N, H)
    BY <1>3 DEF Stepping
  <2> HIDE DEF step, N, H
  <2> QED
    BY <1>1, <2>1, RecursionExists
<1>5. /\ f \in [0 .. N -> H]
      /\ f[0] = <<>>
      /\ \A n \in 1 .. N : f[n] = step[<<n, f[n - 1]>>]
  BY <1>4 DEF Recursions
<1>6. \A n \in 1 .. N : f[n] = grow(n, f[n - 1])
  <2> SUFFICES ASSUME NEW n \in 1 .. N PROVE f[n] = grow(n, f[n - 1])
    OBVIOUS
  <2> HIDE DEF N, grow, H
  <2>1. n - 1 \in 0 .. N
    BY <1>1
  <2>2. <<n, f[n - 1]>> \in (1 .. N) \X H
    BY <1>5, <2>1
  <2> QED
    BY <1>5, <2>2
<1> HIDE DEF step
<1> DEFINE e == [k \in 1 .. N |-> f[k][k]]
           Good(n) == /\ f[n] \in H /\ Len(f[n]) = n
                      /\ \A j \in 1 .. n : f[n][j] = e[j] /\ e[j] \in Seq(T)
           U == {n \in 0 .. N : Good(n)}
<1>7. 0 \in U
  <2>1. <<>> \in H /\ Len(<<>>) = 0
    OBVIOUS
  <2>2. Good(0)
    BY <1>5, <2>1
  <2> HIDE DEF Good
  <2> QED
    BY <1>1, <2>2
<1>8. ASSUME NEW n \in 0 .. N - 1, n \in U
      PROVE  n + 1 \in U /\ f[n + 1] = Append(f[n], words(n + 1, f[n]))
             /\ words(n + 1, f[n]) \in Seq(T)
  <2>1. n + 1 \in 1 .. N /\ n + 1 \in 0 .. N /\ (n + 1) - 1 = n /\ n \in Nat
    BY <1>1
  <2>2. Good(n)
    BY <1>8
  <2>3. \A j \in 1 .. n : f[n][j] \in Seq(T)
    BY <2>2
  <2>4. words(n + 1, f[n]) \in Seq(T)
    <3>1. \A j \in 1 .. (n + 1) - 1 : f[n][j] \in Seq(T)
      BY <2>1, <2>3
    <3> HIDE DEF words, above
    <3> QED
      BY <1>2, <2>1, <3>1
  <2>5. f[n + 1] = grow(n + 1, f[n])
    <3>1. f[n + 1] = grow(n + 1, f[(n + 1) - 1])
      BY <1>6, <2>1
    <3> HIDE DEF grow
    <3> QED
      BY <2>1, <3>1
  <2>6. Len(f[n]) = (n + 1) - 1
    BY <2>1, <2>2
  <2> HIDE DEF words
  <2>7. f[n + 1] = Append(f[n], words(n + 1, f[n]))
    BY <2>5, <2>6
  <2> DEFINE old == f[n]
             t == words(n + 1, f[n])
  <2>8. old \in Seq(Seq(T)) /\ Len(old) = n /\ t \in Seq(T)
    BY <2>2, <2>4
  <2>9. f[n + 1] = Append(old, t)
    BY <2>7
  <2>10. e[n + 1] = f[n + 1][n + 1] /\ \A j \in 1 .. n : old[j] = e[j] /\ e[j] \in Seq(T)
    BY <2>1, <2>2
  <2> HIDE DEF old, t, e
  <2>11. /\ Append(old, t) \in Seq(Seq(T)) /\ Len(Append(old, t)) = n + 1
         /\ Append(old, t)[n + 1] = t /\ \A j \in 1 .. n : Append(old, t)[j] = old[j]
    BY <2>1, <2>8
  <2>12. Good(n + 1)
    <3>1. f[n + 1][n + 1] = e[n + 1] /\ e[n + 1] \in Seq(T)
      BY <2>8, <2>9, <2>10, <2>11
    <3>2. \A j \in 1 .. n : f[n + 1][j] = e[j] /\ e[j] \in Seq(T)
      BY <2>9, <2>10, <2>11
    <3>3. \A j \in 1 .. n + 1 : j = n + 1 \/ j \in 1 .. n
      BY <2>1
    <3> QED
      BY <2>9, <2>11, <3>1, <3>2, <3>3
  <2> HIDE DEF Good
  <2> QED
    BY <2>1, <2>4, <2>7, <2>12
<1>9. \A n \in 0 .. N : n \in U
  <2> HIDE DEF U, N, words
  <2> QED
    BY <1>1, <1>7, <1>8, BoundedInduction
<1> HIDE DEF e
<1>10. ASSUME NEW k \in 1 .. N
       PROVE  e[k] = words(k, e) /\ e[k] \in Seq(T)
  <2>1. k - 1 \in 0 .. N - 1 /\ k - 1 \in U /\ k \in U /\ (k - 1) + 1 = k /\ k \in Nat
    BY <1>1, <1>9
  <2>2. f[k] = Append(f[k - 1], words(k, f[k - 1])) /\ words(k, f[k - 1]) \in Seq(T)
    <3>1. f[(k - 1) + 1] = Append(f[k - 1], words((k - 1) + 1, f[k - 1]))
          /\ words((k - 1) + 1, f[k - 1]) \in Seq(T)
      <4> HIDE DEF U, words
      <4> QED
        BY <1>8, <2>1
    <3> HIDE DEF words
    <3> QED
      BY <2>1, <3>1
  <2>3. f[k - 1] \in Seq(Seq(T)) /\ Len(f[k - 1]) = k - 1
        /\ \A j \in 1 .. k - 1 : f[k - 1][j] = e[j]
    BY <2>1
  <2>4. f[k][k] = e[k] /\ e[k] \in Seq(T)
    BY <2>1
  <2>5. words(k, f[k - 1]) = words(k, e)
    <3>1. \A name \in Private!NamesWithin(list, k - 1) :
             Private!LastWithin(list, name, k - 1) \in 1 .. k - 1
      <4>1. k - 1 \in Nat
        BY <2>1
      <4> QED
        BY <4>1, LastIsLast
    <3>2. above(k, f[k - 1]) = above(k, e)
      BY <2>3, <3>1
    <3> HIDE DEF above
    <3> QED
      BY <3>2
  <2> HIDE DEF words
  <2>6. Append(f[k - 1], words(k, f[k - 1]))[k] = words(k, f[k - 1])
    BY <2>1, <2>2, <2>3
  <2> QED
    BY <2>2, <2>4, <2>5, <2>6
<1> DEFINE isMeant(m) == m = [k \in DOMAIN list |-> words(k, m)]
           g == CHOOSE m : isMeant(m)
<1>11. isMeant(e)
  <2>1. e = [k \in 1 .. N |-> e[k]]
    BY DEF e
  <2>2. DOMAIN list = 1 .. N
    BY <1>1
  <2> HIDE DEF words, N
  <2> QED
    BY <1>10, <2>1, <2>2
<1>12. isMeant(g)
  <2> HIDE DEF isMeant
  <2> QED
    BY <1>11
<1>13. Private!Meanings(list) = g
  BY DEF Private!Meanings
<1> HIDE DEF g
<1> DEFINE m == Private!Meanings(list)
<1>14. m = [k \in 1 .. N |-> words(k, m)]
  BY <1>1, <1>12, <1>13
<1> HIDE DEF m
<1>15. \A k \in 1 .. N : m[k] = words(k, m)
  <2> HIDE DEF words, N
  <2> QED
    BY <1>14
<1>16. \A k \in 1 .. N : m[k] \in Seq(T)
  <2> DEFINE V == {n \in 0 .. N : \A k \in 1 .. n : m[k] \in Seq(T)}
  <2>1. 0 \in V
    BY <1>1
  <2>2. ASSUME NEW n \in 0 .. N - 1, n \in V PROVE n + 1 \in V
    <3>1. n + 1 \in 1 .. N /\ n + 1 \in 0 .. N /\ (n + 1) - 1 = n
          /\ \A k \in 1 .. (n + 1) - 1 : m[k] \in Seq(T)
      BY <1>1, <2>2
    <3>2. words(n + 1, m) \in Seq(T)
      <4> HIDE DEF words, above
      <4> QED
        BY <1>2, <3>1
    <3>3. m[n + 1] \in Seq(T)
      <4> HIDE DEF words
      <4> QED
        BY <1>15, <3>1, <3>2
    <3>4. \A k \in 1 .. n + 1 : m[k] \in Seq(T)
      <4>1. \A k \in 1 .. n + 1 : k = n + 1 \/ k \in 1 .. n
        BY <1>1
      <4> QED
        BY <2>2, <3>3, <4>1
    <3> QED
      BY <3>1, <3>4
  <2>3. \A n \in 0 .. N : n \in V
    <3> HIDE DEF V, N
    <3> QED
      BY <1>1, <2>1, <2>2, BoundedInduction
  <2>4. N \in V
    <3>1. N \in 0 .. N
      BY <1>1
    <3> HIDE DEF V
    <3> QED
      BY <2>3, <3>1
  <2> QED
    BY <2>4
<1>17. m \in [1 .. N -> Seq(T)]
  <2> HIDE DEF words, N
  <2> QED
    BY <1>14, <1>16
<1>18. ASSUME NEW n \in 0 .. N
       PROVE  TextsFor(Bound(list, n), T)
  <2>1. \A name \in Private!NamesWithin(list, n) : Private!LastWithin(list, name, n) \in 1 .. N
    <3>1. \A name \in Private!NamesWithin(list, n) : Private!LastWithin(list, name, n) \in 1 .. n
      <4>1. n \in Nat
        BY <1>1
      <4> QED
        BY <4>1, LastIsLast
    <3> QED
      BY <1>1, <3>1
  <2> QED
    BY <1>16, <2>1 DEF Bound, TextsFor, m
<1>19. \A k \in 1 .. N : above(k, m) = Bound(list, k - 1)
  BY DEF Bound, m
<1>20. \A k \in 1 .. N : m[k] = Private!Substitute(Private!Value(list[k]), Bound(list, k - 1))
  <2> HIDE DEF above, N
  <2> QED
    BY <1>15, <1>19
<1> QED
  BY <1>17, <1>18, <1>20 DEF m

\* In an ordered list no variable means a text that still refers to one.
LEMMA MeaningsAreFree ==
  ASSUME NEW T, NEW list, IsList(list, T), Private!Ordered(list)
  PROVE  \A k \in 1 .. Len(list) :
            Free(Private!Meanings(list)[k], Private!NamesWithin(list, Len(list)))
<1> DEFINE N == Len(list)
           refs == Private!NamesWithin(list, N)
           m == Private!Meanings(list)
           V == {n \in 0 .. N : \A k \in 1 .. n : Free(m[k], refs)}
<1>1. /\ N \in Nat /\ DOMAIN list = 1 .. N
      /\ \A k \in 1 .. N : Private!Value(list[k]) \in Seq(T)
      /\ \A n \in 0 .. N : TextsFor(Bound(list, n), T)
      /\ \A k \in 1 .. N : m[k] = Private!Substitute(Private!Value(list[k]), Bound(list, k - 1))
  <2>1. /\ \A n \in 0 .. N : TextsFor(Bound(list, n), T)
        /\ \A k \in 1 .. N :
              m[k] = Private!Substitute(Private!Value(list[k]), Bound(list, k - 1))
    BY MeaningsOf, ZenonT(60)
  <2>2. /\ N \in Nat /\ DOMAIN list = 1 .. N
        /\ \A k \in DOMAIN list : Private!Value(list[k]) \in Seq(T)
    BY DEF IsList
  <2> QED
    BY <2>1, <2>2
<1>2. 0 \in V
  BY <1>1
<1>3. ASSUME NEW n \in 0 .. N - 1, n \in V PROVE n + 1 \in V
  <2> DEFINE words == Private!Value(list[n + 1])
             bound == Bound(list, n)
  <2>1. /\ n + 1 \in 1 .. N /\ n + 1 \in 0 .. N /\ (n + 1) - 1 = n /\ n \in Nat /\ n \in 0 .. N
        /\ \A k \in 1 .. n : Free(m[k], refs)
    BY <1>1, <1>3
  <2>2. words \in Seq(T) /\ TextsFor(bound, T)
        /\ m[n + 1] = Private!Substitute(words, bound)
    <3>1. m[n + 1] = Private!Substitute(words, Bound(list, (n + 1) - 1))
      BY <1>1, <2>1
    <3> QED
      BY <1>1, <2>1, <3>1
  <2>3. DOMAIN bound = Private!NamesWithin(list, n)
    BY DEF Bound
  <2>4. \A name \in DOMAIN bound : Free(bound[name], refs)
    <3>1. \A name \in Private!NamesWithin(list, n) : Private!LastWithin(list, name, n) \in 1 .. n
      BY <2>1, LastIsLast
    <3> HIDE DEF refs, m
    <3> QED
      BY <2>1, <2>3, <3>1 DEF Bound, m
  <2>5. Free(words, refs \ DOMAIN bound)
    <3> SUFFICES ASSUME NEW j \in DOMAIN words, words[j].is = "ref", words[j].of \in refs,
                        words[j].of \notin DOMAIN bound
                 PROVE  FALSE
      BY DEF Free
    <3>1. PICK later \in 1 .. N : list[later].key = words[j].of
      BY DEF Private!NamesWithin
    <3>2. Private!IsRefTo(words[j], list[later].key)
      BY <3>1 DEF Private!IsRefTo
    <3>3. list[later].key \in Private!NamesWithin(list, (n + 1) - 1)
      <4>1. n + 1 \in DOMAIN list /\ later \in DOMAIN list
        BY <1>1, <2>1
      <4> HIDE DEF refs, m, bound
      <4> QED
        BY <3>2, <4>1 DEF Private!Ordered
    <3> QED
      BY <2>1, <2>3, <3>1, <3>3
  <2> HIDE DEF words, bound, refs, m
  <2>6. Free(m[n + 1], refs)
    BY <2>2, <2>4, <2>5, SubstituteFree
  <2>7. \A k \in 1 .. n + 1 : k = n + 1 \/ k \in 1 .. n
    BY <2>1
  <2> QED
    BY <2>1, <2>6, <2>7
<1>4. \A n \in 0 .. N : n \in V
  <2> HIDE DEF V, N
  <2> QED
    BY <1>1, <1>2, <1>3, BoundedInduction
<1>5. N \in 0 .. N
  BY <1>1
<1> QED
  BY <1>4, <1>5

\* The variables of a rewrite.
CodedBound(list) ==
    [name \in Private!NamesWithin(list, Len(list)) |->
        Private!FormEncode(Private!Meanings(list)[Private!LastWithin(list, name, Len(list))])]

\* The tokens of a file.
OfVariables(f) ==
    UNION {{Private!Value(f.vars[k])[j] : j \in DOMAIN Private!Value(f.vars[k])} :
              k \in DOMAIN f.vars}
Written(f) == OfVariables(f) \cup {f.rewrite[j] : j \in DOMAIN f.rewrite}
Tokens(f) == Written(f) \cup {Private!Encoded(token) : token \in Written(f)}

\* A private file has variables and a rewrite over the tokens it is written in.
LEMMA FileIsList ==
  ASSUME Private!RewriteAssumption, NEW f \in PrivateFiles
  PROVE  IsList(f.vars, Written(f)) /\ f.rewrite \in Seq(Written(f))
<1>1. /\ f.vars \in Seq({f.vars[k] : k \in DOMAIN f.vars})
      /\ \A k \in DOMAIN f.vars : Private!IsText(f.vars[k].value)
      /\ Private!IsText(f.rewrite)
      /\ \A name \in DOMAIN Environment : Private!IsText(Environment[name])
  BY DEF Private!RewriteAssumption
<1>2. ASSUME NEW k \in DOMAIN f.vars PROVE Private!IsText(Private!Value(f.vars[k]))
  BY <1>1 DEF Private!Value, Private!ResolveEnvironment
<1>3. ASSUME NEW words, Private!IsText(words), \A j \in DOMAIN words : words[j] \in Written(f)
      PROVE  words \in Seq(Written(f))
  <2>1. words \in Seq({words[j] : j \in DOMAIN words})
    BY <1>3 DEF Private!IsText
  <2>2. {words[j] : j \in DOMAIN words} \subseteq Written(f)
    BY <1>3
  <2> QED
    BY <2>1, <2>2
<1>4. ASSUME NEW k \in DOMAIN f.vars PROVE Private!Value(f.vars[k]) \in Seq(Written(f))
  <2> DEFINE words == Private!Value(f.vars[k])
             here == {words[j] : j \in DOMAIN words}
  <2>1. here \in {{Private!Value(f.vars[i])[j] : j \in DOMAIN Private!Value(f.vars[i])} :
                     i \in DOMAIN f.vars}
    BY Zenon
  <2>2. here \subseteq OfVariables(f)
    BY <2>1, Zenon DEF OfVariables
  <2>3. here \subseteq Written(f)
    BY <2>2 DEF Written
  <2>4. \A j \in DOMAIN words : words[j] \in Written(f)
    BY <2>3
  <2> QED
    BY <1>2, <1>3, <2>4
<1>5. \A j \in DOMAIN f.rewrite : f.rewrite[j] \in Written(f)
  BY DEF Written
<1> QED
  BY <1>1, <1>3, <1>4, <1>5 DEF IsList

\* What is encoded refers to nothing.
LEMMA CodedIsFree ==
  ASSUME NEW f, IsList(f.vars, Written(f)), NEW refs
  PROVE  /\ TextsFor(CodedBound(f.vars), Tokens(f))
         /\ \A name \in DOMAIN CodedBound(f.vars) : Free(CodedBound(f.vars)[name], refs)
<1> DEFINE list == f.vars
           N == Len(list)
           T == Written(f)
<1>1. N \in Nat /\ \A k \in 1 .. N : Private!Meanings(list)[k] \in Seq(T)
  <2>1. N \in Nat
    BY DEF IsList
  <2>2. Private!Meanings(list) \in [1 .. N -> Seq(T)]
    <3> HIDE DEF T
    <3> QED
      BY MeaningsOf DEF T
  <2> QED
    BY <2>1, <2>2
<1>2. ASSUME NEW words \in Seq(T)
      PROVE  Private!FormEncode(words) \in Seq(Tokens(f)) /\ Free(Private!FormEncode(words), refs)
  <2>1. /\ DOMAIN words = 1 .. Len(words) /\ Len(words) \in Nat
        /\ \A j \in 1 .. Len(words) : words[j] \in T
    OBVIOUS
  <2>2. \A j \in 1 .. Len(words) : Private!Encoded(words[j]) \in Tokens(f)
    BY <2>1 DEF Tokens
  <2>3. \A j \in DOMAIN words : Private!Encoded(words[j]).is # "ref"
    BY DEF Private!Encoded
  <2> QED
    BY <2>1, <2>2, <2>3 DEF Private!FormEncode, Free
<1>3. \A name \in Private!NamesWithin(list, N) : Private!LastWithin(list, name, N) \in 1 .. N
  BY <1>1, LastIsLast
<1>4. ASSUME NEW name \in DOMAIN CodedBound(list)
      PROVE  CodedBound(list)[name] \in Seq(Tokens(f)) /\ Free(CodedBound(list)[name], refs)
  <2>1. name \in Private!NamesWithin(list, N)
        /\ CodedBound(list)[name]
              = Private!FormEncode(Private!Meanings(list)[Private!LastWithin(list, name, N)])
    BY DEF CodedBound
  <2>2. Private!Meanings(list)[Private!LastWithin(list, name, N)] \in Seq(T)
    BY <1>1, <1>3, <2>1
  <2> HIDE DEF T
  <2> QED
    BY <1>2, <2>1, <2>2
<1> QED
  BY <1>4 DEF TextsFor

\* A substitution for some of its names.
Only(bound, refs) == [name \in refs |-> bound[name]]

\* What a text has become when all names but those in `left` are replaced.
Partly(words, bound, left) == Private!Substitute(words, Only(bound, DOMAIN bound \ left))

\* Replacing one more name leaves one reference less to replace.
LEMMA ReplaceStep ==
  ASSUME NEW T, NEW words \in Seq(T), NEW bound, TextsFor(bound, T),
         \A name \in DOMAIN bound : Free(bound[name], DOMAIN bound),
         NEW left, left \subseteq DOMAIN bound, NEW name \in left
  PROVE  Private!Replace(Partly(words, bound, left), name, bound[name])
            = Partly(words, bound, left \ {name})
<1> DEFINE one == Only(bound, DOMAIN bound \ left)
           other == [n \in {name} |-> bound[name]]
           rest == DOMAIN bound \ (left \ {name})
<1>1. TextsFor(one, T) /\ TextsFor(other, T)
  BY DEF TextsFor, Only
<1>2. Apart(one, other)
  BY DEF Only, Free, Apart
<1>3. Both(one, other) = Only(bound, rest)
  <2>1. DOMAIN one = DOMAIN bound \ left /\ DOMAIN other = {name}
        /\ \A n \in DOMAIN one : one[n] = bound[n]
        /\ other[name] = bound[name]
    BY DEF Only
  <2>2. DOMAIN one \cup DOMAIN other = rest
    BY <2>1
  <2> DEFINE value(n) == IF n \in DOMAIN one THEN one[n] ELSE other[n]
  <2>3. \A n \in rest : value(n) = bound[n]
    <3> SUFFICES ASSUME NEW n \in rest PROVE value(n) = bound[n]
      OBVIOUS
    <3>1. CASE n = name
      <4>1. n \notin DOMAIN one
        BY <2>1, <3>1
      <4> QED
        BY <2>1, <3>1, <4>1
    <3>2. CASE n # name
      <4>1. n \in DOMAIN one
        BY <2>1, <3>2
      <4> QED
        BY <2>1, <4>1
    <3> QED
      BY <3>1, <3>2
  <2>4. Both(one, other) = [n \in DOMAIN one \cup DOMAIN other |-> value(n)]
    BY Zenon DEF Both
  <2> HIDE DEF one, other, rest, value
  <2> QED
    BY <2>2, <2>3, <2>4 DEF Only
<1>4. Private!Replace(Partly(words, bound, left), name, bound[name])
         = Private!Substitute(Private!Substitute(words, one), other)
  BY DEF Private!Replace, Partly
<1> HIDE DEF one, other
<1>5. Private!Substitute(Private!Substitute(words, one), other)
         = Private!Substitute(words, Both(one, other))
  BY <1>1, <1>2, SubstituteTwice
<1> QED
  BY <1>3, <1>4, <1>5 DEF Partly

\* As long as every name is left the text is as written.
LEMMA NothingReplaced ==
  ASSUME NEW T, NEW words \in Seq(T), NEW bound
  PROVE  Partly(words, bound, DOMAIN bound) = words
<1> DEFINE none == Only(bound, DOMAIN bound \ DOMAIN bound)
<1>1. DOMAIN none = {}
  BY DEF Only
<1> HIDE DEF none
<1>2. TextsFor(none, T) /\ Free(words, DOMAIN none)
  BY <1>1 DEF TextsFor, Free
<1> QED
  BY <1>2, FreeUnchanged DEF Partly, none

\* ... and when all are.
LEMMA AllReplaced ==
  ASSUME NEW words, NEW bound, bound = [name \in DOMAIN bound |-> bound[name]]
  PROVE  Partly(words, bound, {}) = Private!Substitute(words, bound)
<1>1. Only(bound, DOMAIN bound \ {}) = bound
  BY DEF Only
<1> QED
  BY <1>1 DEF Partly


\* What is bound above a variable refers to nothing that is bound.
LEMMA BoundIsFree ==
  ASSUME NEW T, NEW list, IsList(list, T), Private!Ordered(list), NEW n \in 0 .. Len(list)
  PROVE  /\ TextsFor(Bound(list, n), T)
         /\ \A name \in DOMAIN Bound(list, n) : Free(Bound(list, n)[name], DOMAIN Bound(list, n))
<1> DEFINE N == Len(list)
           m == Private!Meanings(list)
<1>1. N \in Nat /\ TextsFor(Bound(list, n), T)
  <2>1. N \in Nat
    BY DEF IsList
  <2> QED
    BY <2>1, MeaningsOf
<1>2. \A k \in 1 .. N : Free(m[k], Private!NamesWithin(list, N))
  BY MeaningsAreFree
<1>3. Private!NamesWithin(list, n) \subseteq Private!NamesWithin(list, N)
  BY <1>1 DEF Private!NamesWithin
<1>4. \A name \in Private!NamesWithin(list, n) : Private!LastWithin(list, name, n) \in 1 .. N
  <2>1. n \in Nat /\ \A k \in 1 .. n : k \in 1 .. N
    BY <1>1
  <2>2. \A name \in Private!NamesWithin(list, n) : Private!LastWithin(list, name, n) \in 1 .. n
    BY <2>1, LastIsLast
  <2> QED
    BY <2>1, <2>2
<1>5. DOMAIN Bound(list, n) = Private!NamesWithin(list, n)
      /\ \A name \in Private!NamesWithin(list, n) :
            Bound(list, n)[name] = m[Private!LastWithin(list, name, n)]
  BY DEF Bound
<1> HIDE DEF m
<1>6. \A name \in Private!NamesWithin(list, n) :
         Free(m[Private!LastWithin(list, name, n)], Private!NamesWithin(list, N))
  BY <1>2, <1>4
<1>7. \A words : Free(words, Private!NamesWithin(list, N))
        => Free(words, Private!NamesWithin(list, n))
  BY <1>3 DEF Free
<1> QED
  BY <1>1, <1>5, <1>6, <1>7

\* A variable that is expanded means what its author reads.
LEMMA ExpandedIsMeaning ==
  ASSUME NEW T, NEW list, IsList(list, T), NEW n \in 0 .. Len(list) - 1
  PROVE  Partly(Private!Value(list[n + 1]), Bound(list, n), {}) = Private!Meanings(list)[n + 1]
<1> DEFINE bound == Bound(list, n)
<1>1. bound = [name \in DOMAIN bound |-> bound[name]]
  BY DEF Bound
<1>2. Partly(Private!Value(list[n + 1]), bound, {})
        = Private!Substitute(Private!Value(list[n + 1]), bound)
  <2> HIDE DEF bound
  <2> QED
    BY <1>1, AllReplaced
<1>3. Len(list) \in Nat /\ n + 1 \in 1 .. Len(list) /\ (n + 1) - 1 = n
  BY DEF IsList
<1>4. Private!Meanings(list)[n + 1]
        = Private!Substitute(Private!Value(list[n + 1]), Bound(list, (n + 1) - 1))
  BY <1>3, MeaningsOf
<1> QED
  BY <1>2, <1>3, <1>4

\* Defining it binds its name for the variables below.
LEMMA DefineBinds ==
  ASSUME NEW list, NEW n \in Nat
  PROVE  Private!Bind(Bound(list, n), list[n + 1].key, Private!Meanings(list)[n + 1])
            = Bound(list, n + 1)
<1> DEFINE key == list[n + 1].key
           m == Private!Meanings(list)
           refs == Private!NamesWithin(list, n)
           value(name) == IF name = key THEN m[n + 1] ELSE Bound(list, n)[name]
<1>1. /\ Private!NamesWithin(list, n + 1) = refs \cup {key}
      /\ Private!LastWithin(list, key, n + 1) = n + 1
      /\ \A name \in refs \ {key} :
            Private!LastWithin(list, name, n + 1) = Private!LastWithin(list, name, n)
  BY LastStep
<1>2. DOMAIN Bound(list, n) = refs
      /\ \A name \in refs : Bound(list, n)[name] = m[Private!LastWithin(list, name, n)]
  BY DEF Bound
<1> HIDE DEF key, m, refs
<1>3. \A name \in refs \cup {key} : value(name) = m[Private!LastWithin(list, name, n + 1)]
  <2> SUFFICES ASSUME NEW name \in refs \cup {key}
               PROVE  value(name) = m[Private!LastWithin(list, name, n + 1)]
    OBVIOUS
  <2>1. CASE name = key
    BY <1>1, <2>1
  <2>2. CASE name # key
    <3>1. name \in refs /\ name \in refs \ {key}
      BY <2>2
    <3> QED
      BY <1>1, <1>2, <2>2, <3>1
  <2> QED
    BY <2>1, <2>2
<1>4. Private!Bind(Bound(list, n), key, m[n + 1]) = [name \in refs \cup {key} |-> value(name)]
  BY <1>2, Zenon DEF Private!Bind
<1> HIDE DEF value
<1>5. Bound(list, n + 1) = [name \in refs \cup {key} |-> m[Private!LastWithin(list, name, n + 1)]]
  BY <1>1 DEF Bound, m
<1>6. Private!Bind(Bound(list, n), key, m[n + 1]) = Bound(list, n + 1)
  BY <1>3, <1>4, <1>5
<1> QED
  BY <1>6 DEF key, m

\* Encoding the variables gives those of a rewrite.
LEMMA EncodedBound ==
  ASSUME NEW list
  PROVE  Private!Encode(Bound(list, Len(list))) = CodedBound(list)
<1> DEFINE refs == Private!NamesWithin(list, Len(list))
           value(name) == Private!Meanings(list)[Private!LastWithin(list, name, Len(list))]
           bound == Bound(list, Len(list))
<1>1. DOMAIN bound = refs /\ \A name \in refs : bound[name] = value(name)
  BY DEF Bound
<1>2. Private!Encode(bound) = [name \in DOMAIN bound |-> Private!FormEncode(bound[name])]
  BY Zenon DEF Private!Encode
<1>3. CodedBound(list) = [name \in refs |-> Private!FormEncode(value(name))]
  BY Zenon DEF CodedBound
<1> HIDE DEF refs, value, bound
<1>4. Private!Encode(bound) = CodedBound(list)
  BY <1>1, <1>2, <1>3
<1> QED
  BY <1>4 DEF bound

\* The state between two steps of prepare: what is bound, and how much of the
\* text that is being expanded is replaced.
PrivateTyped ==
    /\ file \in PrivateFiles
    /\ phase \in {"variable", "expanding", "routing", "ready"}
    /\ index \in 0 .. Len(file.vars)
    /\ phase = "expanding" => index < Len(file.vars)
Defining ==
    /\ phase \in {"variable", "expanding"} => variables = Bound(file.vars, index)
    /\ phase = "expanding" =>
          /\ todo \subseteq DOMAIN variables
          /\ current = Partly(Private!Value(file.vars[index + 1]), variables, todo)
Routing ==
    phase = "routing" =>
        /\ variables = CodedBound(file.vars)
        /\ todo \subseteq DOMAIN variables
        /\ current = Partly(file.rewrite, variables, todo)
Routed == phase = "ready" => route = Private!Intended(file.vars, file.rewrite)
PrivateInv ==
    PrivateTyped /\ (Private!Ordered(file.vars) => Defining /\ Routing /\ Routed)

\* No variable is read yet.
LEMMA RewriteStarts ==
  ASSUME Private!RewriteAssumption, Private!Init
  PROVE  PrivateInv
<1>1. PrivateTyped
  <2>1. file \in PrivateFiles /\ phase = "variable" /\ index = 0
    BY DEF Private!Init
  <2>2. Len(file.vars) \in Nat
    BY <2>1, FileIsList DEF IsList
  <2> QED
    BY <2>1, <2>2 DEF PrivateTyped
<1>2. variables = Bound(file.vars, index)
  <2>1. Private!NamesWithin(file.vars, 0) = {}
    BY DEF Private!NamesWithin
  <2>2. Bound(file.vars, 0) = <<>>
    BY <2>1 DEF Bound
  <2> QED
    BY <2>2 DEF Private!Init
<1> QED
  BY <1>1, <1>2 DEF PrivateInv, Defining, Routing, Routed, Private!Init

\* Every step keeps variables bound to their meanings and the rewrite on its way.
LEMMA RewriteKept ==
  ASSUME Private!RewriteAssumption, PrivateInv, [Private!Next]_(Private!vars)
  PROVE  PrivateInv'
<1> DEFINE list == file.vars
           N == Len(list)
           T == Written(file)
           meant == Private!Ordered(list)
<1>1. /\ IsList(list, T) /\ file.rewrite \in Seq(T)
      /\ N \in Nat /\ DOMAIN list = 1 .. N
      /\ \A k \in 1 .. N : Private!Value(list[k]) \in Seq(T)
  <2>1. IsList(list, T) /\ file.rewrite \in Seq(T)
    BY FileIsList DEF PrivateInv, PrivateTyped
  <2>2. N \in Nat /\ DOMAIN list = 1 .. N
    BY <2>1 DEF IsList
  <2> QED
    BY <2>1, <2>2 DEF IsList
<1>2. PrivateTyped /\ (meant => Defining /\ Routing /\ Routed)
  BY DEF PrivateInv
<1>3. CASE UNCHANGED Private!vars
  BY <1>2, <1>3 DEF Private!vars, PrivateInv, PrivateTyped, Defining, Routing, Routed
<1>4. CASE Private!StartVariable
  <2>1. /\ phase = "variable" /\ index < N /\ phase' = "expanding" /\ todo' = DOMAIN variables
        /\ file' = file /\ index' = index /\ variables' = variables
        /\ current' = Private!Value(list[index + 1])
    BY <1>4 DEF Private!StartVariable, Private!Value
  <2>2. PrivateTyped'
    BY <1>2, <2>1 DEF PrivateTyped
  <2>3. current' = Partly(Private!Value(list[index + 1]), variables, DOMAIN variables)
    <3>1. Private!Value(list[index + 1]) \in Seq(T)
      BY <1>1, <1>2, <2>1 DEF PrivateTyped
    <3> HIDE DEF T
    <3> QED
      BY <2>1, <3>1, NothingReplaced
  <2>4. ASSUME meant PROVE Defining' /\ Routing' /\ Routed'
    BY <1>2, <2>1, <2>3, <2>4 DEF Defining, Routing, Routed
  <2> QED
    BY <2>1, <2>2, <2>4 DEF PrivateInv
<1>5. CASE Private!ReplaceOne
  <2>1. PICK name \in todo : current' = Private!Replace(current, name, variables[name])
                             /\ todo' = todo \ {name}
    BY <1>5 DEF Private!ReplaceOne
  <2>2. /\ phase \in {"expanding", "routing"} /\ phase' = phase /\ file' = file
        /\ index' = index /\ variables' = variables
    BY <1>5 DEF Private!ReplaceOne
  <2>3. PrivateTyped'
    BY <1>2, <2>2 DEF PrivateTyped
  <2>4. ASSUME meant, phase = "expanding" PROVE Defining' /\ Routing' /\ Routed'
    <3> DEFINE given == Private!Value(list[index + 1])
    <3>1. variables = Bound(list, index) /\ todo \subseteq DOMAIN variables
          /\ current = Partly(given, variables, todo)
      BY <1>2, <2>4 DEF Defining
    <3>2. given \in Seq(T) /\ index \in 0 .. N
      BY <1>1, <1>2, <2>4 DEF PrivateTyped
    <3>3. TextsFor(variables, T)
          /\ \A n \in DOMAIN variables : Free(variables[n], DOMAIN variables)
      <4> HIDE DEF T
      <4> QED
        BY <1>1, <2>4, <3>1, <3>2, BoundIsFree
    <3> HIDE DEF given, T
    <3>4. Private!Replace(Partly(given, variables, todo), name, variables[name])
             = Partly(given, variables, todo \ {name})
      BY <3>1, <3>2, <3>3, ReplaceStep
    <3>5. current' = Partly(given, variables, todo')
      BY <2>1, <3>1, <3>4
    <3>6. todo' \subseteq DOMAIN variables
      BY <2>1, <3>1
    <3> QED
      BY <2>2, <2>4, <3>1, <3>5, <3>6 DEF Defining, Routing, Routed, given
  <2>5. ASSUME meant, phase = "routing" PROVE Defining' /\ Routing' /\ Routed'
    <3> DEFINE Z == Tokens(file)
               given == file.rewrite
    <3>1. variables = CodedBound(list) /\ todo \subseteq DOMAIN variables
          /\ current = Partly(given, variables, todo)
      BY <1>2, <2>5 DEF Routing
    <3>2. given \in Seq(Z)
      <4>1. T \subseteq Z
        BY DEF Tokens
      <4> HIDE DEF T, Z
      <4> QED
        BY <1>1, <4>1
    <3>3. TextsFor(variables, Z)
          /\ \A n \in DOMAIN variables : Free(variables[n], DOMAIN variables)
      BY <1>1, <3>1, CodedIsFree
    <3> HIDE DEF given, Z
    <3>4. Private!Replace(Partly(given, variables, todo), name, variables[name])
             = Partly(given, variables, todo \ {name})
      BY <3>1, <3>2, <3>3, ReplaceStep
    <3>5. current' = Partly(given, variables, todo')
      BY <2>1, <3>1, <3>4
    <3>6. todo' \subseteq DOMAIN variables
      BY <2>1, <3>1
    <3> QED
      BY <2>2, <2>5, <3>1, <3>5, <3>6 DEF Defining, Routing, Routed, given
  <2> QED
    BY <2>2, <2>3, <2>4, <2>5 DEF PrivateInv
<1>6. CASE Private!Define
  <2>1. /\ phase = "expanding" /\ todo = {} /\ phase' = "variable" /\ file' = file
        /\ index' = index + 1
        /\ variables' = Private!Bind(variables, list[index + 1].key, current)
    BY <1>6 DEF Private!Define
  <2>2. index \in 0 .. N - 1 /\ index \in Nat /\ index + 1 \in 0 .. N
    BY <1>1, <1>2, <2>1 DEF PrivateTyped
  <2>3. PrivateTyped'
    BY <1>2, <2>1, <2>2 DEF PrivateTyped
  <2>4. ASSUME meant PROVE Defining' /\ Routing' /\ Routed'
    <3>1. variables = Bound(list, index)
          /\ current = Partly(Private!Value(list[index + 1]), Bound(list, index), {})
      BY <1>2, <2>1, <2>4 DEF Defining
    <3>2. current = Private!Meanings(list)[index + 1]
      <4> HIDE DEF T
      <4> QED
        BY <1>1, <2>2, <3>1, ExpandedIsMeaning
    <3>3. variables' = Bound(list, index + 1)
      BY <2>1, <2>2, <3>1, <3>2, DefineBinds
    <3> QED
      BY <2>1, <3>3 DEF Defining, Routing, Routed
  <2> QED
    BY <2>1, <2>3, <2>4 DEF PrivateInv
<1>7. CASE Private!StartRewrite
  <2>1. /\ phase = "variable" /\ index = N /\ phase' = "routing" /\ file' = file /\ index' = index
        /\ variables' = Private!Encode(variables) /\ todo' = DOMAIN variables
        /\ current' = file.rewrite
    BY <1>7 DEF Private!StartRewrite
  <2>2. PrivateTyped'
    BY <1>2, <2>1 DEF PrivateTyped
  <2>3. ASSUME meant PROVE Defining' /\ Routing' /\ Routed'
    <3>1. variables = Bound(list, N)
      BY <1>2, <2>1, <2>3 DEF Defining
    <3>2. variables' = CodedBound(list) /\ todo' = DOMAIN CodedBound(list)
      <4>1. DOMAIN Bound(list, N) = DOMAIN CodedBound(list)
        BY DEF Bound, CodedBound
      <4> QED
        BY <2>1, <3>1, <4>1, EncodedBound
    <3>3. current' = Partly(file.rewrite, CodedBound(list), DOMAIN CodedBound(list))
      <4> HIDE DEF T
      <4> QED
        BY <1>1, <2>1, NothingReplaced
    <3> QED
      BY <2>1, <3>2, <3>3 DEF Defining, Routing, Routed
  <2> QED
    BY <2>1, <2>2, <2>3 DEF PrivateInv
<1>8. CASE Private!Route
  <2>1. phase = "routing" /\ todo = {} /\ phase' = "ready" /\ file' = file /\ index' = index
        /\ route' = current
    BY <1>8 DEF Private!Route
  <2>2. PrivateTyped'
    BY <1>2, <2>1 DEF PrivateTyped
  <2>3. ASSUME meant PROVE Defining' /\ Routing' /\ Routed'
    <3>1. route' = Partly(file.rewrite, CodedBound(list), {})
      BY <1>2, <2>1, <2>3 DEF Routing
    <3>2. CodedBound(list) = [name \in DOMAIN CodedBound(list) |-> CodedBound(list)[name]]
      BY DEF CodedBound
    <3>3. route' = Private!Substitute(file.rewrite, CodedBound(list))
      BY <3>1, <3>2, AllReplaced
    <3>4. Private!Intended(list, file.rewrite) = Private!Substitute(file.rewrite, CodedBound(list))
      BY Zenon DEF Private!Intended, CodedBound
    <3> QED
      BY <2>1, <3>3, <3>4 DEF Defining, Routing, Routed
  <2> QED
    BY <2>1, <2>2, <2>3 DEF PrivateInv
<1> QED
  BY <1>3, <1>4, <1>5, <1>6, <1>7, <1>8 DEF Private!Next

\* However the HashMap orders the variables: a rewrite whose variables only refer
\* to earlier ones becomes what its author reads (prepare and expand in private.rs).
THEOREM RoutesAreIntended == AnySpec => []RouteIsIntended
<1> DEFINE Inv == subject = "private" => PrivateInv
<1>1. AnyInit => Inv
  <2> SUFFICES ASSUME AnyInit, subject = "private" PROVE PrivateInv
    OBVIOUS
  <2>1. Private!Init
    BY DEF AnyInit
  <2> QED
    BY <2>1, RewriteStarts, AlgorithmsAssumption
<1>2. Inv /\ [AnyStep]_all => Inv'
  <2> SUFFICES ASSUME Inv, [AnyStep]_all, subject' = "private"
               PROVE  PrivateInv'
    OBVIOUS
  <2>1. PrivateInv /\ [Private!Next]_(Private!vars)
    BY StepOfSubject
  <2> QED
    BY <2>1, RewriteKept, AlgorithmsAssumption
<1>3. Inv => RouteIsIntended
  BY DEF PrivateInv, Routed, RouteIsIntended, Private!RouteIsIntended
<1> QED
  BY <1>1, <1>2, <1>3, PTL DEF AnySpec

-----------------------------------------------------------------------------
(* ExternalGroups: the numbers of a range.                                   *)

\* Tokens that are a number.
Reads(tokens, n) ==
    /\ n \in Int /\ tokens \in Seq(Int)
    /\ \/ n >= 0 /\ Len(tokens) = 1 /\ tokens[1] = n
       \/ n < 0 /\ Len(tokens) = 2 /\ tokens[1] = Groups!Hyphen /\ tokens[2] = -n

\* A number, as it is written, reads as itself ...
LEMMA SignedReads ==
  ASSUME NEW n \in Int
  PROVE  Reads(Groups!Signed(n), n)
<1>1. CASE n < 0
  <2>1. Groups!Signed(n) = <<Groups!Hyphen, -n>>
    BY <1>1 DEF Groups!Signed
  <2>2. Groups!Hyphen \in Int
    BY DEF Groups!Hyphen
  <2> HIDE DEF Groups!Hyphen
  <2>3. <<Groups!Hyphen, -n>> \in Seq(Int) /\ Len(<<Groups!Hyphen, -n>>) = 2
    BY <2>2
  <2> QED
    BY <1>1, <2>1, <2>3 DEF Reads
<1>2. CASE n >= 0
  BY <1>2 DEF Reads, Groups!Signed
<1> QED
  BY <1>1, <1>2

\* ... and as nothing else.
LEMMA NumberRead ==
  ASSUME NEW tokens, NEW n, Reads(tokens, n)
  PROVE  Groups!Number(tokens) = {n}
<1>1. CASE n >= 0
  BY <1>1 DEF Reads, Groups!Number
<1>2. CASE n < 0
  BY <1>2 DEF Reads, Groups!Number, Groups!Plus, Groups!Hyphen
<1> QED
  BY <1>1, <1>2 DEF Reads

\* A token after a number.
LEMMA Appended ==
  ASSUME NEW s \in Seq(Int), Len(s) >= 1, NEW e \in Int
  PROVE  /\ s \o <<e>> \in Seq(Int) /\ s \o <<e>> # <<>> /\ Len(s \o <<e>>) = Len(s) + 1
         /\ \A k \in 1 .. Len(s) : (s \o <<e>>)[k] = s[k]
         /\ (s \o <<e>>)[Len(s) + 1] = e
         /\ Groups!Last(s \o <<e>>) = e
         /\ Groups!Front(s \o <<e>>) = s
         /\ Head(s \o <<e>>) = s[1]
<1> DEFINE t == s \o <<e>>
<1>1. /\ t \in Seq(Int) /\ Len(t) = Len(s) + 1 /\ Len(s) \in Nat
      /\ \A k \in 1 .. Len(s) : t[k] = s[k]
      /\ t[Len(s) + 1] = e
  OBVIOUS
<1> HIDE DEF t
<1>2. t # <<>> /\ Groups!Last(t) = e /\ Head(t) = s[1]
  BY <1>1 DEF Groups!Last
<1>3. Groups!Front(t) = s
  <2> DEFINE f == SubSeq(t, 1, Len(t) - 1)
  <2>1. f = [k \in 1 .. Len(s) |-> t[k]]
    BY <1>1
  <2>2. s = [k \in 1 .. Len(s) |-> s[k]]
    OBVIOUS
  <2>3. f = s
    BY <1>1, <2>1, <2>2
  <2> QED
    BY <2>3 DEF Groups!Front
<1> QED
  BY <1>1, <1>2, <1>3 DEF t

\* An item includes what its spelling says.
LEMMA ItemSays ==
  ASSUME NEW item, Groups!Writable(item), NEW wish \in Int
  PROVE  Groups!ItemMatches(item, wish) <=> Groups!Includes(item, wish)
<1> USE DEF Groups!Plus, Groups!Hyphen
<1>1. /\ item.low \subseteq Int /\ item.high \subseteq Int
      /\ \A m, n \in item.low : m = n
      /\ \A m, n \in item.high : m = n
      /\ item.low = {} => item.high \subseteq Nat
      /\ item.high # {} /\ item.high # item.low => item.low \subseteq Nat
  BY DEF Groups!Writable
<1>6. CASE item.low = {} /\ item.high = {}
  <2>1. Groups!Spelling(item) = {<<>>}
    BY <1>6 DEF Groups!Spelling
  <2>2. Groups!Number(<<>>) = {} /\ Groups!SplitsAt(<<>>) = {}
    BY DEF Groups!Number, Groups!SplitsAt
  <2>3. ~Groups!EndsWith(<<>>, Groups!Plus) /\ ~Groups!EndsWith(<<>>, Groups!Hyphen)
    BY DEF Groups!EndsWith
  <2>4. ~Groups!MatchRangeItem(<<>>, wish)
    BY <2>2, <2>3 DEF Groups!MatchRangeItem
  <2> QED
    BY <1>6, <2>1, <2>4 DEF Groups!ItemMatches, Groups!Includes
<1>2. CASE item.high = {} /\ item.low # {}
  <2>1. PICK m \in Int : item.low = {m}
    BY <1>1, <1>2
  <2> DEFINE tokens == Groups!Signed(m) \o <<Groups!Plus>>
  <2>2. Groups!Spelling(item) = {tokens}
    BY <1>2, <2>1 DEF Groups!Spelling
  <2>3. Reads(Groups!Signed(m), m)
    BY SignedReads
  <2>4. /\ tokens # <<>> /\ Groups!Last(tokens) = Groups!Plus
        /\ Groups!Front(tokens) = Groups!Signed(m)
    BY <2>3, Appended DEF Reads
  <2>5. Groups!Number(Groups!Front(tokens)) = {m}
    BY <2>3, <2>4, NumberRead
  <2> HIDE DEF tokens
  <2>6. Groups!MatchRangeItem(tokens, wish) <=> wish >= m
    BY <2>4, <2>5 DEF Groups!MatchRangeItem, Groups!EndsWith
  <2>7. Groups!ItemMatches(item, wish) <=> wish >= m
    BY <2>2, <2>6 DEF Groups!ItemMatches
  <2> QED
    BY <1>2, <2>1, <2>7 DEF Groups!Includes
<1>3. CASE item.high # {} /\ item.low = {}
  <2>1. PICK n \in Nat : item.high = {n}
    BY <1>1, <1>3
  <2> DEFINE tokens == Groups!Signed(n) \o <<Groups!Hyphen>>
  <2>2. Groups!Spelling(item) = {tokens}
    BY <1>3, <2>1 DEF Groups!Spelling
  <2>3. Reads(Groups!Signed(n), n)
    BY SignedReads
  <2>4. /\ tokens # <<>> /\ Groups!Last(tokens) = Groups!Hyphen
        /\ Groups!Front(tokens) = Groups!Signed(n) /\ Head(tokens) = n
    BY <2>3, Appended DEF Reads
  <2>5. Groups!Number(Groups!Front(tokens)) = {n}
    BY <2>3, <2>4, NumberRead
  <2> HIDE DEF tokens
  <2>6. Groups!MatchRangeItem(tokens, wish) <=> wish <= n
    BY <2>4, <2>5 DEF Groups!MatchRangeItem, Groups!EndsWith
  <2>7. Groups!ItemMatches(item, wish) <=> wish <= n
    BY <2>2, <2>6 DEF Groups!ItemMatches
  <2> QED
    BY <1>3, <2>1, <2>7 DEF Groups!Includes
<1>4. CASE item.high # {} /\ item.low = item.high
  <2>1. PICK n \in Int : item.low = {n} /\ item.high = {n}
    BY <1>1, <1>4
  <2> DEFINE tokens == Groups!Signed(n)
  <2>2. Groups!Spelling(item) = {tokens}
    BY <1>4, <2>1 DEF Groups!Spelling
  <2>3. Reads(tokens, n)
    BY SignedReads
  <2> HIDE DEF tokens
  <2>4. tokens # <<>> /\ Groups!Last(tokens) \in Nat /\ Groups!SplitsAt(tokens) = {}
    BY <2>3 DEF Reads, Groups!Last, Groups!SplitsAt
  <2>5. Groups!Number(tokens) = {n}
    BY <2>3, NumberRead
  <2>6. Groups!MatchRangeItem(tokens, wish) <=> wish = n
    BY <2>4, <2>5 DEF Groups!MatchRangeItem, Groups!EndsWith
  <2>7. Groups!ItemMatches(item, wish) <=> wish = n
    BY <2>2, <2>6 DEF Groups!ItemMatches
  <2> QED
    BY <2>1, <2>7 DEF Groups!Includes
<1>5. CASE item.high # {} /\ item.low # {} /\ item.low # item.high
  <2>1. PICK m \in Nat, n \in Int : item.low = {m} /\ item.high = {n}
    BY <1>1, <1>5
  <2> DEFINE last == Groups!Signed(n)
             begins == Groups!Signed(m)
             front == begins \o <<Groups!Hyphen>>
             tokens == front \o last
  <2>2. Groups!Spelling(item) = {tokens}
    <3>1. Groups!Spelling(item)
             = UNION {{Groups!Signed(a) \o <<Groups!Hyphen>> \o Groups!Signed(b) : a \in item.low} :
                         b \in item.high}
      BY <1>5 DEF Groups!Spelling
    <3> DEFINE piece(a, b) == Groups!Signed(a) \o <<Groups!Hyphen>> \o Groups!Signed(b)
                pieces(L, H) == UNION {{piece(a, b) : a \in L} : b \in H}
    <3>2. Groups!Spelling(item) = pieces(item.low, item.high)
      BY <3>1
    <3>3. tokens = piece(m, n)
      OBVIOUS
    <3> HIDE DEF piece, tokens
    <3>4. {piece(a, n) : a \in {m}} = {tokens}
      BY Zenon, <3>3
    <3>5. {{piece(a, b) : a \in {m}} : b \in {n}} = {{tokens}}
      BY Zenon, <3>4
    <3>6. pieces({m}, {n}) = {tokens}
      BY <3>5
    <3> HIDE DEF pieces
    <3> QED
      BY <2>1, <3>2, <3>6
  <2>3. Reads(last, n) /\ Reads(begins, m)
    BY SignedReads
  <2> HIDE DEF last, begins
  <2>4. front \in Seq(Int) /\ Len(front) = 2 /\ front[1] = m /\ front[2] = Groups!Hyphen
    <3>1. begins \in Seq(Int) /\ Len(begins) = 1 /\ begins[1] = m
      BY <2>3 DEF Reads
    <3>2. Groups!Hyphen \in Int /\ Len(begins) >= 1
      BY <3>1 DEF Groups!Hyphen
    <3> HIDE DEF Groups!Hyphen
    <3>3. /\ front \in Seq(Int) /\ Len(front) = Len(begins) + 1
          /\ \A k \in 1 .. Len(begins) : front[k] = begins[k]
          /\ front[Len(begins) + 1] = Groups!Hyphen
      BY <3>1, <3>2, Appended, Zenon
    <3> QED
      BY <3>1, <3>3
  <2> HIDE DEF front
  <2>5. /\ Len(last) \in {1, 2} /\ last \in Seq(Int)
        /\ tokens \in Seq(Int) /\ Len(tokens) = 2 + Len(last)
        /\ tokens[1] = m /\ tokens[2] = Groups!Hyphen
        /\ \A k \in 1 .. Len(last) : tokens[k + 2] = last[k]
    <3>1. Len(last) \in {1, 2} /\ last \in Seq(Int)
      BY <2>3 DEF Reads
    <3>2. /\ tokens \in Seq(Int) /\ Len(tokens) = 2 + Len(last)
          /\ \A k \in 1 .. 2 + Len(last) : tokens[k] = IF k <= 2 THEN front[k] ELSE last[k - 2]
      <4>1. /\ tokens \in Seq(Int) /\ Len(tokens) = Len(front) + Len(last)
            /\ \A k \in 1 .. Len(front) + Len(last) :
                  tokens[k] = IF k <= Len(front) THEN front[k] ELSE last[k - Len(front)]
        BY <2>4, <3>1, ConcatProperties
      <4> QED
        BY <2>4, <4>1
    <3> HIDE DEF tokens
    <3>3. tokens[1] = m /\ tokens[2] = Groups!Hyphen
      BY <2>4, <3>1, <3>2
    <3>4. \A k \in 1 .. Len(last) : tokens[k + 2] = last[k]
      <4>1. \A k \in 1 .. Len(last) :
                 k + 2 \in 1 .. 2 + Len(last) /\ ~(k + 2 <= 2) /\ (k + 2) - 2 = k
        BY <3>1
      <4> QED
        BY <3>2, <4>1
    <3> QED
      BY <3>1, <3>2, <3>3, <3>4
  <2> HIDE DEF tokens
  <2>6. Len(last) \in 1 .. Len(last) /\ Len(tokens) = Len(last) + 2
    <3>1. Len(last) = 1 \/ Len(last) = 2
      BY <2>5
    <3>2. Len(tokens) = 2 + Len(last)
      BY <2>5
    <3> QED
      BY <3>1, <3>2
  <2>7. tokens # <<>> /\ Groups!Last(tokens) \in Nat /\ Groups!SplitsAt(tokens) = {2}
    <3>1. Groups!Last(tokens) = last[Len(last)]
      BY <2>5, <2>6 DEF Groups!Last
    <3>2. last[Len(last)] \in Nat
      <4>1. CASE n >= 0
        BY <2>3, <4>1 DEF Reads
      <4>2. CASE n < 0
        BY <2>3, <4>2 DEF Reads
      <4> QED
        BY <4>1, <4>2
    <3>3. 2 \in 2 .. Len(tokens) - 1 /\ \A j \in 1 .. 2 - 1 : tokens[j] # Groups!Hyphen
      <4>1. 2 \in 2 .. Len(tokens) - 1
        BY <2>6
      <4>2. \A j \in 1 .. 2 - 1 : j = 1
        OBVIOUS
      <4> QED
        BY <2>5, <4>1, <4>2
    <3>4. ASSUME NEW k \in 2 .. Len(tokens) - 1, k # 2
          PROVE  \E j \in 1 .. k - 1 : tokens[j] = Groups!Hyphen
      <4>1. 2 \in 1 .. k - 1
        BY <2>5, <3>4
      <4> QED
        BY <2>5, <4>1
    <3>5. Groups!SplitsAt(tokens) = {2}
      BY <2>5, <3>3, <3>4 DEF Groups!SplitsAt
    <3> QED
      BY <2>5, <3>1, <3>2, <3>5
  <2>8. Groups!Number(SubSeq(tokens, 1, 2 - 1)) = {m}
    <3> DEFINE begin == SubSeq(tokens, 1, 1)
    <3>1. begin \in Seq(Int) /\ Len(begin) = 1 /\ begin[1] = m
      <4>1. \A k \in 1 .. 1 : tokens[k] \in Int
        BY <2>5
      <4> QED
        BY <2>5, <4>1, SubSeqProperties
    <3> HIDE DEF begin
    <3>2. Reads(begin, m)
      BY <3>1 DEF Reads
    <3>3. 2 - 1 = 1
      OBVIOUS
    <3>4. Groups!Number(begin) = {m}
      BY <3>2, NumberRead
    <3> QED
      BY <3>3, <3>4 DEF begin
  <2>9. Groups!Number(SubSeq(tokens, 2 + 1, Len(tokens))) = {n}
    <3> DEFINE rest == SubSeq(tokens, 3, Len(tokens))
    <3>1. rest \in Seq(Int) /\ Len(rest) = Len(last)
          /\ \A k \in 1 .. Len(last) : rest[k] = tokens[k + 2]
      <4>1. \A k \in 3 .. Len(tokens) : tokens[k] \in Int
        BY <2>5
      <4>2. 3 \in Int /\ Len(tokens) \in Int /\ 3 <= Len(tokens)
        <5>1. Len(last) = 1 \/ Len(last) = 2
          BY <2>5
        <5> QED
          BY <2>6, <5>1
      <4>3. /\ rest \in Seq(Int) /\ Len(rest) = Len(tokens) - 3 + 1
            /\ \A k \in 1 .. Len(tokens) - 3 + 1 : rest[k] = tokens[3 + k - 1]
        BY <4>1, <4>2, SubSeqProperties
      <4>4. Len(tokens) - 3 + 1 = Len(last) /\ \A k \in 1 .. Len(last) : 3 + k - 1 = k + 2
        BY <2>5
      <4> QED
        BY <4>3, <4>4
    <3> HIDE DEF rest
    <3>2. rest = last
      <4>1. \A k \in 1 .. Len(last) : rest[k] = last[k]
        BY <2>5, <3>1
      <4>2. last \in Seq(Int)
        BY <2>5
      <4> QED
        BY <3>1, <4>1, <4>2
    <3>3. 2 + 1 = 3
      OBVIOUS
    <3> QED
      BY <2>3, <3>2, <3>3, NumberRead DEF rest
  <2>10. Groups!MatchRangeItem(tokens, wish) <=> m <= wish /\ wish <= n
    BY <2>7, <2>8, <2>9 DEF Groups!MatchRangeItem, Groups!EndsWith
  <2>11. Groups!ItemMatches(item, wish) <=> m <= wish /\ wish <= n
    BY <2>2, <2>10 DEF Groups!ItemMatches
  <2> QED
    BY <2>1, <2>11 DEF Groups!Includes
<1> QED
  BY <1>2, <1>3, <1>4, <1>5, <1>6

\* match_range answers what the items of a range say.
LEMMA RangeSays ==
  ASSUME NEW items, \A item \in items : Groups!Writable(item), NEW wish \in Int
  PROVE  Groups!MatchRange(items, wish) <=> Groups!Says(items, wish)
<1>1. \A item \in items : Groups!ItemMatches(item, wish) <=> Groups!Includes(item, wish)
  BY ItemSays
<1> QED
  BY <1>1, Zenon DEF Groups!MatchRange, Groups!Says

-----------------------------------------------------------------------------
(* ExternalGroups: what a selector adds to a list.                           *)

\* Prepared nodes have names of their own.
Prepared ==
    /\ nodes \in Seq(Groups!ToSet(nodes))
    /\ \A k \in DOMAIN nodes : nodes[k].port \in Nat /\ nodes[k].id \in Nat
    /\ \A j, k \in DOMAIN nodes : nodes[j].name = nodes[k].name => j = k

\* Names are distinct: a node is found where it is.
LEMMA PlaceOfNode ==
  ASSUME Prepared, NEW k \in DOMAIN nodes
  PROVE  Groups!PlaceOf(nodes, nodes[k].name) = k
BY DEF Prepared, Groups!PlaceOf

\* A selector that is no literal asks for the nodes it matches.
LEMMA AsksIsMatch ==
  ASSUME Prepared, NEW part, Groups!IsPart(part), part.is # "literal"
  PROVE  /\ \A k \in DOMAIN nodes :
                Groups!Asks(nodes, part, nodes[k].name) <=> Groups!Matches(part, nodes[k])
         /\ \A name : Groups!Asks(nodes, part, name) => \E k \in DOMAIN nodes : nodes[k].name = name
<1> DEFINE ranged == part.is \in {"PORT", "GROUPID", "INSERT"}
           meant(k, name) ==
               IF ranged
               THEN Groups!Says(part.items, Groups!FieldOf(nodes[k], part.is))
                    /\ \A j \in DOMAIN part.tail : Groups!IsMatch(part.tail[j], name)
               ELSE Groups!Matches(part, nodes[k])
<1>1. \A name : Groups!Asks(nodes, part, name)
                   <=> \E k \in DOMAIN nodes : nodes[k].name = name /\ meant(k, name)
  BY DEF Groups!Asks
<1>2. ASSUME NEW k \in DOMAIN nodes
      PROVE  meant(k, nodes[k].name) <=> Groups!Matches(part, nodes[k])
  <2>1. CASE ranged
    <3> DEFINE field == Groups!FieldOf(nodes[k], part.is)
    <3>1. field \in Int
      BY <2>1 DEF Groups!FieldOf, Prepared
    <3>2. \A item \in part.items : Groups!Writable(item)
      BY <2>1 DEF Groups!IsPart
    <3>3. Groups!Matches(part, nodes[k])
             <=> Groups!MatchRange(part.items, field)
                 /\ \A j \in DOMAIN part.tail : Groups!IsMatch(part.tail[j], nodes[k].name)
      BY <2>1 DEF Groups!Matches
    <3> HIDE DEF field
    <3>4. Groups!MatchRange(part.items, field) <=> Groups!Says(part.items, field)
      BY <3>1, <3>2, RangeSays
    <3> QED
      BY <2>1, <3>3, <3>4 DEF field
  <2>2. CASE ~ranged
    BY <2>2
  <2> QED
    BY <2>1, <2>2
<1> HIDE DEF meant
<1>3. ASSUME NEW k \in DOMAIN nodes
      PROVE  Groups!Asks(nodes, part, nodes[k].name) <=> Groups!Matches(part, nodes[k])
  <2>1. \A j \in DOMAIN nodes : nodes[j].name = nodes[k].name => j = k
    BY DEF Prepared
  <2> QED
    BY <1>1, <1>2, <2>1
<1> QED
  BY <1>1, <1>3

\* A list without repetitions that goes on after another one.
Extends(r, old, S) ==
    /\ r \in Seq(S) /\ Len(old) <= Len(r)
    /\ \A k \in 1 .. Len(old) : r[k] = old[k]
    /\ \A j, k \in 1 .. Len(r) : r[j] = r[k] => j = k

\* t is r with a name, unless it has it.
Offered(t, r, name) ==
    /\ \A x : (\E k \in 1 .. Len(t) : t[k] = x) <=> x = name \/ \E k \in 1 .. Len(r) : r[k] = x
    /\ Len(r) <= Len(t)
    /\ \A k \in 1 .. Len(r) : t[k] = r[k]
    /\ \A k \in Len(r) + 1 .. Len(t) : k = Len(r) + 1 /\ t[k] = name

\* To offer a name keeps what was selected.
LEMMA OfferExtends ==
  ASSUME NEW S, NEW old \in Seq(S), NEW r, Extends(r, old, S), NEW name \in S
  PROVE  Extends(Groups!Offer(r, name), old, S) /\ Offered(Groups!Offer(r, name), r, name)
<1> USE DEF Extends, Offered
<1>1. CASE Groups!Contains(r, name)
  <2>1. Groups!Offer(r, name) = r /\ \E k \in 1 .. Len(r) : r[k] = name
    BY <1>1 DEF Groups!Offer, Groups!Contains
  <2> QED
    BY <2>1
<1>2. CASE ~Groups!Contains(r, name)
  <2>1. Groups!Offer(r, name) = Append(r, name) /\ \A k \in 1 .. Len(r) : r[k] # name
    BY <1>2 DEF Groups!Offer, Groups!Contains
  <2> DEFINE t == Append(r, name)
  <2>2. /\ t \in Seq(S) /\ Len(t) = Len(r) + 1 /\ Len(r) \in Nat /\ Len(old) \in Nat
        /\ \A k \in 1 .. Len(r) : t[k] = r[k]
        /\ t[Len(r) + 1] = name
    OBVIOUS
  <2> HIDE DEF t
  <2>3. \A k \in 1 .. Len(t) : k \in 1 .. Len(r) \/ k = Len(r) + 1
    BY <2>2
  <2>4. Extends(t, old, S)
    <3>1. \A j, k \in 1 .. Len(t) : t[j] = t[k] => j = k
      BY <2>1, <2>2, <2>3
    <3> QED
      BY <2>2, <3>1
  <2>5. \A x : (\E k \in 1 .. Len(t) : t[k] = x) <=> x = name \/ \E k \in 1 .. Len(r) : r[k] = x
    BY <2>2, <2>3
  <2>6. \A k \in Len(r) + 1 .. Len(t) : k = Len(r) + 1 /\ t[k] = name
    BY <2>2
  <2>7. Groups!Offer(r, name) = t
    BY <2>1 DEF t
  <2> QED
    BY <2>2, <2>4, <2>5, <2>6, <2>7
<1> QED
  BY <1>1, <1>2

\* What a list has after a selector has seen the first n nodes: those it
\* matches, and the new ones in their order.
Adds(r, old, part, n, S) ==
    /\ Extends(r, old, S)
    /\ \A x : (\E k \in 1 .. Len(r) : r[k] = x)
                 <=> \/ \E k \in 1 .. Len(old) : old[k] = x
                     \/ \E i \in 1 .. n : Groups!Matches(part, nodes[i]) /\ nodes[i].name = x
    /\ \A k \in Len(old) + 1 .. Len(r) : Groups!PlaceOf(nodes, r[k]) \in 1 .. n
    /\ \A j, k \in Len(old) + 1 .. Len(r) :
            j < k => Groups!PlaceOf(nodes, r[j]) < Groups!PlaceOf(nodes, r[k])

\* A selector that has tried n nodes tries the next.
LEMMA AddsNext ==
  ASSUME Prepared, NEW S, \A i \in DOMAIN nodes : nodes[i].name \in S,
         NEW old \in Seq(S), NEW part, NEW n \in Nat, n + 1 \in DOMAIN nodes,
         NEW r, Adds(r, old, part, n, S)
  PROVE  /\ Groups!Matches(part, nodes[n + 1])
               => Adds(Groups!Offer(r, nodes[n + 1].name), old, part, n + 1, S)
         /\ ~Groups!Matches(part, nodes[n + 1]) => Adds(r, old, part, n + 1, S)
<1> DEFINE name == nodes[n + 1].name
           Was(x) == \E k \in 1 .. Len(old) : old[k] = x
           Met(x, m) == \E i \in 1 .. m : Groups!Matches(part, nodes[i]) /\ nodes[i].name = x
<1>1. /\ Extends(r, old, S) /\ r \in Seq(S) /\ Len(r) \in Nat /\ Len(old) \in Nat
      /\ Len(old) <= Len(r)
      /\ \A x : (\E k \in 1 .. Len(r) : r[k] = x) <=> Was(x) \/ Met(x, n)
      /\ \A k \in Len(old) + 1 .. Len(r) : Groups!PlaceOf(nodes, r[k]) \in 1 .. n
      /\ \A j, k \in Len(old) + 1 .. Len(r) :
            j < k => Groups!PlaceOf(nodes, r[j]) < Groups!PlaceOf(nodes, r[k])
  BY DEF Adds, Extends
<1>2. \A i \in 1 .. n + 1 : i \in 1 .. n \/ i = n + 1
  OBVIOUS
<1>3. Groups!PlaceOf(nodes, name) = n + 1 /\ name \in S
  BY PlaceOfNode
<1>4. ASSUME Groups!Matches(part, nodes[n + 1])
      PROVE  Adds(Groups!Offer(r, name), old, part, n + 1, S)
  <2> DEFINE t == Groups!Offer(r, name)
  <2>1. \A x : Met(x, n + 1) <=> Met(x, n) \/ x = name
    BY <1>2, <1>4
  <2> HIDE DEF t, name, Was, Met
  <2>2. /\ Extends(t, old, S)
        /\ \A x : (\E k \in 1 .. Len(t) : t[k] = x) <=> x = name \/ \E k \in 1 .. Len(r) : r[k] = x
        /\ Len(r) <= Len(t)
        /\ \A k \in 1 .. Len(r) : t[k] = r[k]
        /\ \A k \in Len(r) + 1 .. Len(t) : k = Len(r) + 1 /\ t[k] = name
    <3>1. Extends(t, old, S) /\ Offered(t, r, name)
      BY <1>1, <1>3, OfferExtends DEF t
    <3> QED
      BY <3>1 DEF Offered
  <2>3. \A x : (\E k \in 1 .. Len(t) : t[k] = x) <=> Was(x) \/ Met(x, n + 1)
    BY <1>1, <2>1, <2>2
  <2>4. \A k \in Len(old) + 1 .. Len(t) :
           \/ k \in Len(old) + 1 .. Len(r) /\ t[k] = r[k]
           \/ k = Len(r) + 1 /\ t[k] = name
    <3>1. Len(t) \in Nat
      BY <2>2 DEF Extends
    <3>2. \A k \in Len(old) + 1 .. Len(t) :
             \/ k \in 1 .. Len(r) /\ k \in Len(old) + 1 .. Len(r)
             \/ k \in Len(r) + 1 .. Len(t)
      BY <1>1, <3>1
    <3> QED
      BY <2>2, <3>2
  <2>5. \A k \in Len(old) + 1 .. Len(t) : Groups!PlaceOf(nodes, t[k]) \in 1 .. n + 1
    <3> SUFFICES ASSUME NEW k \in Len(old) + 1 .. Len(t)
                 PROVE  Groups!PlaceOf(nodes, t[k]) \in 1 .. n + 1
      OBVIOUS
    <3>1. CASE k \in Len(old) + 1 .. Len(r) /\ t[k] = r[k]
      <4>1. Groups!PlaceOf(nodes, t[k]) \in 1 .. n
        BY <1>1, <3>1
      <4> QED
        BY <4>1
    <3>2. CASE k = Len(r) + 1 /\ t[k] = name
      BY <1>3, <3>2
    <3> QED
      BY <2>4, <3>1, <3>2
  <2>6. \A j, k \in Len(old) + 1 .. Len(t) :
           j < k => Groups!PlaceOf(nodes, t[j]) < Groups!PlaceOf(nodes, t[k])
    <3> SUFFICES ASSUME NEW j \in Len(old) + 1 .. Len(t), NEW k \in Len(old) + 1 .. Len(t), j < k
                 PROVE  Groups!PlaceOf(nodes, t[j]) < Groups!PlaceOf(nodes, t[k])
      OBVIOUS
    <3>1. j \in Len(old) + 1 .. Len(r) /\ t[j] = r[j]
      <4>1. Len(t) \in Nat /\ (k = Len(r) + 1 \/ k <= Len(r))
        BY <1>1, <2>2, <2>4 DEF Extends
      <4> QED
        BY <1>1, <2>4, <4>1
    <3>2. CASE k \in Len(old) + 1 .. Len(r) /\ t[k] = r[k]
      BY <1>1, <3>1, <3>2
    <3>3. CASE k = Len(r) + 1 /\ t[k] = name
      <4>1. Groups!PlaceOf(nodes, t[j]) \in 1 .. n /\ Groups!PlaceOf(nodes, t[k]) = n + 1
        BY <1>1, <1>3, <3>1, <3>3
      <4> QED
        BY <4>1
    <3> QED
      BY <2>4, <3>2, <3>3
  <2> QED
    BY <2>2, <2>3, <2>5, <2>6 DEF Adds, t, Was, Met
<1>5. ASSUME ~Groups!Matches(part, nodes[n + 1])
      PROVE  Adds(r, old, part, n + 1, S)
  <2>1. \A x : Met(x, n + 1) <=> Met(x, n)
    BY <1>2, <1>5
  <2>2. \A k \in Len(old) + 1 .. Len(r) : Groups!PlaceOf(nodes, r[k]) \in 1 .. n + 1
    BY <1>1
  <2>3. \A x : (\E k \in 1 .. Len(r) : r[k] = x) <=> Was(x) \/ Met(x, n + 1)
    <3> HIDE DEF Was, Met
    <3> QED
      BY <1>1, <2>1
  <2> QED
    BY <1>1, <2>2, <2>3 DEF Adds
<1> QED
  BY <1>4, <1>5

\* A selector that has tried all nodes has added what it matches.
LEMMA WithSelectedAdds ==
  ASSUME Prepared, NEW S, \A i \in DOMAIN nodes : nodes[i].name \in S,
         NEW list \in Seq(S), Extends(list, list, S), NEW part, part.is # "literal"
  PROVE  Adds(Groups!WithSelected(list, part), list, part, Len(nodes), S)
<1> DEFINE N == Len(nodes)
           grow(n, got) == IF Groups!Matches(part, nodes[n]) THEN Groups!Offer(got, nodes[n].name)
                           ELSE got
           step == [p \in (1 .. N) \X Seq(S) |-> grow(p[1], p[2])]
<1>1. N \in Nat /\ DOMAIN nodes = 1 .. N
  BY DEF Prepared
<1>2. step \in [(1 .. N) \X Seq(S) -> Seq(S)]
  <2> HIDE DEF N
  <2>1. \A n \in 1 .. N, got \in Seq(S) : grow(n, got) \in Seq(S)
    <3> SUFFICES ASSUME NEW n \in 1 .. N, NEW got \in Seq(S) PROVE grow(n, got) \in Seq(S)
      OBVIOUS
    <3>1. Groups!Offer(got, nodes[n].name) \in Seq(S)
      BY <1>1 DEF Groups!Offer
    <3> QED
      BY <3>1
  <2> HIDE DEF grow
  <2> QED
    BY <2>1
<1>3. PICK f : f \in Recursions(N, Seq(S), list, step)
  <2>1. list \in Seq(S) /\ step \in Stepping(N, Seq(S))
    BY <1>2 DEF Stepping
  <2> HIDE DEF step, N
  <2> QED
    BY <1>1, <2>1, RecursionExists
<1>4. /\ f \in [0 .. N -> Seq(S)]
      /\ f[0] = list
      /\ \A n \in 1 .. N : f[n] = step[<<n, f[n - 1]>>]
  BY <1>3 DEF Recursions
<1>5. \A n \in 1 .. N : f[n] = grow(n, f[n - 1])
  <2> SUFFICES ASSUME NEW n \in 1 .. N PROVE f[n] = grow(n, f[n - 1])
    OBVIOUS
  <2> HIDE DEF N, grow
  <2>1. n - 1 \in 0 .. N
    BY <1>1
  <2>2. <<n, f[n - 1]>> \in (1 .. N) \X Seq(S)
    BY <1>4, <2>1
  <2> QED
    BY <1>4, <2>2
<1> DEFINE isMeant(h) == h = [n \in 0 .. N |-> IF n = 0 THEN list ELSE grow(n, h[n - 1])]
           g == CHOOSE h : isMeant(h)
<1>6. isMeant(f)
  <2> HIDE DEF N, grow
  <2> QED
    BY <1>1, <1>4, <1>5
<1>7. g = [n \in 0 .. N |-> IF n = 0 THEN list ELSE grow(n, g[n - 1])]
  <2>1. isMeant(g)
    <3> HIDE DEF isMeant
    <3> QED
      BY <1>6
  <2> QED
    BY <2>1
<1>8. Groups!WithSelected(list, part) = g[N]
  BY DEF Groups!WithSelected
<1> HIDE DEF g
<1>9. g[0] = list /\ \A n \in 1 .. N : g[n] = grow(n, g[n - 1])
  <2> HIDE DEF N, grow
  <2> QED
    BY <1>1, <1>7
<1> DEFINE U == {n \in 0 .. N : Adds(g[n], list, part, n, S)}
<1>10. 0 \in U
  <2>1. Adds(list, list, part, 0, S)
    BY DEF Adds
  <2> QED
    BY <1>1, <1>9, <2>1
<1>11. ASSUME NEW n \in 0 .. N - 1, n \in U PROVE n + 1 \in U
  <2>1. /\ n + 1 \in 1 .. N /\ n + 1 \in 0 .. N /\ (n + 1) - 1 = n /\ n \in Nat
        /\ Adds(g[n], list, part, n, S)
    BY <1>1, <1>11
  <2>2. g[n + 1] = grow(n + 1, g[n])
    <3>1. g[n + 1] = grow(n + 1, g[(n + 1) - 1])
      <4> HIDE DEF grow, U
      <4> QED
        BY <1>9, <2>1
    <3> HIDE DEF grow
    <3> QED
      BY <2>1, <3>1
  <2>3. /\ Groups!Matches(part, nodes[n + 1])
              => Adds(Groups!Offer(g[n], nodes[n + 1].name), list, part, n + 1, S)
        /\ ~Groups!Matches(part, nodes[n + 1]) => Adds(g[n], list, part, n + 1, S)
    <3>1. n + 1 \in DOMAIN nodes
      BY <1>1, <2>1
    <3> HIDE DEF U
    <3> QED
      BY <2>1, <3>1, AddsNext
  <2>4. Adds(g[n + 1], list, part, n + 1, S)
    BY <2>2, <2>3
  <2> QED
    BY <2>1, <2>4
<1>12. \A n \in 0 .. N : n \in U
  <2> HIDE DEF U, N
  <2> QED
    BY <1>1, <1>10, <1>11, BoundedInduction
<1>13. N \in U
  <2> HIDE DEF U
  <2> QED
    BY <1>1, <1>12
<1> QED
  BY <1>8, <1>13

-----------------------------------------------------------------------------
(* ExternalGroups: a group follows its selectors.                            *)

GoodGroup(group) ==
    /\ group.selectors \in Seq(Groups!ToSet(group.selectors))
    /\ \A k \in DOMAIN group.selectors : Groups!IsPart(group.selectors[k])
    /\ group.providers \in Seq(STRING)

AskedBy(list, group, s, x) == \E k \in 1 .. s : Groups!Asks(list, group.selectors[k], x)

\* What is chosen when the first s selectors of a group are handled.
Chosen(list, group, s, r) ==
    /\ Extends(r, r, Groups!Candidates(list, group))
    /\ \A x : (\E k \in 1 .. Len(r) : r[k] = x) <=> AskedBy(list, group, s, x)
    /\ \A i, j \in 1 .. Len(r) : i < j =>
          \/ Groups!FirstAsked(list, group, r[i]) < Groups!FirstAsked(list, group, r[j])
          \/ /\ Groups!FirstAsked(list, group, r[i]) = Groups!FirstAsked(list, group, r[j])
             /\ Groups!PlaceOf(list, r[i]) < Groups!PlaceOf(list, r[j])

\* The selector that asks first.
LEMMA FirstAskedIs ==
  ASSUME NEW list, NEW group, GoodGroup(group), NEW x,
         NEW k \in DOMAIN group.selectors, Groups!Asks(list, group.selectors[k], x)
  PROVE  LET begins == Groups!FirstAsked(list, group, x)
         IN /\ begins \in 1 .. k /\ Groups!Asks(list, group.selectors[begins], x)
            /\ \A j \in 1 .. begins - 1 : ~Groups!Asks(list, group.selectors[j], x)
<1> DEFINE N == Len(group.selectors)
           asking == {j \in 1 .. N : Groups!Asks(list, group.selectors[j], x)}
           IsFirst(j) == /\ Groups!Asks(list, group.selectors[j], x)
                         /\ \A i \in 1 .. j - 1 : ~Groups!Asks(list, group.selectors[i], x)
           least == Groups!FirstAsked(list, group, x)
<1>1. N \in Nat /\ DOMAIN group.selectors = 1 .. N
  BY DEF GoodGroup
<1>2. PICK j \in asking : \A i \in asking : j <= i
  <2>1. asking \subseteq Nat /\ asking # {}
    BY <1>1
  <2> HIDE DEF asking
  <2> QED
    BY <2>1, LeastElement
<1>3. j \in 1 .. N /\ IsFirst(j)
  BY <1>1, <1>2
<1>4. least \in 1 .. N /\ IsFirst(least)
  <2>1. least = CHOOSE i \in DOMAIN group.selectors : IsFirst(i)
    BY DEF Groups!FirstAsked
  <2> HIDE DEF least, IsFirst, N
  <2> QED
    BY <1>1, <1>3, <2>1
<1>5. least <= k
  <2>1. ~(k < least)
    BY <1>1, <1>4
  <2> HIDE DEF least
  <2> QED
    BY <1>1, <1>4, <2>1
<1> QED
  BY <1>1, <1>4, <1>5

\* Without a selector nothing is chosen.
LEMMA NothingChosen ==
  ASSUME NEW list, NEW group
  PROVE  Chosen(list, group, 0, <<>>)
<1>1. <<>> \in Seq(Groups!Candidates(list, group)) /\ Len(<<>>) = 0
  OBVIOUS
<1> QED
  BY <1>1 DEF Chosen, Extends, AskedBy

\* A selector adds what it asks for, in the order of the nodes.
LEMMA ChosenGrows ==
  ASSUME NEW list, NEW group, GoodGroup(group),
         NEW s \in Nat, s < Len(group.selectors),
         NEW old, Chosen(list, group, s, old),
         NEW r, Extends(r, old, Groups!Candidates(list, group)),
         \A x : (\E k \in 1 .. Len(r) : r[k] = x)
                   <=> (\E k \in 1 .. Len(old) : old[k] = x)
                       \/ Groups!Asks(list, group.selectors[s + 1], x),
         \A j, k \in Len(old) + 1 .. Len(r) :
            j < k => Groups!PlaceOf(list, r[j]) < Groups!PlaceOf(list, r[k])
  PROVE  Chosen(list, group, s + 1, r)
<1> DEFINE N == Len(group.selectors)
           C == Groups!Candidates(list, group)
           begins(x) == Groups!FirstAsked(list, group, x)
           place(x) == Groups!PlaceOf(list, x)
           asks(k, x) == Groups!Asks(list, group.selectors[k], x)
<1>1. N \in Nat /\ DOMAIN group.selectors = 1 .. N /\ s + 1 \in 1 .. N
  BY DEF GoodGroup
<1>2. /\ old \in Seq(C) /\ r \in Seq(C) /\ Len(old) \in Nat /\ Len(r) \in Nat
      /\ Len(old) <= Len(r)
      /\ \A k \in 1 .. Len(old) : r[k] = old[k]
      /\ \A j, k \in 1 .. Len(r) : r[j] = r[k] => j = k
      /\ \A x : (\E k \in 1 .. Len(old) : old[k] = x) <=> \E k \in 1 .. s : asks(k, x)
      /\ \A i, j \in 1 .. Len(old) : i < j =>
            \/ begins(old[i]) < begins(old[j])
            \/ begins(old[i]) = begins(old[j]) /\ place(old[i]) < place(old[j])
  <2>1. Extends(old, old, C) /\ Len(old) \in Nat /\ Len(r) \in Nat
    BY DEF Chosen, Extends
  <2>2. \A x : (\E k \in 1 .. Len(old) : old[k] = x) <=> \E k \in 1 .. s : asks(k, x)
    BY Zenon DEF Chosen, AskedBy
  <2>3. \A i, j \in 1 .. Len(old) : i < j =>
            \/ begins(old[i]) < begins(old[j])
            \/ begins(old[i]) = begins(old[j]) /\ place(old[i]) < place(old[j])
    BY Zenon DEF Chosen
  <2> QED
    BY <2>1, <2>2, <2>3, Zenon DEF Extends
<1>3. \A x, k : k \in 1 .. N /\ asks(k, x) => begins(x) \in 1 .. k /\ asks(begins(x), x)
  BY <1>1, FirstAskedIs
<1> HIDE DEF begins, place, asks, C, N
<1>4. \A i \in 1 .. Len(old) : begins(r[i]) \in 1 .. s
  <2> SUFFICES ASSUME NEW i \in 1 .. Len(old) PROVE begins(r[i]) \in 1 .. s
    OBVIOUS
  <2>1. PICK k \in 1 .. s : asks(k, r[i])
    BY <1>2
  <2>2. k \in 1 .. N
    BY <1>1
  <2> QED
    BY <1>3, <2>1, <2>2
<1>5. \A i \in Len(old) + 1 .. Len(r) : begins(r[i]) = s + 1
  <2> SUFFICES ASSUME NEW i \in Len(old) + 1 .. Len(r) PROVE begins(r[i]) = s + 1
    OBVIOUS
  <2>1. i \in 1 .. Len(r) /\ \A k \in 1 .. Len(old) : k \in 1 .. Len(r) /\ k # i
    BY <1>2
  <2>2. ~\E k \in 1 .. Len(old) : old[k] = r[i]
    BY <1>2, <2>1
  <2>3. ~(\E k \in 1 .. s : asks(k, r[i])) /\ asks(s + 1, r[i])
    BY <1>2, <2>1, <2>2 DEF asks
  <2>4. begins(r[i]) \in 1 .. s + 1 /\ asks(begins(r[i]), r[i])
    BY <1>1, <1>3, <2>3
  <2> QED
    BY <2>3, <2>4
<1>6. \A i, j \in 1 .. Len(r) : i < j =>
         \/ begins(r[i]) < begins(r[j])
         \/ begins(r[i]) = begins(r[j]) /\ place(r[i]) < place(r[j])
  <2> SUFFICES ASSUME NEW i \in 1 .. Len(r), NEW j \in 1 .. Len(r), i < j
               PROVE  \/ begins(r[i]) < begins(r[j])
                      \/ begins(r[i]) = begins(r[j]) /\ place(r[i]) < place(r[j])
    OBVIOUS
  <2>1. CASE j \in 1 .. Len(old)
    <3>1. i \in 1 .. Len(old)
      BY <1>2, <2>1
    <3> QED
      BY <1>2, <2>1, <3>1
  <2>2. CASE j \notin 1 .. Len(old) /\ i \in 1 .. Len(old)
    <3>1. j \in Len(old) + 1 .. Len(r)
      BY <1>2, <2>2
    <3>2. begins(r[i]) \in 1 .. s /\ begins(r[j]) = s + 1
      BY <1>4, <1>5, <2>2, <3>1
    <3> QED
      BY <3>2
  <2>3. CASE j \notin 1 .. Len(old) /\ i \notin 1 .. Len(old)
    <3>1. i \in Len(old) + 1 .. Len(r) /\ j \in Len(old) + 1 .. Len(r)
      BY <1>2, <2>3
    <3>2. place(r[i]) < place(r[j])
      BY <3>1 DEF place
    <3> QED
      BY <1>5, <3>1, <3>2
  <2> QED
    BY <2>1, <2>2, <2>3
<1>7. \A x : (\E k \in 1 .. Len(r) : r[k] = x) <=> \E k \in 1 .. s + 1 : asks(k, x)
  <2>1. \A k \in 1 .. s + 1 : k \in 1 .. s \/ k = s + 1
    OBVIOUS
  <2>2. \A x : (\E k \in 1 .. s + 1 : asks(k, x))
                 <=> (\E k \in 1 .. s : asks(k, x)) \/ asks(s + 1, x)
    BY <2>1
  <2>3. \A x : (\E k \in 1 .. Len(r) : r[k] = x)
                  <=> (\E k \in 1 .. Len(old) : old[k] = x) \/ asks(s + 1, x)
    BY DEF asks
  <2> QED
    BY <1>2, <2>2, <2>3
<1>8. Extends(r, r, C)
  BY <1>2 DEF Extends
<1> QED
  BY <1>6, <1>7, <1>8 DEF Chosen, AskedBy, begins, place, asks, C

\* The next selector adds what it asks for behind what is chosen.
LEMMA SelectKeeps ==
  ASSUME Prepared, NEW group, GoodGroup(group),
         NEW s \in Nat, s < Len(group.selectors),
         NEW old, Chosen(nodes, group, s, old)
  PROVE  Chosen(nodes, group, s + 1, Groups!WithSelected(old, group.selectors[s + 1]))
<1> DEFINE part == group.selectors[s + 1]
           S == Groups!Candidates(nodes, group)
           r == Groups!WithSelected(old, part)
           N == Len(nodes)
<1>1. s + 1 \in DOMAIN group.selectors /\ Groups!IsPart(part)
  BY DEF GoodGroup
<1>2. old \in Seq(S) /\ Extends(old, old, S)
  BY DEF Chosen, Extends
<1>3. N \in Nat /\ DOMAIN nodes = 1 .. N
  BY DEF Prepared
<1>4. CASE part.is = "literal"
  <2> DEFINE name == part.name
  <2>1. r = Groups!Offer(old, name)
    BY <1>4 DEF Groups!WithSelected
  <2>2. name \in S
    BY <1>1, <1>4 DEF Groups!Candidates
  <2>3. \A x : Groups!Asks(nodes, part, x) <=> x = name
    BY <1>4 DEF Groups!Asks
  <2> HIDE DEF r, S, part, name
  <2>4. Extends(r, old, S) /\ Offered(r, old, name)
    BY <1>2, <2>1, <2>2, OfferExtends
  <2>5. \A x : (\E k \in 1 .. Len(r) : r[k] = x)
                  <=> (\E k \in 1 .. Len(old) : old[k] = x) \/ Groups!Asks(nodes, part, x)
    BY <2>3, <2>4 DEF Offered
  <2>6. \A j, k \in Len(old) + 1 .. Len(r) :
           j < k => Groups!PlaceOf(nodes, r[j]) < Groups!PlaceOf(nodes, r[k])
    <3>1. \A k \in Len(old) + 1 .. Len(r) : k = Len(old) + 1
      BY <2>4 DEF Offered
    <3>2. Len(old) \in Nat
      BY <1>2
    <3> QED
      BY <3>1, <3>2
  <2> QED
    BY <2>4, <2>5, <2>6, ChosenGrows DEF r, S, part
<1>5. CASE part.is # "literal"
  <2>1. \A i \in DOMAIN nodes : nodes[i].name \in S
    BY DEF Groups!Candidates
  <2> HIDE DEF S, part
  <2>2. Adds(r, old, part, N, S)
    BY <1>2, <1>5, <2>1, WithSelectedAdds
  <2>3. \A x : Groups!Asks(nodes, part, x)
                  <=> \E i \in 1 .. N : Groups!Matches(part, nodes[i]) /\ nodes[i].name = x
    <3>1. /\ \A k \in DOMAIN nodes :
                Groups!Asks(nodes, part, nodes[k].name) <=> Groups!Matches(part, nodes[k])
          /\ \A x : Groups!Asks(nodes, part, x) => \E k \in DOMAIN nodes : nodes[k].name = x
      BY <1>1, <1>5, AsksIsMatch
    <3> QED
      BY <1>3, <3>1
  <2> HIDE DEF r, N
  <2>4. Extends(r, old, S)
        /\ \A j, k \in Len(old) + 1 .. Len(r) :
              j < k => Groups!PlaceOf(nodes, r[j]) < Groups!PlaceOf(nodes, r[k])
    BY <2>2 DEF Adds
  <2>5. \A x : (\E k \in 1 .. Len(r) : r[k] = x)
                  <=> (\E k \in 1 .. Len(old) : old[k] = x) \/ Groups!Asks(nodes, part, x)
    BY <2>2, <2>3 DEF Adds
  <2> QED
    BY <2>4, <2>5, ChosenGrows DEF r, S, part
<1> QED
  BY <1>4, <1>5

\* What all selectors have chosen is what the group should have.
LEMMA ChosenFollows ==
  ASSUME NEW list, NEW group, GoodGroup(group),
         NEW r, Chosen(list, group, Len(group.selectors), r)
  PROVE  LET chosen == IF r = <<>> THEN <<"DIRECT">> ELSE r
         IN chosen \in Seq(Groups!ToSet(chosen)) /\ Groups!Follows(list, group, chosen)
<1> DEFINE wanted == Groups!Wanted(list, group)
           C == Groups!Candidates(list, group)
           N == Len(group.selectors)
           chosen == IF r = <<>> THEN <<"DIRECT">> ELSE r
           asks(k, x) == Groups!Asks(list, group.selectors[k], x)
<1>1. N \in Nat /\ DOMAIN group.selectors = 1 .. N /\ group.providers \in Seq(STRING)
      /\ group.selectors \in Seq(Groups!ToSet(group.selectors))
  BY DEF GoodGroup
<1>2. /\ r \in Seq(C) /\ \A j, k \in 1 .. Len(r) : r[j] = r[k] => j = k
      /\ \A x : (\E k \in 1 .. Len(r) : r[k] = x) <=> \E k \in 1 .. N : asks(k, x)
  BY DEF Chosen, Extends, AskedBy
<1>3. \A x : x \in wanted <=> \E k \in 1 .. Len(r) : r[k] = x
  <2>1. \A x : x \in wanted <=> x \in C /\ \E k \in 1 .. N : asks(k, x)
    BY <1>1 DEF Groups!Wanted
  <2>2. \A x : (\E k \in 1 .. Len(r) : r[k] = x) => x \in C
    BY <1>2
  <2> HIDE DEF wanted, C, asks, N
  <2> QED
    BY <1>2, <2>1, <2>2
<1>4. chosen # <<>> /\ chosen \in Seq(Groups!ToSet(chosen)) /\ Groups!IsInjective(chosen)
      /\ Groups!ToSet(chosen) = IF wanted = {} THEN {"DIRECT"} ELSE wanted
  <2> HIDE DEF wanted, C
  <2>1. CASE r = <<>>
    <3>1. wanted = {}
      BY <1>3, <2>1
    <3>2. chosen = <<"DIRECT">> /\ Len(<<"DIRECT">>) = 1 /\ <<"DIRECT">>[1] = "DIRECT"
          /\ DOMAIN <<"DIRECT">> = 1 .. 1
      BY <2>1
    <3>3. Groups!ToSet(<<"DIRECT">>) = {"DIRECT"} /\ <<"DIRECT">> \in Seq({"DIRECT"})
      BY DEF Groups!ToSet
    <3>4. Groups!IsInjective(<<"DIRECT">>)
      BY DEF Groups!IsInjective
    <3> HIDE DEF chosen
    <3> QED
      BY <3>1, <3>2, <3>3, <3>4
  <2>2. CASE r # <<>>
    <3>1. Len(r) \in Nat /\ Len(r) >= 1 /\ DOMAIN r = 1 .. Len(r)
      BY <1>2, <2>2
    <3>2. r[1] \in wanted
      BY <1>3, <3>1
    <3>3. Groups!ToSet(r) = wanted
      BY <1>3, <3>1 DEF Groups!ToSet
    <3>4. r \in Seq(Groups!ToSet(r))
      BY <1>2, <3>1 DEF Groups!ToSet
    <3>5. Groups!IsInjective(r)
      BY <1>2, <3>1 DEF Groups!IsInjective
    <3> QED
      BY <2>2, <3>2, <3>3, <3>4, <3>5
  <2> QED
    BY <2>1, <2>2
<1>5. ASSUME wanted # {}
      PROVE  \A i, j \in DOMAIN chosen : i < j =>
                 \/ Groups!FirstAsked(list, group, chosen[i])
                      < Groups!FirstAsked(list, group, chosen[j])
                \/ /\ Groups!FirstAsked(list, group, chosen[i])
                         = Groups!FirstAsked(list, group, chosen[j])
                   /\ Groups!PlaceOf(list, chosen[i]) < Groups!PlaceOf(list, chosen[j])
  <2>1. r # <<>> /\ DOMAIN r = 1 .. Len(r)
    <3> HIDE DEF wanted
    <3> QED
      BY <1>2, <1>3, <1>5
  <2>2. chosen = r
    BY <2>1
  <2> HIDE DEF chosen, wanted
  <2> QED
    BY <2>1, <2>2 DEF Chosen
<1>6. Groups!ClashGroup(group, chosen).proxies \o Groups!ClashGroup(group, chosen).use # <<>>
  <2> HIDE DEF chosen
  <2> DEFINE proxies == Groups!ClashGroup(group, chosen).proxies
  <2>1. Groups!ClashGroup(group, chosen).use = group.providers
        /\ proxies = IF group.selectors # <<>> \/ group.providers = <<>> THEN chosen ELSE <<>>
    BY DEF Groups!ClashGroup
  <2> HIDE DEF proxies
  <2>2. CASE group.selectors # <<>> \/ group.providers = <<>>
    <3>1. proxies = chosen /\ Len(chosen) >= 1 /\ Len(chosen) \in Nat
      BY <1>4, <2>1, <2>2
    <3>2. proxies \o group.providers \in Seq(Groups!ToSet(chosen) \cup STRING)
          /\ Len(proxies \o group.providers) = Len(chosen) + Len(group.providers)
          /\ Len(group.providers) \in Nat
      <4>1. proxies \in Seq(Groups!ToSet(chosen) \cup STRING)
            /\ group.providers \in Seq(Groups!ToSet(chosen) \cup STRING)
        BY <1>1, <1>4, <3>1
      <4> QED
        BY <3>1, <4>1, ConcatProperties
    <3> DEFINE joined == proxies \o group.providers
    <3>3. Len(joined) >= 1 /\ Len(<<>>) = 0
      BY <3>1, <3>2
    <3> HIDE DEF joined
    <3>4. joined # <<>>
      BY <3>3
    <3> QED
      BY <2>1, <3>4 DEF joined, proxies
  <2>3. CASE ~(group.selectors # <<>> \/ group.providers = <<>>)
    <3>1. proxies = <<>> /\ group.providers # <<>>
      BY <2>1, <2>3
    <3>2. <<>> \o group.providers = group.providers
      BY <1>1
    <3> QED
      BY <2>1, <3>1, <3>2 DEF proxies
  <2> QED
    BY <2>2, <2>3
<1>7. Groups!SingboxGroup(group, chosen).outbounds # <<>>
  <2> HIDE DEF chosen
  <2> QED
    BY <1>4 DEF Groups!SingboxGroup
<1>8. Groups!Follows(list, group, chosen)
  <2> HIDE DEF chosen
  <2> QED
    BY <1>4, <1>5, <1>6, <1>7 DEF Groups!Follows
<1> QED
  BY <1>4, <1>8

\* A group line that is accepted gives a good group.
LEMMA ParsesGood ==
  ASSUME NEW line, line.parts \in Seq(Groups!ToSet(line.parts)),
         \A part \in Groups!ToSet(line.parts) : Groups!IsPart(part),
         Groups!IsGroup(line)
  PROVE  GoodGroup(Groups!ParseGroup(line))
<1> DEFINE A == Groups!ToSet(line.parts)
           parts == SubSeq(line.parts, 1, Groups!SelectorEnd(line))
           B == Groups!ToSet(parts)
           choosers == {part \in B : Groups!IsSelector(part)}
           providing == {part \in B : Groups!IsProvider(part)}
           chooser == Groups!Filter(parts, choosers)
           named == Groups!Filter(parts, providing)
           lists == [k \in DOMAIN named |-> named[k].names]
<1>1. parts \in Seq(A)
  <2>1. /\ Len(line.parts) \in Nat
        /\ \A k \in 1 .. Len(line.parts) : line.parts[k] \in A
    OBVIOUS
  <2>2. Groups!SelectorEnd(line) \in Int /\ Groups!SelectorEnd(line) <= Len(line.parts)
    BY <2>1 DEF Groups!SelectorEnd
  <2> DEFINE end == Groups!SelectorEnd(line)
  <2>3. \A k \in 1 .. end : line.parts[k] \in A
    BY <2>1, <2>2
  <2> HIDE DEF end, A
  <2> QED
    BY <2>2, <2>3, SubSeqProperties DEF end
<1>2. parts \in Seq(B) /\ B \subseteq A
  <2> HIDE DEF parts, A
  <2>1. \A k \in DOMAIN parts : parts[k] \in A
    BY <1>1
  <2> QED
    BY <1>1, <2>1 DEF Groups!ToSet
<1>3. \A s, kept : Groups!Filter(s, kept) = Filter(s, kept)
  BY Zenon DEF Groups!Filter, Filter, Groups!Among, Among
<1>4. chooser \in Seq(B \cap choosers) /\ named \in Seq(B \cap providing)
  <2> HIDE DEF parts, B, choosers, providing
  <2>1. \A kept : Filter(parts, kept) \in Seq(B \cap kept)
    BY <1>2, FilterElements
  <2> QED
    BY <1>3, <2>1
<1>5. \A part \in B : Groups!IsPart(part)
  BY <1>2
<1> HIDE DEF parts, A, B
<1>6. chooser \in Seq(Groups!ToSet(chooser)) /\ \A k \in DOMAIN chooser : Groups!IsPart(chooser[k])
  <2> HIDE DEF chooser, choosers
  <2> QED
    BY <1>4, <1>5 DEF Groups!ToSet
<1>7. lists \in Seq(Seq(STRING))
  <2>1. \A part \in B \cap providing : part.names \in Seq(STRING)
    BY <1>5 DEF Groups!IsPart
  <2>2. Len(named) \in Nat /\ DOMAIN named = 1 .. Len(named)
        /\ \A k \in 1 .. Len(named) : named[k] \in B \cap providing
    <3> HIDE DEF named, providing
    <3> QED
      BY <1>4
  <2> HIDE DEF named, providing
  <2> QED
    BY <2>1, <2>2
<1>8. Groups!FlattenSeq(lists) \in Seq(STRING)
  <2>1. \A s : Groups!FlattenSeq(s) = FlattenSeq(s)
    BY Zenon DEF Groups!FlattenSeq, FlattenSeq
  <2> HIDE DEF lists
  <2> QED
    BY <1>7, <2>1, FlattenSeqType
<1>9. Groups!ParseGroup(line).selectors = chooser
      /\ Groups!ParseGroup(line).providers = Groups!FlattenSeq(lists)
  BY DEF Groups!ParseGroup, parts, B
<1> HIDE DEF chooser, lists
<1> QED
  BY <1>6, <1>8, <1>9 DEF GoodGroup

-----------------------------------------------------------------------------
(* ExternalGroups: the state between two lines, and between two selectors.   *)

LinesRead == \E f \in GroupFiles : lines \in Seq(Groups!ToSet(f))
ConfigGood ==
    /\ DOMAIN config = {"groups", "rulesets", "bases", "settings"}
    /\ config.groups \in Seq(Groups!ToSet(config.groups))
    /\ \A g \in DOMAIN config.groups : GoodGroup(config.groups[g])
MembersGood ==
    /\ nodes \in NodeLists
    /\ members \in Seq(Groups!ToSet(members)) /\ Len(members) <= Len(config.groups)
    /\ \A g \in DOMAIN members : Groups!Follows(nodes, config.groups[g], members[g])
Unread == outcome = "reading" => members = <<>> /\ selected = <<>> /\ selector = 0
Selecting ==
    outcome = "selecting" /\ Len(members) < Len(config.groups) =>
        /\ selector \in 0 .. Len(config.groups[Len(members) + 1].selectors)
        /\ Chosen(nodes, config.groups[Len(members) + 1], selector, selected)
GroupsInv == LinesRead /\ ConfigGood /\ MembersGood /\ Unread /\ Selecting

\* No line is read yet.
LEMMA GroupsStart ==
  ASSUME Groups!GroupsAssumption, Groups!Init
  PROVE  GroupsInv
<1>1. LinesRead
  BY DEF LinesRead, Groups!GroupsAssumption, Groups!Init
<1>2. DOMAIN config = {"groups", "rulesets", "bases", "settings"} /\ config.groups = <<>>
  BY DEF Groups!Init
<1>3. <<>> \in Seq(Groups!ToSet(<<>>)) /\ DOMAIN <<>> = {} /\ Len(<<>>) = 0
  OBVIOUS
<1> QED
  BY <1>1, <1>2, <1>3 DEF GroupsInv, ConfigGood, MembersGood, Unread, Selecting, Groups!Init

\* A line is read: what is found grows by a group, or keeps its groups.
LEMMA ReadKeeps ==
  ASSUME GroupsInv, NEW kind, Groups!Read(kind),
         DOMAIN config' = DOMAIN config,
         \/ config'.groups = config.groups
         \/ \E group : GoodGroup(group) /\ config'.groups = Append(config.groups, group)
  PROVE  GroupsInv'
<1>1. /\ outcome = "reading" /\ lines # <<>> /\ lines' = Tail(lines)
      /\ nodes' = nodes /\ members' = members /\ selected' = selected
      /\ selector' = selector /\ outcome' = outcome
  BY DEF Groups!Read
<1>2. members = <<>> /\ selected = <<>> /\ selector = 0 /\ nodes \in NodeLists
  BY <1>1 DEF GroupsInv, Unread, MembersGood
<1>3. LinesRead'
  BY <1>1 DEF GroupsInv, LinesRead
<1>4. ConfigGood'
  <2> DEFINE old == config.groups
             new == config'.groups
  <2>1. /\ DOMAIN config' = {"groups", "rulesets", "bases", "settings"}
        /\ old \in Seq(Groups!ToSet(old)) /\ \A g \in DOMAIN old : GoodGroup(old[g])
    BY DEF GroupsInv, ConfigGood
  <2> HIDE DEF old, new
  <2>2. CASE new = old
    BY <2>1, <2>2 DEF ConfigGood, old, new
  <2>3. CASE \E group : GoodGroup(group) /\ new = Append(old, group)
    <3>1. PICK group : GoodGroup(group) /\ new = Append(old, group)
      BY <2>3
    <3> DEFINE S == Groups!ToSet(old) \cup {group}
    <3>2. old \in Seq(S) /\ group \in S
      BY <2>1
    <3> HIDE DEF S
    <3>3. /\ new \in Seq(S) /\ Len(new) = Len(old) + 1 /\ Len(old) \in Nat
          /\ \A g \in 1 .. Len(old) : new[g] = old[g]
          /\ new[Len(old) + 1] = group
      BY <3>1, <3>2
    <3>4. new \in Seq(Groups!ToSet(new))
      BY <3>3 DEF Groups!ToSet
    <3>5. \A g \in DOMAIN new : GoodGroup(new[g])
      <4>1. \A g \in DOMAIN new : g \in 1 .. Len(old) \/ g = Len(old) + 1
        BY <3>3
      <4>2. DOMAIN old = 1 .. Len(old)
        BY <3>2
      <4> QED
        BY <2>1, <3>1, <3>3, <4>1, <4>2
    <3> QED
      BY <2>1, <3>4, <3>5 DEF ConfigGood, new
  <2> QED
    BY <2>2, <2>3 DEF old, new
<1>5. MembersGood'
  <2>1. Len(config'.groups) \in Nat
    BY <1>4 DEF ConfigGood
  <2>2. members' = <<>> /\ Len(<<>>) = 0 /\ <<>> \in Seq(Groups!ToSet(<<>>)) /\ DOMAIN <<>> = {}
    BY <1>1, <1>2
  <2> QED
    BY <1>1, <1>2, <2>1, <2>2 DEF MembersGood
<1>6. Unread' /\ Selecting'
  BY <1>1, <1>2 DEF Unread, Selecting
<1> QED
  BY <1>3, <1>4, <1>5, <1>6 DEF GroupsInv

\* Every step keeps groups well formed and members as they should be.
LEMMA GroupsKept ==
  ASSUME Groups!GroupsAssumption, GroupsInv, [Groups!Next]_(Groups!vars)
  PROVE  GroupsInv'
<1> DEFINE D == {"groups", "rulesets", "bases", "settings"}
<1>1. /\ LinesRead /\ ConfigGood /\ MembersGood /\ Unread /\ Selecting
      /\ DOMAIN config = D
  BY DEF GroupsInv, ConfigGood
<1>2. Prepared
  <2>1. nodes \in NodeLists
    BY <1>1 DEF MembersGood
  <2>2. /\ nodes \in Seq(Groups!ToSet(nodes))
        /\ \A node \in Groups!ToSet(nodes) : node.port \in Nat /\ node.id \in Nat
        /\ \A j, k \in DOMAIN nodes : nodes[j].name = nodes[k].name => j = k
    BY <2>1 DEF Groups!GroupsAssumption
  <2>3. \A k \in DOMAIN nodes : nodes[k] \in Groups!ToSet(nodes)
    BY DEF Groups!ToSet
  <2> QED
    BY <2>2, <2>3 DEF Prepared
<1>3. CASE UNCHANGED Groups!vars
  BY <1>1, <1>3 DEF Groups!vars, GroupsInv, LinesRead, ConfigGood, MembersGood, Unread, Selecting
<1>4. CASE Groups!ReadSection
  BY <1>4, ReadKeeps DEF Groups!ReadSection
<1>5. CASE Groups!ReadGroup
  <2> DEFINE line == Head(lines)
             group == Groups!ParseGroup(line)
  <2>1. Groups!Read("group") /\ lines # <<>> /\ line.is = "group"
        /\ config' = IF custom /\ Groups!IsGroup(line)
                     THEN [config EXCEPT !.groups = Append(@, group)] ELSE config
    BY <1>5 DEF Groups!ReadGroup, Groups!Read
  <2>2. CASE custom /\ Groups!IsGroup(line)
    <3>1. PICK f \in GroupFiles : lines \in Seq(Groups!ToSet(f))
      BY <1>1 DEF LinesRead
    <3>2. line \in Groups!ToSet(f)
      BY <2>1, <3>1
    <3> HIDE DEF line
    <3>3. line.parts \in Seq(Groups!ToSet(line.parts))
          /\ \A part \in Groups!ToSet(line.parts) : Groups!IsPart(part)
      BY <2>1, <3>2 DEF Groups!GroupsAssumption
    <3>4. GoodGroup(group)
      BY <2>2, <3>3, ParsesGood
    <3> HIDE DEF group
    <3>5. config' = [config EXCEPT !.groups = Append(@, group)]
      BY <2>1, <2>2
    <3>6. DOMAIN config' = DOMAIN config /\ config'.groups = Append(config.groups, group)
      BY <1>1, <3>5
    <3> QED
      BY <2>1, <3>4, <3>6, ReadKeeps
  <2>3. CASE ~(custom /\ Groups!IsGroup(line))
    <3>1. config' = config
      BY <2>1, <2>3
    <3> QED
      BY <2>1, <3>1, ReadKeeps
  <2> QED
    BY <2>2, <2>3
<1>6. ASSUME NEW kind, Groups!Read(kind), NEW field \in D \ {"groups"}, NEW value,
             config' = config \/ config' = [config EXCEPT ![field] = value]
      PROVE  GroupsInv'
  <2>1. DOMAIN config' = DOMAIN config /\ config'.groups = config.groups
    BY <1>1, <1>6
  <2> QED
    BY <1>6, <2>1, ReadKeeps
<1>7. CASE Groups!ReadRuleset
  <2> DEFINE value == Append(config.rulesets, Groups!ParseRuleset(Head(lines)))
  <2>1. Groups!Read("ruleset")
        /\ (config' = config \/ config' = [config EXCEPT !["rulesets"] = value])
    BY <1>7 DEF Groups!ReadRuleset
  <2> HIDE DEF value
  <2> QED
    BY <1>6, <2>1
<1>8. CASE Groups!ReadBase
  <2>1. Groups!Read("base")
        /\ \E value : config' = config \/ config' = [config EXCEPT !["bases"] = value]
    BY <1>8 DEF Groups!ReadBase
  <2> QED
    BY <1>6, <2>1
<1>9. CASE Groups!ReadSetting
  <2>1. Groups!Read("setting")
        /\ \E value : config' = config \/ config' = [config EXCEPT !["settings"] = value]
    BY <1>9 DEF Groups!ReadSetting
  <2> QED
    BY <1>6, <2>1
<1>10. CASE Groups!ReadOther
  BY <1>10, ReadKeeps DEF Groups!ReadOther
<1>11. CASE Groups!Parsed
  <2>1. /\ outcome = "reading" /\ outcome' \in {"bad request", "selecting"}
        /\ lines' = lines /\ config' = config /\ nodes' = nodes /\ members' = members
        /\ selected' = selected /\ selector' = selector
    BY <1>11 DEF Groups!Parsed
  <2>2. selected = <<>> /\ selector = 0 /\ members = <<>>
    BY <1>1, <2>1 DEF Unread
  <2>3. Selecting'
    <3> SUFFICES ASSUME Len(members) < Len(config.groups)
                 PROVE  /\ 0 \in 0 .. Len(config.groups[Len(members) + 1].selectors)
                        /\ Chosen(nodes, config.groups[Len(members) + 1], 0, <<>>)
      BY <2>1, <2>2 DEF Selecting
    <3>1. GoodGroup(config.groups[Len(members) + 1])
      BY <1>1, <2>2 DEF ConfigGood
    <3> QED
      BY <3>1, NothingChosen DEF GoodGroup
  <2> QED
    BY <1>1, <2>1, <2>3 DEF GroupsInv, LinesRead, ConfigGood, MembersGood, Unread
<1>12. ASSUME outcome = "selecting", Len(members) < Len(config.groups)
       PROVE  /\ GoodGroup(Groups!Group)
              /\ selector \in 0 .. Len(Groups!Group.selectors)
              /\ Chosen(nodes, Groups!Group, selector, selected)
  <2>1. Groups!Group = config.groups[Len(members) + 1] /\ Len(members) + 1 \in DOMAIN config.groups
    BY <1>1, <1>12 DEF Groups!Group, ConfigGood, MembersGood
  <2> QED
    BY <1>1, <1>12, <2>1 DEF ConfigGood, Selecting
<1>13. CASE Groups!Select
  <2> DEFINE group == Groups!Group
             new == Groups!WithSelected(selected, group.selectors[selector + 1])
  <2>1. /\ outcome = "selecting" /\ Len(members) < Len(config.groups)
        /\ selector < Len(group.selectors) /\ selected' = new /\ selector' = selector + 1
        /\ lines' = lines /\ config' = config /\ nodes' = nodes /\ members' = members
        /\ outcome' = outcome
    BY <1>13 DEF Groups!Select
  <2>2. Selecting'
    <3>1. /\ GoodGroup(group) /\ selector \in Nat /\ Chosen(nodes, group, selector, selected)
          /\ Len(group.selectors) \in Nat
      BY <1>12, <2>1 DEF GoodGroup
    <3> HIDE DEF group
    <3>2. Chosen(nodes, group, selector + 1, new)
      BY <1>2, <2>1, <3>1, SelectKeeps
    <3>3. selector + 1 \in 0 .. Len(group.selectors)
      BY <2>1, <3>1
    <3> HIDE DEF new
    <3>4. group = config'.groups[Len(members') + 1]
      BY <2>1 DEF group, Groups!Group
    <3> QED
      BY <2>1, <3>2, <3>3, <3>4 DEF Selecting
  <2> HIDE DEF group, new
  <2> QED
    BY <1>1, <2>1, <2>2 DEF GroupsInv, LinesRead, ConfigGood, MembersGood, Unread
<1>14. CASE Groups!FinishGroup
  <2> DEFINE group == Groups!Group
             chosen == IF selected = <<>> THEN <<"DIRECT">> ELSE selected
  <2>1. /\ outcome = "selecting" /\ Len(members) < Len(config.groups)
        /\ selector = Len(group.selectors) /\ members' = Append(members, chosen)
        /\ selected' = <<>> /\ selector' = 0
        /\ lines' = lines /\ config' = config /\ nodes' = nodes /\ outcome' = outcome
    BY <1>14 DEF Groups!FinishGroup
  <2>2. Groups!Follows(nodes, group, chosen)
    <3>1. GoodGroup(group) /\ Chosen(nodes, group, Len(group.selectors), selected)
      BY <1>12, <2>1
    <3> HIDE DEF group
    <3> QED
      BY <3>1, ChosenFollows
  <2>3. /\ Len(members) \in Nat /\ Len(config.groups) \in Nat
        /\ \A g \in 1 .. Len(members) : Groups!Follows(nodes, config.groups[g], members[g])
        /\ members \in Seq(Groups!ToSet(members))
        /\ group = config.groups[Len(members) + 1]
    BY <1>1 DEF ConfigGood, MembersGood, Groups!Group
  <2> HIDE DEF chosen, group
  <2>4. MembersGood'
    <3> DEFINE new == Append(members, chosen)
               S == Groups!ToSet(members) \cup {chosen}
    <3>1. members \in Seq(S) /\ chosen \in S
      BY <2>3
    <3> HIDE DEF S
    <3>2. /\ new \in Seq(S) /\ Len(new) = Len(members) + 1
          /\ \A g \in 1 .. Len(members) : new[g] = members[g]
          /\ new[Len(members) + 1] = chosen
      BY <3>1
    <3> HIDE DEF new
    <3>3. new \in Seq(Groups!ToSet(new)) /\ DOMAIN new = 1 .. Len(members) + 1
      BY <2>3, <3>2 DEF Groups!ToSet
    <3>4. \A g \in 1 .. Len(members) + 1 : Groups!Follows(nodes, config.groups[g], new[g])
      <4>1. \A g \in 1 .. Len(members) + 1 : g \in 1 .. Len(members) \/ g = Len(members) + 1
        BY <2>3
      <4> QED
        BY <2>2, <2>3, <3>2, <4>1
    <3>5. Len(new) <= Len(config.groups) /\ members' = new /\ nodes \in NodeLists
      BY <1>1, <2>1, <2>3, <3>2 DEF MembersGood, new
    <3> QED
      BY <2>1, <3>3, <3>4, <3>5 DEF MembersGood
  <2>5. Selecting'
    <3> SUFFICES ASSUME Len(members') < Len(config.groups)
                 PROVE  /\ 0 \in 0 .. Len(config.groups[Len(members') + 1].selectors)
                        /\ Chosen(nodes, config.groups[Len(members') + 1], 0, <<>>)
      BY <2>1 DEF Selecting
    <3>1. GoodGroup(config.groups[Len(members') + 1])
      <4>1. Len(members') \in Nat
        BY <2>4 DEF MembersGood
      <4> QED
        BY <1>1, <4>1 DEF ConfigGood
    <3> QED
      BY <3>1, NothingChosen DEF GoodGroup
  <2>6. LinesRead' /\ ConfigGood' /\ Unread'
    BY <1>1, <2>1 DEF LinesRead, ConfigGood, Unread
  <2> QED
    BY <2>4, <2>5, <2>6 DEF GroupsInv
<1>15. CASE Groups!Finish
  BY <1>1, <1>15 DEF Groups!Finish, GroupsInv, LinesRead, ConfigGood, MembersGood, Unread, Selecting
<1> QED
  BY <1>3, <1>4, <1>5, <1>7, <1>8, <1>9, <1>10, <1>11, <1>13, <1>14, <1>15 DEF Groups!Next

\* The members of every group an external file defines are the nodes its
\* selectors ask for, each of them once, in the order of the selectors and then
\* of the nodes, and DIRECT where that leaves none (members and match_range in
\* group.rs, parse_group in external.rs).
THEOREM MembersAlwaysFollow == AnySpec => []MembersFollowSelectors
<1> DEFINE Inv == subject = "groups" => GroupsInv
<1>1. AnyInit => Inv
  <2> SUFFICES ASSUME AnyInit, subject = "groups" PROVE GroupsInv
    OBVIOUS
  <2>1. Groups!Init
    BY DEF AnyInit
  <2> QED
    BY <2>1, GroupsStart, AlgorithmsAssumption
<1>2. Inv /\ [AnyStep]_all => Inv'
  <2> SUFFICES ASSUME Inv, [AnyStep]_all, subject' = "groups"
               PROVE  GroupsInv'
    OBVIOUS
  <2>1. GroupsInv /\ [Groups!Next]_(Groups!vars)
    BY StepOfSubject
  <2> QED
    BY <2>1, GroupsKept, AlgorithmsAssumption
<1>3. Inv => MembersFollowSelectors
  BY DEF GroupsInv, MembersGood, MembersFollowSelectors, Groups!MembersFollowSelectors
<1> QED
  BY <1>1, <1>2, <1>3, PTL DEF AnySpec

-----------------------------------------------------------------------------
(* MrsPayload: what RulesetProofs proves of the encoder alone.               *)

\* The two instances of MrsPayload are one: the operators ...
LEMMA MrsOperators ==
  /\ Mrs!Shifted = Ruleset!Mrs!Shifted
  /\ \A list, domain : Mrs!WithDomain(list, domain) = Ruleset!Mrs!WithDomain(list, domain)
  /\ \A domain : Mrs!Normalized(domain) = Ruleset!Mrs!Normalized(domain)
  /\ \A map, at : Mrs!SetBit(map, at) = Ruleset!Mrs!SetBit(map, at)
  /\ \A part, start : Mrs!Groups(part, start) = Ruleset!Mrs!Groups(part, start)
  /\ \A bits : Mrs!MaxOf(bits) = Ruleset!Mrs!MaxOf(bits)
  /\ \A network, bits : Mrs!RangeOf(network, bits) = Ruleset!Mrs!RangeOf(network, bits)
  /\ \A list : Mrs!Sorted(list) = Ruleset!Mrs!Sorted(list)
  /\ \A list, range, bits : Mrs!Merge(list, range, bits) = Ruleset!Mrs!Merge(list, range, bits)
  /\ \A address : Mrs!Mapped(address) = Ruleset!Mrs!Mapped(address)
<1>1. Mrs!Shifted = Ruleset!Mrs!Shifted
  BY Zenon DEF Mrs!Shifted, Ruleset!Mrs!Shifted
<1>2. /\ \A one, other : Mrs!Before(one, other) <=> Ruleset!Mrs!Before(one, other)
      /\ \A s : Mrs!Reverse(s) = Ruleset!Mrs!Reverse(s)
      /\ \A S : Mrs!Min(S) = Ruleset!Mrs!Min(S)
      /\ \A domain : Mrs!IsSuffixRule(domain) <=> Ruleset!Mrs!IsSuffixRule(domain)
  <2>1. \A one, other, n : Mrs!Agree(one, other, n) <=> Ruleset!Mrs!Agree(one, other, n)
    BY Zenon DEF Mrs!Agree, Ruleset!Mrs!Agree
  <2>2. \A one, other : Mrs!Before(one, other) <=> Ruleset!Mrs!Before(one, other)
    BY <2>1, Zenon DEF Mrs!Before, Ruleset!Mrs!Before
  <2>3. \A s : Mrs!Reverse(s) = Ruleset!Mrs!Reverse(s)
    BY Zenon DEF Mrs!Reverse, Ruleset!Mrs!Reverse
  <2>4. \A S : Mrs!Min(S) = Ruleset!Mrs!Min(S)
    BY Zenon DEF Mrs!Min, Ruleset!Mrs!Min
  <2>5. \A domain : Mrs!IsSuffixRule(domain) <=> Ruleset!Mrs!IsSuffixRule(domain)
    BY Zenon DEF Mrs!IsSuffixRule, Ruleset!Mrs!IsSuffixRule
  <2> QED
    BY <2>2, <2>3, <2>4, <2>5
<1>3. \A list, key : Mrs!Inserted(list, key) = Ruleset!Mrs!Inserted(list, key)
  <2> SUFFICES ASSUME NEW list, NEW key
               PROVE  Mrs!Inserted(list, key) = Ruleset!Mrs!Inserted(list, key)
    OBVIOUS
  <2> DEFINE places(L(_, _)) == {n \in 0 .. Len(list) : \A k \in n + 1 .. Len(list) : ~L(list[k], key)}
  <2>1. places(Mrs!Before) = places(Ruleset!Mrs!Before)
    BY <1>2
  <2> QED
    BY <1>2, <2>1, Zenon DEF Mrs!Inserted, Ruleset!Mrs!Inserted
<1>4. \A list, domain : Mrs!WithDomain(list, domain) = Ruleset!Mrs!WithDomain(list, domain)
  BY <1>2, <1>3, Zenon DEF Mrs!WithDomain, Ruleset!Mrs!WithDomain
<1>5. \A domain : Mrs!Normalized(domain) = Ruleset!Mrs!Normalized(domain)
  <2>1. /\ \A S : Mrs!Min(S) = Ruleset!Mrs!Min(S)
        /\ \A S : Mrs!Max(S) = Ruleset!Mrs!Max(S)
    BY Zenon DEF Mrs!Min, Ruleset!Mrs!Min, Mrs!Max, Ruleset!Mrs!Max
  <2>2. \A s : Mrs!Trimmed(s) = Ruleset!Mrs!Trimmed(s)
    BY <2>1, Zenon DEF Mrs!Trimmed, Ruleset!Mrs!Trimmed, Mrs!Blank, Ruleset!Mrs!Blank
  <2> QED
    BY <2>2, Zenon DEF Mrs!Normalized, Ruleset!Mrs!Normalized, Mrs!Lowered, Ruleset!Mrs!Lowered
<1>6. \A map, at : Mrs!SetBit(map, at) = Ruleset!Mrs!SetBit(map, at)
  BY Zenon DEF Mrs!SetBit, Ruleset!Mrs!SetBit
<1>7. \A part, start : Mrs!Groups(part, start) = Ruleset!Mrs!Groups(part, start)
  <2>1. \A list, kept : Mrs!Filter(list, kept) = Ruleset!Mrs!Filter(list, kept)
    BY Zenon DEF Mrs!Filter, Ruleset!Mrs!Filter, Mrs!Among, Ruleset!Mrs!Among
  <2> SUFFICES ASSUME NEW part, NEW start
               PROVE  Mrs!Groups(part, start) = Ruleset!Mrs!Groups(part, start)
    OBVIOUS
  <2> DEFINE cuts == {k \in start .. part.last :
                        \/ k = start
                        \/ keys[k][part.column + 1] # keys[k - 1][part.column + 1]}
             upTo == [k \in 1 .. part.last |-> k]
             cut(starts) == [g \in DOMAIN starts |->
                               [first |-> starts[g],
                                last |-> IF g = Len(starts) THEN part.last ELSE starts[g + 1] - 1,
                                column |-> part.column + 1]]
  <2>2. Mrs!Groups(part, start) = cut(Mrs!Filter(upTo, cuts))
    BY Zenon DEF Mrs!Groups
  <2>3. Ruleset!Mrs!Groups(part, start) = cut(Ruleset!Mrs!Filter(upTo, cuts))
    BY Zenon DEF Ruleset!Mrs!Groups
  <2> HIDE DEF cut, cuts, upTo
  <2> QED
    BY <2>1, <2>2, <2>3
<1>8. \A bits : Mrs!MaxOf(bits) = Ruleset!Mrs!MaxOf(bits)
  BY <1>1, Zenon DEF Mrs!MaxOf, Ruleset!Mrs!MaxOf
<1>9. \A network, bits : Mrs!RangeOf(network, bits) = Ruleset!Mrs!RangeOf(network, bits)
  BY <1>1, <1>8, Zenon DEF Mrs!RangeOf, Ruleset!Mrs!RangeOf
<1>10. \A list : Mrs!Sorted(list) = Ruleset!Mrs!Sorted(list)
  <2>1. \A S, T : Mrs!Bijection(S, T) = Ruleset!Mrs!Bijection(S, T)
    BY Zenon DEF Mrs!Bijection, Ruleset!Mrs!Bijection, Mrs!Injection, Ruleset!Mrs!Injection,
       Mrs!Surjection, Ruleset!Mrs!Surjection, Mrs!IsInjective, Ruleset!Mrs!IsInjective
  <2>2. \A list : Mrs!Arrangements(list) = Ruleset!Mrs!Arrangements(list)
    BY <2>1, Zenon DEF Mrs!Arrangements, Ruleset!Mrs!Arrangements
  <2>3. \A list : Mrs!Ascending(list) <=> Ruleset!Mrs!Ascending(list)
    BY Zenon DEF Mrs!Ascending, Ruleset!Mrs!Ascending, Mrs!RangeBefore, Ruleset!Mrs!RangeBefore
  <2> SUFFICES ASSUME NEW list PROVE Mrs!Sorted(list) = Ruleset!Mrs!Sorted(list)
    OBVIOUS
  <2> QED
    BY <2>2, Zenon DEF Mrs!Sorted, Ruleset!Mrs!Sorted, Mrs!Ascending, Ruleset!Mrs!Ascending,
       Mrs!RangeBefore, Ruleset!Mrs!RangeBefore
<1>11. \A list, range, bits : Mrs!Merge(list, range, bits) = Ruleset!Mrs!Merge(list, range, bits)
  <2>1. /\ \A s : Mrs!Last(s) = Ruleset!Mrs!Last(s)
        /\ \A s : Mrs!Front(s) = Ruleset!Mrs!Front(s)
        /\ \A S : Mrs!Max(S) = Ruleset!Mrs!Max(S)
    BY Zenon DEF Mrs!Last, Ruleset!Mrs!Last, Mrs!Front, Ruleset!Mrs!Front, Mrs!Max,
       Ruleset!Mrs!Max
  <2> QED
    BY <1>8, <2>1, Zenon DEF Mrs!Merge, Ruleset!Mrs!Merge
<1>12. \A address : Mrs!Mapped(address) = Ruleset!Mrs!Mapped(address)
  BY <1>1, Zenon DEF Mrs!Mapped, Ruleset!Mrs!Mapped
<1> QED
  BY <1>1, <1>4, <1>5, <1>6, <1>7, <1>8, <1>9, <1>10, <1>11, <1>12

\* ... the steps, and what they promise.
LEMMA MrsIsOne ==
  /\ Ruleset!Mrs!MrsAssumption
  /\ Mrs!Init => Ruleset!Mrs!Init
  /\ [Mrs!Next]_(Mrs!vars) => [Ruleset!Mrs!Next]_(Ruleset!Mrs!vars)
  /\ Ruleset!Mrs!TrieReadsBack => Mrs!TrieReadsBack
  /\ Ruleset!Mrs!RangesCoverNetworks => Mrs!RangesCoverNetworks
<1>1. Ruleset!Mrs!MrsAssumption
  <2>1. Mrs!MrsAssumption /\ \A s : Mrs!ToSet(s) = Ruleset!Mrs!ToSet(s)
    BY AlgorithmsAssumption, Zenon DEF Mrs!ToSet, Ruleset!Mrs!ToSet
  <2> QED
    BY <2>1, MrsOperators, Zenon DEF Mrs!MrsAssumption, Ruleset!Mrs!MrsAssumption
<1>2. Mrs!Init => Ruleset!Mrs!Init
  BY Zenon DEF Mrs!Init, Ruleset!Mrs!Init
<1>3. [Mrs!Next]_(Mrs!vars) => [Ruleset!Mrs!Next]_(Ruleset!Mrs!vars)
  <2>1. /\ Mrs!trie = Ruleset!Mrs!trie /\ Mrs!trie' = Ruleset!Mrs!trie'
        /\ Mrs!ranges = Ruleset!Mrs!ranges /\ Mrs!ranges' = Ruleset!Mrs!ranges'
        /\ Mrs!vars = Ruleset!Mrs!vars /\ Mrs!vars' = Ruleset!Mrs!vars'
    BY DEF Mrs!trie, Ruleset!Mrs!trie, Mrs!ranges, Ruleset!Mrs!ranges, Mrs!vars, Ruleset!Mrs!vars
  <2>2. Mrs!ReadDomain => Ruleset!Mrs!ReadDomain
    BY <2>1, MrsOperators, Zenon DEF Mrs!ReadDomain, Ruleset!Mrs!ReadDomain
  <2>3. Mrs!StartBuilding => Ruleset!Mrs!StartBuilding
    BY <2>1, Zenon DEF Mrs!StartBuilding, Ruleset!Mrs!StartBuilding
  <2>4. Mrs!Visit => Ruleset!Mrs!Visit
    BY <2>1, MrsOperators, Zenon DEF Mrs!Visit, Ruleset!Mrs!Visit
  <2>5. Mrs!Built => Ruleset!Mrs!Built
    BY <2>1, Zenon DEF Mrs!Built, Ruleset!Mrs!Built
  <2>6. Mrs!ReadNetwork => Ruleset!Mrs!ReadNetwork
    BY <2>1, MrsOperators, Zenon DEF Mrs!ReadNetwork, Ruleset!Mrs!ReadNetwork
  <2>7. Mrs!StartMerging => Ruleset!Mrs!StartMerging
    BY <2>1, MrsOperators, Zenon DEF Mrs!StartMerging, Ruleset!Mrs!StartMerging
  <2>8. Mrs!MergeV4 => Ruleset!Mrs!MergeV4
    BY <2>1, MrsOperators, Zenon DEF Mrs!MergeV4, Ruleset!Mrs!MergeV4
  <2>9. Mrs!WriteV4 => Ruleset!Mrs!WriteV4
    BY <2>1, MrsOperators, Zenon DEF Mrs!WriteV4, Ruleset!Mrs!WriteV4, Mrs!Mapped,
       Ruleset!Mrs!Mapped
  <2>10. Mrs!MergeV6 => Ruleset!Mrs!MergeV6
    BY <2>1, MrsOperators, Zenon DEF Mrs!MergeV6, Ruleset!Mrs!MergeV6
  <2>11. Mrs!WriteV6 => Ruleset!Mrs!WriteV6
    BY <2>1, Zenon DEF Mrs!WriteV6, Ruleset!Mrs!WriteV6
  <2> QED
    BY <2>1, <2>2, <2>3, <2>4, <2>5, <2>6, <2>7, <2>8, <2>9, <2>10, <2>11, Zenon
       DEF Mrs!Next, Ruleset!Mrs!Next
<1>4. Ruleset!Mrs!TrieReadsBack => Mrs!TrieReadsBack
  <2>1. \A map, at : Mrs!IsSet(map, at) <=> Ruleset!Mrs!IsSet(map, at)
    BY Zenon DEF Mrs!IsSet, Ruleset!Mrs!IsSet
  <2>2. \A map, at : Mrs!OnesBelow(map, at) = Ruleset!Mrs!OnesBelow(map, at)
    <3>1. \A S : Mrs!Cardinality(S) = Ruleset!Mrs!Cardinality(S)
      BY Zenon DEF Mrs!Cardinality, Ruleset!Mrs!Cardinality
    <3> QED
      BY <3>1, Zenon DEF Mrs!OnesBelow, Ruleset!Mrs!OnesBelow, Mrs!IsSet, Ruleset!Mrs!IsSet
  <2>3. \A node : Mrs!PositionOf(node) = Ruleset!Mrs!PositionOf(node)
    BY <2>2, Zenon DEF Mrs!PositionOf, Ruleset!Mrs!PositionOf, Mrs!IsSet, Ruleset!Mrs!IsSet
  <2>4. Mrs!TextOf = Ruleset!Mrs!TextOf
    BY <2>2, <2>3, Zenon DEF Mrs!TextOf, Ruleset!Mrs!TextOf
  <2>5. Mrs!ReadBack = Ruleset!Mrs!ReadBack
    BY <2>4, Zenon DEF Mrs!ReadBack, Ruleset!Mrs!ReadBack, Mrs!IsSet, Ruleset!Mrs!IsSet
  <2>6. \A domain : Mrs!Says(domain) = Ruleset!Mrs!Says(domain)
    <3> TAKE domain
    <3> DEFINE here == Mrs!Lowered(Mrs!Trimmed(domain))
               there == Ruleset!Mrs!Lowered(Ruleset!Mrs!Trimmed(domain))
               says(bytes) ==
                   LET apex == SubSeq(bytes, 3, Len(bytes)) IN
                   IF Len(bytes) >= 2 /\ bytes[1] = "+" /\ bytes[2] = "."
                   THEN IF apex = <<>> THEN {} ELSE {bytes, apex}
                   ELSE {bytes} \ {<<>>}
    <3>1. here = there
      BY MrsOperators, Zenon DEF Mrs!Normalized, Ruleset!Mrs!Normalized
    <3>2. Mrs!Says(domain) = says(here)
      BY Zenon DEF Mrs!Says
    <3>3. Ruleset!Mrs!Says(domain) = says(there)
      BY Zenon DEF Ruleset!Mrs!Says
    <3> HIDE DEF here, there, says
    <3> QED
      BY <3>1, <3>2, <3>3
  <2>7. \A s : Mrs!Reverse(s) = Ruleset!Mrs!Reverse(s)
    BY Zenon DEF Mrs!Reverse, Ruleset!Mrs!Reverse
  <2> QED
    BY <2>5, <2>6, <2>7, Zenon DEF Mrs!TrieReadsBack, Ruleset!Mrs!TrieReadsBack
<1>5. Ruleset!Mrs!RangesCoverNetworks => Mrs!RangesCoverNetworks
  <2>1. \A pairs, address : Mrs!Covers(pairs, address) <=> Ruleset!Mrs!Covers(pairs, address)
    BY Zenon DEF Mrs!Covers, Ruleset!Mrs!Covers
  <2>2. \A network, address :
           Mrs!InNetwork(network, address) <=> Ruleset!Mrs!InNetwork(network, address)
    BY MrsOperators, Zenon DEF Mrs!InNetwork, Ruleset!Mrs!InNetwork
  <2> QED
    BY <2>1, <2>2, MrsOperators, Zenon
       DEF Mrs!RangesCoverNetworks, Ruleset!Mrs!RangesCoverNetworks
<1> QED
  BY <1>1, <1>2, <1>3, <1>4, <1>5


\* Whatever rules a domain ruleset lists: a reader of the three bitmaps that goes
\* down the trie level by level finds exactly the domains the rules say, each once
\* and none else (normalize_mrs_domain, build_domain_keys and
\* build_succinct_set in mrs.rs).
THEOREM TriesAlwaysReadBack == AnySpec => []TrieReadsBack
<1> DEFINE Inv == subject = "mrs" => Ruleset!TrieInv
<1>1. AnyInit => Inv
  <2> SUFFICES ASSUME AnyInit, subject = "mrs" PROVE Ruleset!TrieInv
    OBVIOUS
  <2>1. Ruleset!Mrs!Init
    <3>1. Mrs!Init
      BY DEF AnyInit
    <3> QED
      BY <3>1, MrsIsOne
  <2> QED
    BY <2>1, MrsIsOne, RulesetIsCollect, Ruleset!TrieStarts
       DEF Ruleset!LoaderAssumption
<1>2. Inv /\ [AnyStep]_all => Inv'
  <2> SUFFICES ASSUME Inv, [AnyStep]_all, subject' = "mrs"
               PROVE  Ruleset!TrieInv'
    OBVIOUS
  <2>1. Ruleset!TrieInv /\ [Ruleset!Mrs!Next]_(Ruleset!Mrs!vars)
    BY StepOfSubject, MrsIsOne
  <2> QED
    BY <2>1, MrsIsOne, RulesetIsCollect, Ruleset!TrieKept
       DEF Ruleset!LoaderAssumption
<1>3. Inv => TrieReadsBack
  <2> SUFFICES ASSUME Ruleset!TrieInv PROVE Mrs!TrieReadsBack
    BY DEF TrieReadsBack
  <2> QED
    BY MrsIsOne, RulesetIsCollect, Ruleset!TrieSays DEF Ruleset!LoaderAssumption
<1> QED
  BY <1>1, <1>2, <1>3, PTL DEF AnySpec

\* Whatever networks a ruleset lists: the ranges written are their addresses and
\* no others, in ascending order and with a gap after each (write_ipcidr_payload
\* and merge_ranges in mrs.rs).
THEOREM RangesAlwaysCover == AnySpec => []RangesCoverNetworks
<1> DEFINE Inv == subject = "mrs" => Ruleset!MrsInv
<1>1. AnyInit => Inv
  <2> SUFFICES ASSUME AnyInit, subject = "mrs" PROVE Ruleset!MrsInv
    OBVIOUS
  <2>1. Ruleset!Mrs!Init
    <3>1. Mrs!Init
      BY DEF AnyInit
    <3> QED
      BY <3>1, MrsIsOne
  <2> QED
    BY <2>1, MrsIsOne, RulesetIsCollect, Ruleset!MrsStarts
       DEF Ruleset!LoaderAssumption
<1>2. Inv /\ [AnyStep]_all => Inv'
  <2> SUFFICES ASSUME Inv, [AnyStep]_all, subject' = "mrs"
               PROVE  Ruleset!MrsInv'
    OBVIOUS
  <2>1. Ruleset!MrsInv /\ [Ruleset!Mrs!Next]_(Ruleset!Mrs!vars)
    BY StepOfSubject, MrsIsOne
  <2> QED
    BY <2>1, MrsIsOne, RulesetIsCollect, Ruleset!MrsKept
       DEF Ruleset!LoaderAssumption
<1>3. Inv => RangesCoverNetworks
  <2> SUFFICES ASSUME Ruleset!MrsInv PROVE Mrs!RangesCoverNetworks
    BY DEF RangesCoverNetworks
  <2> QED
    BY MrsIsOne, RulesetIsCollect, Ruleset!MrsSays DEF Ruleset!LoaderAssumption
<1> QED
  BY <1>1, <1>2, <1>3, PTL DEF AnySpec

=============================================================================

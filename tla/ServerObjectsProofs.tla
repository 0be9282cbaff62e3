-------------------------- MODULE ServerObjectsProofs --------------------------
(***************************************************************************)
(* What ServerObjects promises, for any objects, arrays, registrations and *)
(* requests: the server describes itself as it answers (DescribesItself),  *)
(* only an object that is named anew makes two objects share a name        *)
(* (OnlyRenamingMakesTwins), and a write shows in what is read afterwards  *)
(* (WritesShow).                                                           *)
(*                                                                         *)
(* They rest on an invariant, Tables, of what the setters leave in the     *)
(* tables: each array holds objects of its own kind, a single object       *)
(* carries only properties its kind takes, and the registrations are among *)
(* those that setPropertyRegistrations takes.                              *)
(***************************************************************************)
EXTENDS ServerObjects, FiniteSetTheorems, SequenceTheorems, WellFoundedInduction, TLAPS

-----------------------------------------------------------------------------
\* The tables.

Of(kind) == {o \in Objects : KindOf[o] = kind}
StoredTypes == {"CharacterString", "Real", "Boolean", "Enumerated", "BitString"}
StoredProperty(kind) == [property : Properties \cap Storable(kind), type : StoredTypes]

Tables ==
    /\ number \in [Objects -> Instances]
    /\ DOMAIN arrays = Kinds /\ \A k \in Kinds : arrays[k] \in Seq(Of(k))
    /\ DOMAIN added = AddedKinds /\ \A k \in AddedKinds : added[k] \in Seq(Of(k))
    /\ DOMAIN stored = Objects
    /\ \A o \in Objects : stored[o] \in Seq(StoredProperty(KindOf[o]))
    /\ DOMAIN slots = Objects /\ \A o \in Objects : DOMAIN slots[o] = 1..SlotCount
    /\ DOMAIN outOfService = Objects
    /\ registered \in RegistrationSets \cup {<<>>}
    /\ \A i \in DOMAIN registered :
        /\ registered[i].property # "PropertyList"
        /\ registered[i].name.type = "Device" => registered[i].property \in Metadata
    /\ device \in Nat

\* The server starts with empty tables.
LEMMA TablesAtFirst == Init => Tables
<1>. USE ObjectsAssumption
<1>1. \A k : <<>> \in Seq(Of(k)) /\ <<>> \in Seq(StoredProperty(k))
  OBVIOUS
<1>. QED BY <1>1 DEF Init, Tables

\* Each call of the application leaves the tables in order.
LEMMA TablesKept == Tables /\ [Next]_vars => Tables'
<1>. SUFFICES ASSUME Tables, [Next]_vars PROVE Tables'
  OBVIOUS
<1>. USE ObjectsAssumption
<1>1. ASSUME NEW k \in Kinds, NEW n \in 0..MaxArray,
             NEW array \in [1..n -> {o \in Objects \ Single : KindOf[o] = k}], SetArray(k, array)
      PROVE  Tables'
  <2>1. array \in Seq(Of(k))
    BY DEF Of
  <2>. QED BY <1>1, <2>1 DEF SetArray, Tables, objectVars, commandVars
<1>2. ASSUME NEW o \in Objects, AddObject(o) PROVE Tables'
  <2>1. KindOf[o] \in AddedKinds /\ o \in Of(KindOf[o])
    BY <1>2 DEF AddObject, Of
  <2>2. added'[KindOf[o]] \in Seq(Of(KindOf[o]))
    BY <1>2, <2>1 DEF AddObject, Tables
  <2>3. DOMAIN added' = AddedKinds /\ \A k \in AddedKinds : added'[k] \in Seq(Of(k))
    BY <1>2, <2>1, <2>2 DEF AddObject, Tables
  <2>. QED BY <1>2, <2>3 DEF AddObject, Tables, objectVars, commandVars
<1>3. ASSUME NEW o \in Objects, NEW n \in Instances, Configure(o, n) PROVE Tables'
  BY <1>3 DEF Configure, Tables, commandVars, tableVars
<1>4. ASSUME NEW o \in Objects, NEW p \in Properties, NEW type \in StorableTypes(p) \cup {"Real"},
             AddProperty(o, p, type)
      PROVE  Tables'
  <2>1. type \in StoredTypes
    <3>1. StorableTypes(p) \subseteq StoredTypes
      BY Zenon DEF StorableTypes, StoredTypes
    <3>. QED BY <3>1 DEF StoredTypes
  <2>2. \A x \in Objects : stored'[x] \in Seq(StoredProperty(KindOf[x]))
    <3>1. CASE stored' = stored
      BY <3>1 DEF Tables
    <3>2. CASE stored' # stored
      <4>1. /\ p \in Storable(KindOf[o])
            /\ stored' = [stored EXCEPT ![o] = Append(@, [property |-> p, type |-> type])]
        BY <1>4, <3>2 DEF AddProperty
      <4>2. [property |-> p, type |-> type] \in StoredProperty(KindOf[o])
        BY <2>1, <4>1 DEF StoredProperty
      <4>3. Append(stored[o], [property |-> p, type |-> type]) \in Seq(StoredProperty(KindOf[o]))
        BY <4>2 DEF Tables
      <4>. QED BY <4>1, <4>3 DEF Tables
    <3>. QED BY <3>1, <3>2
  <2>3. DOMAIN stored' = Objects
    BY <1>4 DEF AddProperty, Tables
  <2>. QED BY <1>4, <2>2, <2>3 DEF AddProperty, Tables, commandVars, tableVars
<1>5. ASSUME NEW o \in Objects, NEW isValid \in BOOLEAN, SetState(o, isValid) PROVE Tables'
  BY <1>5 DEF SetState, Tables, commandVars, tableVars
<1>6. ASSUME NEW registrations \in RegistrationSets, SetPropertyRegistrations(registrations)
      PROVE  Tables'
  BY <1>6 DEF SetPropertyRegistrations, Tables, objectVars, commandVars
<1>7. ASSUME NEW n \in Instances, Begin(n) PROVE Tables'
  BY <1>7 DEF Begin, Tables, objectVars, commandVars, tableVars
<1>8. CASE End
  BY <1>8 DEF End, Tables, objectVars, commandVars, tableVars
<1>9. ASSUME NEW request \in WriteRequests, WriteProperty(request) PROVE Tables'
  <2>1. DOMAIN slots' = Objects /\ DOMAIN outOfService' = Objects
    BY <1>9 DEF WriteProperty, Tables
  <2>2. \A o \in Objects : DOMAIN slots'[o] = 1..SlotCount
    BY <1>9 DEF WriteProperty, Tables
  <2>. QED BY <1>9, <2>1, <2>2 DEF WriteProperty, Tables, objectVars, tableVars
<1>10. CASE UNCHANGED vars
  BY <1>10 DEF vars, objectVars, commandVars, tableVars, Tables
<1>. QED BY <1>1, <1>2, <1>3, <1>4, <1>5, <1>6, <1>7, <1>8, <1>9, <1>10 DEF Next

\* The tables are in order in every state.
THEOREM TablesInOrder == Spec => []Tables
<1>. QED BY TablesAtFirst, TablesKept, PTL DEF Spec

-----------------------------------------------------------------------------
\* Lookup.

\* A set of naturals has a least element, and Min finds it.
LEMMA LeastFound ==
    ASSUME NEW T \in SUBSET Nat, T # {}
    PROVE  Min(T) \in T /\ \A x \in T : Min(T) <= x
<1>1. PICK p \in T : \A q \in T : ~(<<q, p>> \in OpToRel(<, Nat))
  BY NatLessThanWellFounded, WFMin
<1>2. \A q \in T : ~(q < p)
  BY <1>1 DEF OpToRel
<1>3. \A q \in T : p <= q
  BY <1>2
<1>. QED BY <1>3 DEF Min

\* What serves a kind is a sequence of its objects, as long as its count.
LEMMA ServedByKind ==
    ASSUME Tables, NEW k \in Kinds
    PROVE  /\ Serving(k) \in Seq(Of(k)) /\ Of(k) \subseteq Objects
           /\ Count(k) = Len(Serving(k))
           /\ \A i \in 1..Len(Serving(k)) :
                /\ Serving(k)[i] \in Objects
                /\ KindOf[Serving(k)[i]] = k
                /\ number[Serving(k)[i]] \in Instances
<1>1. Serving(k) \in Seq(Of(k))
  BY DEF Serving, Tables
<1>2. Count(k) = Len(Serving(k))
  BY DEF Serving, Count
<1>3. \A i \in 1..Len(Serving(k)) : Serving(k)[i] \in Of(k)
  BY <1>1
<1>. QED BY <1>1, <1>2, <1>3 DEF Of, Tables

\* Find gives an object that serves the kind and has the number, or Nobody
\* when there is none.
LEMMA FindServes ==
    ASSUME Tables, NEW k \in Kinds, NEW n
    PROVE  /\ \A i \in 1..Len(Serving(k)) : number[Serving(k)[i]] = n => Find(k, n) # Nobody
           /\ Find(k, n) # Nobody =>
                /\ Find(k, n) \in Objects
                /\ KindOf[Find(k, n)] = k
                /\ number[Find(k, n)] = n
                /\ \E i \in 1..Len(Serving(k)) : Serving(k)[i] = Find(k, n)
<1>. DEFINE at == {i \in 1..Len(Serving(k)) : number[Serving(k)[i]] = n}
<1>. USE ObjectsAssumption
<1>1. Find(k, n) = IF at = {} THEN Nobody ELSE Serving(k)[Min(at)]
  BY ServedByKind DEF Find
<1>2. CASE at = {}
  BY <1>1, <1>2
<1>3. CASE at # {}
  <2>. DEFINE first == Min(at)
  <2>1. at \in SUBSET Nat
    BY ServedByKind
  <2>2. first \in at
    BY <1>3, <2>1, LeastFound
  <2>3. Find(k, n) = Serving(k)[first]
    BY <1>1, <1>3
  <2>. HIDE DEF first
  <2>4. Serving(k)[first] \in Objects /\ KindOf[Serving(k)[first]] = k
    BY <2>2, ServedByKind
  <2>. QED BY <2>2, <2>3, <2>4
<1>. QED BY <1>2, <1>3

\* The kind listed for the name of an object is one of that type.
LEMMA KindListed ==
    ASSUME NEW name \in ObjectName, name.type # "Device"
    PROVE  ListedKind(name) \in Kinds /\ TypeOf(ListedKind(name)) = name.type
<1>1. name.type \in {TypeOf(k) : k \in Kinds}
  BY DEF ObjectName
<1>2. PICK k \in Kinds : name.type = TypeOf(k)
  BY <1>1
<1>3. CASE k = "CommandableAnalogValue"
  <2>1. name.type = "AnalogValue"
    BY <1>2, <1>3 DEF TypeOf
  <2>. QED BY <2>1 DEF ListedKind, TypeOf, Kinds
<1>4. CASE k # "CommandableAnalogValue"
  <2>1. name.type = k
    BY <1>2, <1>4 DEF TypeOf
  <2>. QED BY <2>1, <1>4 DEF ListedKind, TypeOf, Kinds
<1>. QED BY <1>3, <1>4

\* A read finds the object that Find gives for the kind listed: of the two
\* kinds of Analog Values, the commandable one.
LEMMA ObjectFound ==
    ASSUME Tables, NEW name \in ObjectName
    PROVE  ObjectOf(name) = IF name.type = "Device" THEN Nobody
                            ELSE Find(ListedKind(name), name.number)
<1>. DEFINE n == name.number
            commandable == {o \in Found(name) : KindOf[o] \in Commandable}
<1>1. CASE name.type = "Device"
  <2>1. Found(name) = {}
    BY <1>1 DEF Found
  <2>. QED BY <1>1, <2>1 DEF ObjectOf
<1>2. CASE name.type = "AnalogValue"
  <2>. DEFINE plain == Find("AnalogValue", n)
              other == Find("CommandableAnalogValue", n)
  <2>1. /\ plain # Nobody => KindOf[plain] = "AnalogValue"
        /\ other # Nobody => KindOf[other] = "CommandableAnalogValue"
    BY FindServes DEF Kinds
  <2>2. Found(name) = {plain, other} \ {Nobody}
    BY <1>2 DEF Found
  <2>. HIDE DEF plain, other
  <2>3. CASE other # Nobody
    <3>1. commandable = {other}
      BY <2>1, <2>2, <2>3 DEF Commandable
    <3>2. ObjectOf(name) = other
      BY <3>1 DEF ObjectOf
    <3>. QED BY <1>2, <2>3, <3>2 DEF ListedKind, other
  <2>4. CASE other = Nobody
    <3>1. commandable = {} /\ Found(name) = {plain} \ {Nobody}
      BY <2>1, <2>2, <2>4 DEF Commandable
    <3>2. ObjectOf(name) = plain
      BY <3>1 DEF ObjectOf
    <3>. QED BY <1>2, <2>4, <3>2 DEF ListedKind, plain, other
  <2>. QED BY <2>3, <2>4
<1>3. CASE name.type \notin {"Device", "AnalogValue"}
  <2>. DEFINE o == Find(name.type, n)
  <2>1. Found(name) = {o} \ {Nobody}
    BY <1>3 DEF Found
  <2>2. ListedKind(name) = name.type
    BY <1>3 DEF ListedKind
  <2>. HIDE DEF o
  <2>3. ObjectOf(name) = o
    BY <2>1 DEF ObjectOf
  <2>. QED BY <1>3, <2>2, <2>3 DEF o
<1>. QED BY <1>1, <1>2, <1>3

\* The object found has the name that was asked for, and serves its kind.
LEMMA ObjectHasName ==
    ASSUME Tables, NEW name \in ObjectName, ObjectOf(name) # Nobody
    PROVE  /\ name.type # "Device" /\ name # DeviceName
           /\ ObjectOf(name) \in Objects
           /\ KindOf[ObjectOf(name)] = ListedKind(name)
           /\ Name(ObjectOf(name)) = name
           /\ \E i \in 1..Len(Serving(ListedKind(name))) :
                Serving(ListedKind(name))[i] = ObjectOf(name)
<1>. DEFINE o == ObjectOf(name)
            k == ListedKind(name)
<1>1. name.type # "Device" /\ name # DeviceName
  BY ObjectFound DEF DeviceName
<1>2. k \in Kinds /\ TypeOf(k) = name.type
  BY <1>1, KindListed
<1>3. o = Find(k, name.number)
  BY <1>1, ObjectFound
<1>4. /\ o \in Objects /\ KindOf[o] = k /\ number[o] = name.number
      /\ \E i \in 1..Len(Serving(k)) : Serving(k)[i] = o
  BY <1>2, <1>3, FindServes
<1>5. Name(o) = name
  BY <1>2, <1>4 DEF Name, ObjectName
<1>. QED BY <1>1, <1>4, <1>5

\* What serves is found by its name.
LEMMA ServedIsFound ==
    ASSUME Tables, NEW k \in Kinds, NEW i \in 1..Len(Serving(k))
    PROVE  /\ Name(Serving(k)[i]) \in ObjectName
           /\ Name(Serving(k)[i]).type = TypeOf(k)
           /\ ObjectOf(Name(Serving(k)[i])) # Nobody
<1>. USE ObjectsAssumption
<1>. DEFINE o == Serving(k)[i]
            name == Name(o)
<1>1. o \in Objects /\ KindOf[o] = k /\ number[o] \in Instances
  BY ServedByKind
<1>. HIDE DEF o
<1>2. /\ name \in ObjectName /\ name.type = TypeOf(k) /\ name.number = number[o]
      /\ name.type # "Device"
  BY <1>1 DEF Name, ObjectName, TypeOf, Kinds
<1>. HIDE DEF name
<1>3. ListedKind(name) \in Kinds /\ ObjectOf(name) = Find(ListedKind(name), number[o])
  BY <1>2, KindListed, ObjectFound
<1>4. Find(k, number[o]) # Nobody
  BY FindServes DEF o
<1>5. ObjectOf(name) # Nobody
  <2>1. CASE k = "CommandableAnalogValue"
    <3>1. ListedKind(name) = k
      BY <1>2, <1>4, <2>1 DEF ListedKind, TypeOf
    <3>. QED BY <1>3, <1>4, <3>1
  <2>2. CASE k # "CommandableAnalogValue" /\ ListedKind(name) = k
    BY <1>3, <1>4, <2>2
  <2>3. CASE k # "CommandableAnalogValue" /\ ListedKind(name) # k
    <3>1. ListedKind(name) = "CommandableAnalogValue"
          /\ Find("CommandableAnalogValue", name.number) # Nobody
      BY <1>2, <2>3 DEF ListedKind, TypeOf
    <3>. QED BY <1>2, <1>3, <3>1
  <2>. QED BY <2>1, <2>2, <2>3
<1>. QED BY <1>2, <1>5 DEF name, o

-----------------------------------------------------------------------------
\* Object_List.

\* No two entries have the same name; no entry has the name of one of others.
Distinct(s) == \A i, j \in DOMAIN s : Name(s[i]) = Name(s[j]) => i = j
Apart(s, t) == \A a \in ToSet(s), b \in ToSet(t) : Name(a) # Name(b)
Separate ==
    /\ \A k \in Kinds : Distinct(Serving(k))
    /\ Apart(Serving("AnalogValue"), Serving("CommandableAnalogValue"))

\* The objects in the order objectListEntry counts them.
All ==
    Serving("AnalogValue") \o Serving("CommandableAnalogValue") \o Serving("AnalogInput")
    \o Serving("BinaryInput") \o Serving("AnalogOutput") \o Serving("BinaryOutput")
    \o Serving("BinaryValue") \o Serving("MultiStateValue")

\* Two arrays, one after the other.
LEMMA Joined ==
    ASSUME NEW s \in Seq(Objects), NEW t \in Seq(Objects)
    PROVE  /\ s \o t \in Seq(Objects)
           /\ Len(s \o t) = Len(s) + Len(t)
           /\ ToSet(s \o t) = ToSet(s) \cup ToSet(t)
           /\ Distinct(s \o t) <=> Distinct(s) /\ Distinct(t) /\ Apart(s, t)
<1>. DEFINE u == s \o t
            m == Len(s)
            n == Len(t)
<1>1. /\ u \in Seq(Objects) /\ Len(u) = m + n /\ m \in Nat /\ n \in Nat
      /\ DOMAIN u = 1..(m + n) /\ DOMAIN s = 1..m /\ DOMAIN t = 1..n
  OBVIOUS
<1>2. /\ \A i \in 1..m : i \in DOMAIN u /\ u[i] = s[i]
      /\ \A i \in 1..n : m + i \in DOMAIN u /\ u[m + i] = t[i]
  OBVIOUS
<1>3. \A i \in 1..(m + n) : i \in 1..m \/ (i - m \in 1..n /\ i = m + (i - m))
  BY <1>1
<1>. HIDE DEF u, m, n
<1>4. \A i \in DOMAIN u : (i \in 1..m /\ u[i] = s[i]) \/ (i - m \in 1..n /\ u[i] = t[i - m])
  <2>. SUFFICES ASSUME NEW i \in DOMAIN u, i \notin 1..m
                PROVE  i - m \in 1..n /\ u[i] = t[i - m]
    BY <1>2
  <2>1. i - m \in 1..n /\ i = m + (i - m)
    BY <1>1, <1>3
  <2>2. u[m + (i - m)] = t[i - m]
    BY <1>2, <2>1
  <2>. QED BY <2>1, <2>2
<1>5. ToSet(u) = ToSet(s) \cup ToSet(t)
  <2>1. ToSet(u) \subseteq ToSet(s) \cup ToSet(t)
    BY <1>1, <1>4 DEF ToSet
  <2>2. ToSet(s) \cup ToSet(t) \subseteq ToSet(u)
    BY <1>1, <1>2 DEF ToSet
  <2>. QED BY <2>1, <2>2
<1>6. ASSUME Distinct(u) PROVE Distinct(s) /\ Distinct(t) /\ Apart(s, t)
  <2>1. Distinct(s)
    BY <1>1, <1>2, <1>6 DEF Distinct
  <2>2. ASSUME NEW i \in DOMAIN t, NEW j \in DOMAIN t, Name(t[i]) = Name(t[j]) PROVE i = j
    <3>1. /\ m + i \in DOMAIN u /\ m + j \in DOMAIN u
          /\ u[m + i] = t[i] /\ u[m + j] = t[j]
      BY <1>1, <1>2
    <3>2. m + i = m + j
      BY <1>6, <2>2, <3>1 DEF Distinct
    <3>. QED BY <1>1, <3>2
  <2>3. ASSUME NEW a \in ToSet(s), NEW b \in ToSet(t), Name(a) = Name(b) PROVE FALSE
    <3>1. PICK i \in 1..m : a = s[i]
      BY <1>1 DEF ToSet
    <3>2. PICK j \in 1..n : b = t[j]
      BY <1>1 DEF ToSet
    <3>3. i \in DOMAIN u /\ m + j \in DOMAIN u /\ u[i] = a /\ u[m + j] = b
      BY <1>2, <3>1, <3>2
    <3>4. i = m + j
      BY <1>6, <2>3, <3>3 DEF Distinct
    <3>. QED BY <1>1, <3>4
  <2>. QED BY <2>1, <2>2, <2>3 DEF Distinct, Apart
<1>7. ASSUME Distinct(s), Distinct(t), Apart(s, t) PROVE Distinct(u)
  <2>. SUFFICES ASSUME NEW i \in DOMAIN u, NEW j \in DOMAIN u, Name(u[i]) = Name(u[j])
                PROVE  i = j
    BY DEF Distinct
  <2>1. \A x \in 1..m, y \in 1..n : Name(s[x]) # Name(t[y])
    BY <1>1, <1>7 DEF Apart, ToSet
  <2>2. CASE i \in 1..m /\ j \in 1..m
    BY <1>1, <1>2, <1>7, <2>2 DEF Distinct
  <2>3. CASE i - m \in 1..n /\ j - m \in 1..n /\ u[i] = t[i - m] /\ u[j] = t[j - m]
    <3>1. i - m = j - m
      BY <1>1, <1>7, <2>3 DEF Distinct
    <3>. QED BY <1>1, <3>1
  <2>4. CASE i \in 1..m /\ u[i] = s[i] /\ j - m \in 1..n /\ u[j] = t[j - m]
    BY <2>1, <2>4
  <2>5. CASE j \in 1..m /\ u[j] = s[j] /\ i - m \in 1..n /\ u[i] = t[i - m]
    BY <2>1, <2>5
  <2>. QED BY <1>4, <2>2, <2>3, <2>4, <2>5
<1>. QED BY <1>1, <1>5, <1>6, <1>7 DEF u, m, n

\* The array of a kind, as a sequence of objects.
LEMMA ServedObjects ==
    ASSUME Tables, NEW k \in Kinds
    PROVE  /\ Serving(k) \in Seq(Objects) /\ Len(Serving(k)) = Count(k) /\ Count(k) \in Nat
           /\ \A a \in ToSet(Serving(k)) : KindOf[a] = k
<1>. DEFINE t == Serving(k)
<1>1. t \in Seq(Objects) /\ Len(t) = Count(k) /\ Count(k) \in Nat
  BY ServedByKind
<1>2. DOMAIN t = 1..Len(t)
  BY <1>1
<1>3. \A i \in DOMAIN t : KindOf[t[i]] = k
  BY <1>2, ServedByKind
<1>. QED BY <1>1, <1>3 DEF ToSet

\* p is the arrays of the kinds of K, one after the other, n entries in all.
Concatenates(p, K, n) ==
    /\ p \in Seq(Objects) /\ Len(p) = n
    /\ ToSet(p) = UNION {ToSet(Serving(k)) : k \in K}
    /\ \A a \in ToSet(p) : KindOf[a] \in K

\* An array of another type, after those of some kinds.
LEMMA Extended ==
    ASSUME Tables, NEW p, NEW K, NEW n, Concatenates(p, K, n),
           NEW k \in Kinds, \A x \in K : TypeOf(x) # TypeOf(k)
    PROVE  /\ Concatenates(p \o Serving(k), K \cup {k}, n + Count(k))
           /\ Distinct(p \o Serving(k)) <=> Distinct(p) /\ Distinct(Serving(k))
<1>. DEFINE t == Serving(k)
            u == p \o t
<1>1. t \in Seq(Objects) /\ Len(t) = Count(k) /\ \A b \in ToSet(t) : KindOf[b] = k
  BY ServedObjects
<1>2. (UNION {ToSet(Serving(x)) : x \in K \cup {k}}) = (UNION {ToSet(Serving(x)) : x \in K}) \cup ToSet(t)
  OBVIOUS
<1>. HIDE DEF t
<1>3. p \in Seq(Objects) /\ Len(p) = n /\ \A a \in ToSet(p) : KindOf[a] \in K
  BY DEF Concatenates
<1>4. Apart(p, t)
  BY <1>1, <1>3 DEF Apart, Name
<1>5. /\ u \in Seq(Objects) /\ Len(u) = Len(p) + Len(t)
      /\ ToSet(u) = ToSet(p) \cup ToSet(t)
      /\ Distinct(u) <=> Distinct(p) /\ Distinct(t)
  BY <1>1, <1>3, <1>4, Joined
<1>. HIDE DEF u
<1>6. Concatenates(u, K \cup {k}, n + Count(k))
  BY <1>1, <1>2, <1>3, <1>5 DEF Concatenates
<1>. QED BY <1>5, <1>6 DEF t, u

\* The two kinds of Analog Values come first.
LEMMA AnalogValuesFirst ==
    ASSUME Tables
    PROVE  LET av == Serving("AnalogValue")
               cav == Serving("CommandableAnalogValue")
           IN  /\ Concatenates(av \o cav, {"AnalogValue", "CommandableAnalogValue"},
                               Count("AnalogValue") + Count("CommandableAnalogValue"))
               /\ Distinct(av \o cav) <=> Distinct(av) /\ Distinct(cav) /\ Apart(av, cav)
<1>. DEFINE av == Serving("AnalogValue")
            cav == Serving("CommandableAnalogValue")
            kinds == {"AnalogValue", "CommandableAnalogValue"}
<1>0. kinds \subseteq Kinds
  BY DEF Kinds
<1>1. /\ av \in Seq(Objects) /\ Len(av) = Count("AnalogValue")
      /\ \A a \in ToSet(av) : KindOf[a] = "AnalogValue"
  BY <1>0, ServedObjects
<1>2. /\ cav \in Seq(Objects) /\ Len(cav) = Count("CommandableAnalogValue")
      /\ \A a \in ToSet(cav) : KindOf[a] = "CommandableAnalogValue"
  BY <1>0, ServedObjects
<1>3. (UNION {ToSet(Serving(k)) : k \in kinds}) = ToSet(av) \cup ToSet(cav)
  OBVIOUS
<1>. HIDE DEF av, cav
<1>4. /\ av \o cav \in Seq(Objects) /\ Len(av \o cav) = Len(av) + Len(cav)
      /\ ToSet(av \o cav) = ToSet(av) \cup ToSet(cav)
      /\ Distinct(av \o cav) <=> Distinct(av) /\ Distinct(cav) /\ Apart(av, cav)
  BY <1>1, <1>2, Joined
<1>5. Concatenates(av \o cav, kinds, Count("AnalogValue") + Count("CommandableAnalogValue"))
  BY <1>1, <1>2, <1>3, <1>4 DEF Concatenates
<1>. QED BY <1>4, <1>5 DEF av, cav

\* Object_List stands for what serves, kind after kind, and no two entries
\* are alike when the kinds are separate.
LEMMA AllServed ==
    ASSUME Tables
    PROVE  /\ All \in Seq(Objects) /\ ObjectCount = 1 + Len(All)
           /\ ToSet(All) = UNION {ToSet(Serving(k)) : k \in Kinds}
           /\ Distinct(All) <=> Separate
<1>. DEFINE p2 == Serving("AnalogValue") \o Serving("CommandableAnalogValue")
            p3 == p2 \o Serving("AnalogInput")
            p4 == p3 \o Serving("BinaryInput")
            p5 == p4 \o Serving("AnalogOutput")
            p6 == p5 \o Serving("BinaryOutput")
            p7 == p6 \o Serving("BinaryValue")
            p8 == p7 \o Serving("MultiStateValue")
            k2 == {"AnalogValue", "CommandableAnalogValue"}
            k3 == k2 \cup {"AnalogInput"}
            k4 == k3 \cup {"BinaryInput"}
            k5 == k4 \cup {"AnalogOutput"}
            k6 == k5 \cup {"BinaryOutput"}
            k7 == k6 \cup {"BinaryValue"}
            k8 == k7 \cup {"MultiStateValue"}
            c2 == Count("AnalogValue") + Count("CommandableAnalogValue")
            c3 == c2 + Count("AnalogInput")
            c4 == c3 + Count("BinaryInput")
            c5 == c4 + Count("AnalogOutput")
            c6 == c5 + Count("BinaryOutput")
            c7 == c6 + Count("BinaryValue")
            c8 == c7 + Count("MultiStateValue")
<1>1. \A k \in Kinds : Count(k) \in Nat
  BY ServedObjects
<1>2. /\ \A x \in k2 : TypeOf(x) # TypeOf("AnalogInput")
      /\ \A x \in k3 : TypeOf(x) # TypeOf("BinaryInput")
      /\ \A x \in k4 : TypeOf(x) # TypeOf("AnalogOutput")
      /\ \A x \in k5 : TypeOf(x) # TypeOf("BinaryOutput")
      /\ \A x \in k6 : TypeOf(x) # TypeOf("BinaryValue")
      /\ \A x \in k7 : TypeOf(x) # TypeOf("MultiStateValue")
      /\ Kinds = k8
  BY DEF Kinds, TypeOf
<1>. USE DEF Kinds
<1>3. Concatenates(p2, k2, c2)
  BY AnalogValuesFirst
<1>. HIDE DEF p2, c2, k2
<1>4. Concatenates(p3, k3, c3) /\ (Distinct(p3) <=> Distinct(p2) /\ Distinct(Serving("AnalogInput")))
  BY <1>2, <1>3, Extended
<1>. HIDE DEF p3, c3
<1>5. Concatenates(p4, k4, c4) /\ (Distinct(p4) <=> Distinct(p3) /\ Distinct(Serving("BinaryInput")))
  BY <1>2, <1>4, Extended
<1>. HIDE DEF p4, c4, k3
<1>6. Concatenates(p5, k5, c5) /\ (Distinct(p5) <=> Distinct(p4) /\ Distinct(Serving("AnalogOutput")))
  BY <1>2, <1>5, Extended
<1>. HIDE DEF p5, c5, k4
<1>7. Concatenates(p6, k6, c6) /\ (Distinct(p6) <=> Distinct(p5) /\ Distinct(Serving("BinaryOutput")))
  BY <1>2, <1>6, Extended
<1>. HIDE DEF p6, c6, k5
<1>8. Concatenates(p7, k7, c7) /\ (Distinct(p7) <=> Distinct(p6) /\ Distinct(Serving("BinaryValue")))
  BY <1>2, <1>7, Extended
<1>. HIDE DEF p7, c7, k6
<1>9. Concatenates(p8, k8, c8)
      /\ (Distinct(p8) <=> Distinct(p7) /\ Distinct(Serving("MultiStateValue")))
  BY <1>2, <1>8, Extended
<1>10. Separate <=> /\ Distinct(p2) /\ Distinct(Serving("AnalogInput"))
                    /\ Distinct(Serving("BinaryInput")) /\ Distinct(Serving("AnalogOutput"))
                    /\ Distinct(Serving("BinaryOutput")) /\ Distinct(Serving("BinaryValue"))
                    /\ Distinct(Serving("MultiStateValue"))
  BY AnalogValuesFirst DEF Separate, p2
<1>11. Distinct(p8) <=> Separate
  BY <1>4, <1>5, <1>6, <1>7, <1>8, <1>9, <1>10
<1>12. All = p8
  BY DEF All, p2, p3, p4, p5, p6, p7
<1>13. ObjectCount = 1 + c8
  BY <1>1 DEF ObjectCount, c2, c3, c4, c5, c6, c7
<1>. HIDE DEF p8, c8, k8, Kinds
<1>. QED BY <1>2, <1>9, <1>11, <1>12, <1>13 DEF Concatenates

\* The device comes first, and then the name of each object.
LEMMA EntriesOfList ==
    ASSUME Tables
    PROVE  /\ DOMAIN ObjectList = 1..(1 + Len(All)) /\ Len(All) \in Nat
           /\ ObjectList[1] = DeviceName
           /\ \A i \in 1..Len(All) : ObjectList[1 + i] = Name(All[i])
<1>. DEFINE n == Len(All)
            names == [i \in 1..n |-> Name(All[i])]
            T == {DeviceName} \cup {names[i] : i \in 1..n}
<1>1. n \in Nat /\ ObjectCount - 1 = n
  BY AllServed
<1>2. ObjectList = <<DeviceName>> \o names
  BY <1>1 DEF ObjectList, All
<1>. HIDE DEF n
<1>3. names \in Seq(T) /\ Len(names) = n
  <2>1. names \in [1..n -> T]
    OBVIOUS
  <2>2. DOMAIN names = 1..n
    OBVIOUS
  <2>. QED BY <1>1, <2>1, <2>2
<1>4. \A i \in 1..n : names[i] = Name(All[i])
  OBVIOUS
<1>5. <<DeviceName>> \in Seq(T) /\ Len(<<DeviceName>>) = 1 /\ <<DeviceName>>[1] = DeviceName
  OBVIOUS
<1>. HIDE DEF names, T
<1>6. /\ DOMAIN ObjectList = 1..(1 + n)
      /\ \A i \in 1..(1 + n) :
            ObjectList[i] = IF i <= 1 THEN <<DeviceName>>[i] ELSE names[i - 1]
  BY <1>1, <1>2, <1>3, <1>5, ConcatProperties, LenProperties
<1>7. ObjectList[1] = DeviceName
  BY <1>1, <1>5, <1>6
<1>8. \A i \in 1..n : ObjectList[1 + i] = names[i]
  BY <1>1, <1>6
<1>. QED BY <1>1, <1>4, <1>6, <1>7, <1>8 DEF n

\* Object_List names the device and what serves.
LEMMA NamesListed ==
    ASSUME Tables
    PROVE  ToSet(ObjectList) =
               {DeviceName} \cup {Name(o) : o \in UNION {ToSet(Serving(k)) : k \in Kinds}}
<1>. DEFINE n == Len(All)
            served == UNION {ToSet(Serving(k)) : k \in Kinds}
<1>1. /\ n \in Nat /\ DOMAIN All = 1..n /\ ToSet(All) = served
  BY AllServed
<1>2. /\ DOMAIN ObjectList = 1..(1 + n) /\ ObjectList[1] = DeviceName
      /\ \A i \in 1..n : ObjectList[1 + i] = Name(All[i])
  BY EntriesOfList
<1>. HIDE DEF n, served
<1>3. ASSUME NEW i \in DOMAIN ObjectList
      PROVE  ObjectList[i] \in {DeviceName} \cup {Name(o) : o \in served}
  <2>1. CASE i = 1
    BY <1>2, <2>1
  <2>2. CASE i # 1
    <3>1. i - 1 \in 1..n /\ i = 1 + (i - 1)
      BY <1>1, <1>2, <2>2
    <3>2. ObjectList[1 + (i - 1)] = Name(All[i - 1]) /\ All[i - 1] \in served
      BY <1>1, <1>2, <3>1 DEF ToSet
    <3>. QED BY <3>1, <3>2
  <2>. QED BY <2>1, <2>2
<1>4. ASSUME NEW o \in served PROVE Name(o) \in ToSet(ObjectList)
  <2>1. PICK i \in 1..n : o = All[i]
    BY <1>1 DEF ToSet
  <2>2. 1 + i \in DOMAIN ObjectList /\ ObjectList[1 + i] = Name(o)
    BY <1>1, <1>2, <2>1
  <2>. QED BY <2>2 DEF ToSet
<1>5. DeviceName \in ToSet(ObjectList)
  BY <1>1, <1>2 DEF ToSet
<1>. QED BY <1>3, <1>4, <1>5 DEF ToSet, served

\* No two entries of Object_List are alike if and only if the numbers of the
\* objects of each array differ, and those of the two kinds of Analog Values.
LEMMA OnePerNameIsSeparate == Tables => (OneObjectPerName <=> Separate)
<1>. SUFFICES ASSUME Tables PROVE OneObjectPerName <=> Distinct(All)
  BY AllServed
<1>. DEFINE n == Len(All)
<1>1. /\ n \in Nat /\ DOMAIN All = 1..n
      /\ \A i \in 1..n : All[i] \in Objects
  BY AllServed
<1>2. /\ DOMAIN ObjectList = 1..(1 + n) /\ ObjectList[1] = DeviceName
      /\ \A i \in 1..n : ObjectList[1 + i] = Name(All[i])
  BY EntriesOfList
<1>. HIDE DEF n
<1>3. \A o \in Objects : Name(o) # DeviceName
  BY ObjectsAssumption DEF Name, DeviceName, TypeOf, Kinds
<1>4. ASSUME OneObjectPerName PROVE Distinct(All)
  <2>. SUFFICES ASSUME NEW i \in 1..n, NEW j \in 1..n, Name(All[i]) = Name(All[j]) PROVE i = j
    BY <1>1 DEF Distinct
  <2>1. /\ 1 + i \in DOMAIN ObjectList /\ 1 + j \in DOMAIN ObjectList
        /\ ObjectList[1 + i] = ObjectList[1 + j]
    BY <1>1, <1>2
  <2>2. 1 + i = 1 + j
    BY <1>4, <2>1 DEF OneObjectPerName, IsInjective
  <2>. QED BY <1>1, <2>2
<1>5. ASSUME Distinct(All) PROVE OneObjectPerName
  <2>. SUFFICES ASSUME NEW i \in 1..(1 + n), NEW j \in 1..(1 + n), ObjectList[i] = ObjectList[j]
                PROVE  i = j
    BY <1>2 DEF OneObjectPerName, IsInjective
  <2>1. \A x \in 1..(1 + n) : x # 1 =>
            x - 1 \in 1..n /\ ObjectList[x] = Name(All[x - 1])
    <3>. SUFFICES ASSUME NEW x \in 1..(1 + n), x # 1
                  PROVE  x - 1 \in 1..n /\ ObjectList[x] = Name(All[x - 1])
      OBVIOUS
    <3>1. x - 1 \in 1..n /\ 1 + (x - 1) = x
      BY <1>1
    <3>2. ObjectList[1 + (x - 1)] = Name(All[x - 1])
      BY <1>2, <3>1
    <3>. QED BY <3>1, <3>2
  <2>2. CASE i = 1 \/ j = 1
    BY <1>1, <1>2, <1>3, <2>1, <2>2
  <2>3. CASE i # 1 /\ j # 1
    <3>1. i - 1 = j - 1
      BY <1>1, <1>5, <2>1, <2>3 DEF Distinct
    <3>. QED BY <1>1, <3>1
  <2>. QED BY <2>2, <2>3
<1>. QED BY <1>4, <1>5

\* An array that is set has been compared with itself and, when it is one of
\* Analog Values, with the other one.
LEMMA SetArrayKeepsSeparate ==
    ASSUME Tables, Separate, NEW k \in Kinds, NEW n \in 0..MaxArray,
           NEW array \in [1..n -> {o \in Objects \ Single : KindOf[o] = k}], SetArray(k, array)
    PROVE  Separate'
<1>. DEFINE Numbers(s) == \A i, j \in DOMAIN s : number[s[i]] = number[s[j]] => i = j
<1>1. /\ number' = number /\ DOMAIN array = 1..n /\ Acceptable(k, array)
      /\ \A i \in 1..n : array[i] \in Objects /\ KindOf[array[i]] = k
  BY DEF SetArray, objectVars
<1>2. \A x \in Kinds : Serving(x)' = IF x = k THEN array ELSE Serving(x)
  BY DEF SetArray, Acceptable, Serving, Tables
<1>3. ASSUME NEW i \in 1..n, NEW j \in 1..n, number[array[i]] = number[array[j]] PROVE i = j
  <2>1. i < j \/ j < i \/ i = j
    OBVIOUS
  <2>2. CASE i < j
    <3>1. i \in 1..(j - 1)
      BY <2>2
    <3>. QED BY <1>1, <1>3, <3>1 DEF Acceptable
  <2>3. CASE j < i
    <3>1. j \in 1..(i - 1)
      BY <2>3
    <3>. QED BY <1>1, <1>3, <3>1 DEF Acceptable
  <2>. QED BY <2>1, <2>2, <2>3
<1>4. \A x \in Kinds : Distinct(Serving(x))'
  <2>. SUFFICES ASSUME NEW x \in Kinds PROVE Distinct(Serving(x))'
    OBVIOUS
  <2>1. CASE x = k
    BY <1>1, <1>2, <1>3, <2>1 DEF Distinct, Name
  <2>2. CASE x # k
    BY <1>1, <1>2, <2>2 DEF Distinct, Name, Separate
  <2>. QED BY <2>1, <2>2
<1>5. Apart(Serving("AnalogValue"), Serving("CommandableAnalogValue"))'
  <2>. DEFINE av == Serving("AnalogValue")
              cav == Serving("CommandableAnalogValue")
  <2>1. {"AnalogValue", "CommandableAnalogValue"} \subseteq Kinds
    BY DEF Kinds
  <2>2. CASE k = "AnalogValue"
    <3>1. av' = array /\ cav' = cav
      BY <1>2, <2>1, <2>2
    <3>2. \A i \in 1..n : Find("CommandableAnalogValue", number[array[i]]) = Nobody
      BY <1>1, <2>2 DEF Acceptable
    <3>3. \A i \in 1..n : \A j \in DOMAIN cav : number[cav[j]] # number[array[i]]
      <4>1. DOMAIN cav = 1..Len(cav)
        BY <2>1, ServedObjects
      <4>. QED BY <2>1, <3>2, <4>1, FindServes
    <3>. HIDE DEF av, cav
    <3>4. \A a \in ToSet(array), b \in ToSet(cav) : number[a] # number[b]
      BY <1>1, <3>3 DEF ToSet
    <3>5. Apart(av, cav)'
      BY <1>1, <3>1, <3>4 DEF Apart, Name
    <3>. QED BY <3>5 DEF av, cav
  <2>3. CASE k = "CommandableAnalogValue"
    <3>1. cav' = array /\ av' = av
      BY <1>2, <2>1, <2>3
    <3>2. \A i \in 1..n : Find("AnalogValue", number[array[i]]) = Nobody
      BY <1>1, <2>3 DEF Acceptable
    <3>3. \A i \in 1..n : \A j \in DOMAIN av : number[av[j]] # number[array[i]]
      <4>1. DOMAIN av = 1..Len(av)
        BY <2>1, ServedObjects
      <4>. QED BY <2>1, <3>2, <4>1, FindServes
    <3>. HIDE DEF av, cav
    <3>4. \A a \in ToSet(array), b \in ToSet(av) : number[a] # number[b]
      BY <1>1, <3>3 DEF ToSet
    <3>5. Apart(av, cav)'
      BY <1>1, <3>1, <3>4 DEF Apart, Name
    <3>. QED BY <3>5 DEF av, cav
  <2>4. CASE k \notin {"AnalogValue", "CommandableAnalogValue"}
    <3>1. av' = av /\ cav' = cav
      BY <1>2, <2>1, <2>4
    <3>2. Apart(av, cav)
      BY DEF Separate
    <3>. HIDE DEF av, cav
    <3>3. Apart(av, cav)'
      BY <1>1, <3>1, <3>2 DEF Apart, Name
    <3>. QED BY <3>3 DEF av, cav
  <2>. QED BY <2>2, <2>3, <2>4
<1>. QED BY <1>4, <1>5 DEF Separate

\* An object that is added has been compared with those of its kind.
LEMMA AddObjectKeepsSeparate ==
    ASSUME Tables, Separate, NEW o \in Objects, AddObject(o)
    PROVE  Separate'
<1>. DEFINE k == KindOf[o]
            s == added[k]
<1>. USE ObjectsAssumption
<1>1. /\ number' = number /\ arrays' = arrays /\ k \in AddedKinds /\ arrays[k] = <<>>
      /\ added' = [added EXCEPT ![k] = Append(s, o)]
      /\ \A i \in DOMAIN s : number[s[i]] # number[o]
  BY DEF AddObject, objectVars
<1>2. s \in Seq(Of(k)) /\ \A i \in DOMAIN s : KindOf[s[i]] = k
  BY <1>1 DEF Tables, Of
<1>3. Distinct(s)
  <2>1. CASE s = <<>>
    BY <2>1 DEF Distinct
  <2>2. CASE s # <<>>
    <3>1. Serving(k) = s /\ k \in Kinds
      BY <1>1, <2>2 DEF Serving, AddedKinds, Kinds
    <3>. QED BY <3>1 DEF Separate
  <2>. QED BY <2>1, <2>2
<1>. HIDE DEF s
<1>4. /\ Append(s, o) # <<>> /\ DOMAIN Append(s, o) = (DOMAIN s) \cup {Len(s) + 1}
      /\ Len(s) + 1 \notin DOMAIN s
      /\ \A i \in DOMAIN s : Append(s, o)[i] = s[i]
      /\ Append(s, o)[Len(s) + 1] = o
  BY <1>2
<1>. DEFINE t == Append(s, o)
<1>5. \A x \in Kinds : Serving(x)' = IF x = k THEN t ELSE Serving(x)
  <2>. SUFFICES ASSUME NEW x \in Kinds PROVE Serving(x)' = IF x = k THEN t ELSE Serving(x)
    OBVIOUS
  <2>1. added'[k] = t /\ \A y \in AddedKinds : y # k => added'[y] = added[y]
    BY <1>1 DEF Tables
  <2>. HIDE DEF t
  <2>2. CASE x = k
    BY <1>1, <1>4, <2>1, <2>2 DEF Serving, t
  <2>3. CASE x # k
    BY <1>1, <2>1, <2>3 DEF Serving
  <2>. QED BY <2>2, <2>3
<1>. HIDE DEF t
<1>6. \A i, j \in DOMAIN t : number[t[i]] = number[t[j]] => i = j
  <2>1. \A i, j \in DOMAIN s : number[s[i]] = number[s[j]] => i = j
    BY <1>2, <1>3 DEF Distinct, Name
  <2>2. /\ DOMAIN t = (DOMAIN s) \cup {Len(s) + 1} /\ t[Len(s) + 1] = o
        /\ \A i \in DOMAIN s : t[i] = s[i]
    BY <1>4 DEF t
  <2>. QED BY <1>1, <2>1, <2>2
<1>7. \A x \in Kinds : Distinct(Serving(x))'
  <2>. SUFFICES ASSUME NEW x \in Kinds PROVE Distinct(Serving(x))'
    OBVIOUS
  <2>1. CASE x = k
    BY <1>1, <1>5, <1>6, <2>1 DEF Distinct, Name
  <2>2. CASE x # k
    BY <1>1, <1>5, <2>2 DEF Distinct, Name, Separate
  <2>. QED BY <2>1, <2>2
<1>8. Apart(Serving("AnalogValue"), Serving("CommandableAnalogValue"))'
  <2>. DEFINE av == Serving("AnalogValue")
              cav == Serving("CommandableAnalogValue")
  <2>1. av' = av /\ cav' = cav
    BY <1>1, <1>5 DEF Kinds, AddedKinds
  <2>2. Apart(av, cav)
    BY DEF Separate
  <2>. HIDE DEF av, cav
  <2>3. Apart(av, cav)'
    BY <1>1, <2>1, <2>2 DEF Apart, Name
  <2>. QED BY <2>3 DEF av, cav
<1>. QED BY <1>7, <1>8 DEF Separate

\* A step that changes what serves and renames nothing keeps the names apart.
LEMMA SeparateKept ==
    Tables /\ [Next]_vars =>
        [number' = number => (Separate => Separate')]_<<arrays, added>>
<1>. SUFFICES ASSUME Tables, Next, <<arrays, added>>' # <<arrays, added>>, Separate PROVE Separate'
  BY DEF vars, tableVars
<1>1. ASSUME NEW k \in Kinds, NEW n \in 0..MaxArray,
             NEW array \in [1..n -> {o \in Objects \ Single : KindOf[o] = k}], SetArray(k, array)
      PROVE  Separate'
  BY <1>1, SetArrayKeepsSeparate
<1>2. ASSUME NEW o \in Objects, AddObject(o) PROVE Separate'
  BY <1>2, AddObjectKeepsSeparate
<1>. QED BY <1>1, <1>2 DEF Next, Configure, AddProperty, SetState, SetPropertyRegistrations,
                           Begin, End, WriteProperty, tableVars

\* Whatever the application registers, and in whatever order, only an object
\* that is named anew can make two entries of Object_List alike: the setters
\* and addObject refuse every other case.
THEOREM ServedNamesStayApart == Spec => OnlyRenamingMakesTwins
<1>1. Tables => (OneObjectPerName <=> Separate)
  BY OnePerNameIsSeparate
<1>2. Tables /\ [Next]_vars => [number' = number => (Separate => Separate')]_<<arrays, added>>
  BY SeparateKept
<1>3. Spec => []Tables
  BY TablesInOrder
<1>. QED BY <1>1, <1>2, <1>3, PTL DEF Spec, OnlyRenamingMakesTwins

-----------------------------------------------------------------------------
\* What a write changes of what is read.

\* Of what is found for a name, the commandable object.
Chosen(found) ==
    LET commandable == {o \in found : KindOf[o] \in Commandable} IN
    CASE commandable # {} -> CHOOSE o \in commandable : TRUE
      [] found = {} -> Nobody
      [] OTHER -> CHOOSE o \in found : TRUE

\* A name stands for the same object until a table or a number changes.
LEMMA SameObject ==
    ASSUME UNCHANGED <<number, arrays, added>>, NEW name
    PROVE  ObjectOf(name)' = ObjectOf(name)
<1>1. \A k : Serving(k)' = Serving(k) /\ Count(k)' = Count(k)
  BY DEF Serving, Count
<1>2. \A k, n : Find(k, n)' = Find(k, n)
  <2>. SUFFICES ASSUME NEW k, NEW n PROVE Find(k, n)' = Find(k, n)
    OBVIOUS
  <2>. DEFINE at == {i \in 1..Count(k) : number[Serving(k)[i]] = n}
  <2>1. at' = at
    BY <1>1
  <2>2. Find(k, n) = IF at = {} THEN Nobody ELSE Serving(k)[Min(at)]
    BY DEF Find
  <2>3. Find(k, n)' = IF at' = {} THEN Nobody ELSE (Serving(k)')[Min(at')]
    BY DEF Find
  <2>. HIDE DEF at
  <2>. QED BY <1>1, <2>1, <2>2, <2>3
<1>3. Found(name)' = Found(name)
  BY <1>2 DEF Found
<1>4. ObjectOf(name) = Chosen(Found(name)) /\ ObjectOf(name)' = Chosen(Found(name)')
  BY DEF ObjectOf, Chosen
<1>. QED BY <1>3, <1>4

\* The index of an array is never the one that stands for the whole array.
LEMMA SlotIsAnIndex == \A i \in 1..SlotCount : i # NoIndex /\ i # 0
<1>. QED BY ObjectsAssumption DEF NoIndex

\* An entry of the priority array is answered as it is, and the present value
\* is the entry of the highest priority.
CommandsAnswered ==
    \A name \in ObjectName :
        (ObjectOf(name) # Nobody /\ KindOf[ObjectOf(name)] \in Commandable) =>
            /\ \A i \in 1..SlotCount :
                ReadAnswers(name, "PriorityArray", i) = {Ack(slots[ObjectOf(name)][i])}
            /\ ~IsRegistered(name, "PresentValue") =>
                ReadAnswers(name, "PresentValue", NoIndex) = {Ack(Effective(ObjectOf(name)))}

LEMMA CommandsAreAnswered == Tables => CommandsAnswered
<1>. SUFFICES ASSUME Tables, NEW name \in ObjectName, ObjectOf(name) # Nobody,
                     KindOf[ObjectOf(name)] \in Commandable
              PROVE  /\ \A i \in 1..SlotCount :
                        ReadAnswers(name, "PriorityArray", i) = {Ack(slots[ObjectOf(name)][i])}
                     /\ ~IsRegistered(name, "PresentValue") =>
                        ReadAnswers(name, "PresentValue", NoIndex) = {Ack(Effective(ObjectOf(name)))}
  BY DEF CommandsAnswered
<1>. DEFINE o == ObjectOf(name)
<1>1. /\ name # DeviceName /\ o \in Objects /\ Name(o) = name
      /\ KindOf[o] # "MultiStateValue" /\ KindOf[o] # "AnalogInput"
  BY ObjectHasName DEF Commandable
<1>2. o # Nobody /\ KindOf[o] \in Commandable
  OBVIOUS
<1>3. ASSUME NEW i \in 1..SlotCount
      PROVE  ReadAnswers(name, "PriorityArray", i) = {Ack(slots[o][i])}
  <2>1. ListAnswer(SlotCount, slots[o], i) = Ack(slots[o][i])
    BY SlotIsAnIndex DEF ListAnswer
  <2>2. ReadAnswers(name, "PriorityArray", i) = {ListAnswer(SlotCount, slots[o], i)}
    BY <1>1, <1>2 DEF ReadAnswers
  <2>. QED BY <2>1, <2>2
<1>4. ASSUME ~IsRegistered(name, "PresentValue")
      PROVE  ReadAnswers(name, "PresentValue", NoIndex) = {Ack(Effective(o))}
  <2>1. ReadAnswers(name, "PresentValue", NoIndex) = Answers(o, "PresentValue")
    BY <1>1, <1>2 DEF ReadAnswers
  <2>. HIDE DEF o
  <2>2. \A s \in ToSet(StoredProperties(o)) : s.property # "PresentValue"
    <3>1. CASE StoredProperties(o) = <<>>
      BY <3>1 DEF ToSet
    <3>2. CASE StoredProperties(o) # <<>>
      <4>1. StoredProperties(o) = stored[o] /\ stored[o] \in Seq(StoredProperty(KindOf[o]))
        BY <1>1, <3>2 DEF StoredProperties, Tables
      <4>2. \A s \in ToSet(stored[o]) : s \in StoredProperty(KindOf[o])
        BY <4>1 DEF ToSet
      <4>3. \A s \in StoredProperty(KindOf[o]) : s.property \in Storable(KindOf[o])
        BY DEF StoredProperty
      <4>4. "PresentValue" \notin Storable(KindOf[o])
        BY DEF Storable
      <4>. QED BY <4>1, <4>2, <4>3, <4>4
    <3>. QED BY <3>1, <3>2
  <2>3. {s \in ToSet(StoredProperties(o)) : s.property = "PresentValue"} = {}
    BY <2>2
  <2>4. ~ \E s \in {s \in ToSet(StoredProperties(o)) : s.property = "PresentValue"} :
            s.type = "Enumerated"
    BY <2>3
  <2>5. Answers(o, "PresentValue") = OwnAnswers(o, "PresentValue")
    BY <1>1, <1>4, <2>3, <2>4 DEF Answers
  <2>6. OwnAnswers(o, "PresentValue") = {Ack(OwnValue(o, "PresentValue"))}
    BY <1>1 DEF OwnAnswers, OwnProperties
  <2>7. OwnValue(o, "PresentValue") = Effective(o)
    BY <1>2 DEF OwnValue, o
  <2>. QED BY <2>1, <2>5, <2>6, <2>7
<1>. QED BY <1>3, <1>4

\* A write goes to the commandable object of that name, and its priority is
\* one of a slot.
LEMMA WriteTargetFound ==
    ASSUME Tables, NEW r \in WriteRequests, WriteProperty(r)
    PROVE  /\ r.name \in ObjectName
           /\ ObjectOf(r.name) # Nobody /\ KindOf[ObjectOf(r.name)] \in Commandable
           /\ WriteTarget(r.name) = ObjectOf(r.name) /\ ObjectOf(r.name)' = ObjectOf(r.name)
           /\ r.property = "PresentValue" => Priority(r) \in 1..SlotCount
<1>1. r.name \in ObjectName
  BY ObjectsAssumption
<1>2. WriteAnswer(r).kind = "simpleAck"
  BY DEF WriteProperty
<1>3. WriteTarget(r.name) # Nobody
  BY <1>2 DEF WriteAnswer, UnknownObject, Error
<1>4. ObjectOf(r.name)' = ObjectOf(r.name)
  BY SameObject DEF WriteProperty, objectVars, tableVars
<1>5. ASSUME r.property = "PresentValue" PROVE Priority(r) \in 1..SlotCount
  BY <1>2, <1>3, <1>5 DEF WriteAnswer, UnknownObject, InvalidIndex, Error
<1>. QED BY <1>1, <1>3, <1>4, <1>5 DEF WriteTarget

\* The entry that was written is read, and the present value follows.
LEMMA WrittenIsRead ==
    ASSUME Tables, CommandsAnswered, CommandsAnswered', NEW r \in WriteRequests,
           WriteProperty(r), r.property = "PresentValue"
    PROVE  LET shown(i) == ReadAnswers(r.name, "PriorityArray", i)
               entries == {i \in 1..SlotCount : shown(i) # {Ack(Null)}}
           IN
           /\ shown(Priority(r))' = {Ack(r.value)}
           /\ entries' # {} /\ ~IsRegistered(r.name, "PresentValue") =>
                ReadAnswers(r.name, "PresentValue", NoIndex)' = (shown(Min(entries)))'
<1>. DEFINE o == ObjectOf(r.name)
            P == Priority(r)
            shown(i) == ReadAnswers(r.name, "PriorityArray", i)
            entries == {i \in 1..SlotCount : shown(i) # {Ack(Null)}}
<1>1. /\ r.name \in ObjectName /\ o # Nobody /\ KindOf[o] \in Commandable
      /\ WriteTarget(r.name) = o /\ o' = o /\ P \in 1..SlotCount
  BY WriteTargetFound
<1>2. o \in Objects
  BY <1>1, ObjectHasName
<1>3. /\ \A i \in 1..SlotCount : shown(i)' = {Ack(slots'[o'][i])}
      /\ ~IsRegistered(r.name, "PresentValue")' =>
            ReadAnswers(r.name, "PresentValue", NoIndex)' = {Ack(Effective(o))'}
  BY <1>1 DEF CommandsAnswered
<1>4. slots' = [slots EXCEPT ![o][P] = r.value] /\ registered' = registered
  BY <1>1 DEF WriteProperty, tableVars
<1>. HIDE DEF o, P, shown
<1>5. slots'[o][P] = r.value
  BY <1>1, <1>2, <1>4 DEF Tables
<1>6. shown(P)' = {Ack(r.value)}
  BY <1>1, <1>3, <1>5
<1>7. entries' = {i \in 1..SlotCount : slots'[o][i] # Null}
  <2>1. \A a : {Ack(a)} # {Ack(Null)} <=> a # Null
    <3>1. \A a, b : Ack(a) = Ack(b) => a = b
      <4>1. \A a : Ack(a).value = a
        BY DEF Ack
      <4>. QED BY <4>1
    <3>. QED BY <3>1
  <2>2. entries' = {i \in 1..SlotCount : shown(i)' # {Ack(Null)}}
    OBVIOUS
  <2>3. \A i \in 1..SlotCount : shown(i)' # {Ack(Null)} <=> slots'[o][i] # Null
    <3>1. \A i \in 1..SlotCount : shown(i)' = {Ack(slots'[o][i])}
      BY <1>1, <1>3
    <3>. QED BY <2>1, <3>1
  <2>. QED BY <2>2, <2>3
<1>8. ASSUME entries' # {}, ~IsRegistered(r.name, "PresentValue")
      PROVE  ReadAnswers(r.name, "PresentValue", NoIndex)' = (shown(Min(entries)))'
  <2>1. Occupied(o)' = entries'
    BY <1>1, <1>7 DEF Occupied
  <2>2. Effective(o)' = slots'[o][Min(entries')]
    BY <1>1, <1>8, <2>1 DEF Effective
  <2>3. entries' \in SUBSET Nat
    BY <1>7
  <2>4. Min(entries') \in 1..SlotCount
    BY <1>7, <1>8, <2>3, LeastFound
  <2>5. (shown(Min(entries)))' = {Ack(slots'[o][Min(entries')])}
    BY <1>1, <1>3, <2>4
  <2>6. ~IsRegistered(r.name, "PresentValue")'
    BY <1>4, <1>8 DEF IsRegistered
  <2>7. ReadAnswers(r.name, "PresentValue", NoIndex)' = {Ack(Effective(o))'}
    BY <1>3, <2>6
  <2>8. Ack(Effective(o))' = Ack(slots'[o][Min(entries')])
    BY <2>2 DEF Ack
  <2>. QED BY <2>5, <2>7, <2>8
<1>. QED BY <1>6, <1>8 DEF shown, P

Commands == {"PresentValue", "OutOfService", "PriorityArray"}

\* The device answers none of the properties that a write changes.
DeviceHasNoCommands ==
    \A p \in Commands : DeviceReadAnswers(p, NoIndex) = {UnknownProperty}

LEMMA DeviceTakesNoCommands == Tables => DeviceHasNoCommands
<1>. SUFFICES ASSUME Tables, NEW p \in Commands
              PROVE  DeviceReadAnswers(p, NoIndex) = {UnknownProperty}
  BY DEF DeviceHasNoCommands
<1>1. p \notin Metadata /\ p \notin DeviceOwnProperties
      /\ p \notin {"ObjectList", "PropertyList", "DeviceAddressBinding"}
  <2>1. \A q \in Commands : q \notin ToSet(DeviceProperties)
    BY DEF Commands, ToSet, DeviceProperties
  <2>2. \A q \in Commands : q \notin Metadata
            /\ q \notin {"ObjectList", "PropertyList", "DeviceAddressBinding"}
    BY DEF Commands, Metadata
  <2>. QED BY <2>1, <2>2 DEF DeviceOwnProperties
<1>2. ~IsRegistered(DeviceName, p)
  BY <1>1 DEF IsRegistered, Tables, DeviceName, ToSet
<1>3. DeviceReadAnswers(p, NoIndex) = DeviceAnswers(p)
  BY <1>1 DEF DeviceReadAnswers
<1>. QED BY <1>1, <1>2, <1>3 DEF DeviceAnswers

\* What is read of an object that is not written to stays as it was.
LEMMA OthersStay ==
    ASSUME Tables, DeviceHasNoCommands, DeviceHasNoCommands', NEW r \in WriteRequests,
           WriteProperty(r), NEW name \in ObjectName, name # r.name, NEW p \in Commands
    PROVE  ReadAnswers(name, p, NoIndex)' = ReadAnswers(name, p, NoIndex)
<1>. DEFINE o == ObjectOf(name)
            w == ObjectOf(r.name)
<1>1. /\ UNCHANGED <<number, arrays, added, stored, valid, registered, device>>
      /\ o' = o /\ DeviceName' = DeviceName
  BY SameObject DEF WriteProperty, objectVars, tableVars, DeviceName
<1>2. CASE name = DeviceName
  <2>1. ReadAnswers(name, p, NoIndex) = DeviceReadAnswers(p, NoIndex)
    BY <1>2 DEF ReadAnswers
  <2>2. ReadAnswers(name, p, NoIndex)' = DeviceReadAnswers(p, NoIndex)'
    BY <1>1, <1>2 DEF ReadAnswers
  <2>. QED BY <2>1, <2>2 DEF DeviceHasNoCommands, UnknownProperty, Error
<1>3. CASE name # DeviceName /\ o = Nobody
  BY <1>1, <1>3 DEF ReadAnswers, UnknownObject, Error
<1>4. CASE name # DeviceName /\ o # Nobody
  <2>1. o \in Objects /\ Name(o) = name /\ w \in Objects /\ Name(w) = r.name
    BY <1>4, ObjectHasName, WriteTargetFound
  <2>2. o # w
    BY <2>1
  <2>3. slots'[o] = slots[o] /\ outOfService'[o] = outOfService[o]
    <3>1. WriteTarget(r.name) = w
      BY WriteTargetFound
    <3>. HIDE DEF o, w
    <3>. QED BY <2>1, <2>2, <3>1 DEF WriteProperty, Tables
  <2>4. /\ StoredProperties(o)' = StoredProperties(o) /\ Name(o)' = Name(o)
        /\ \A n : IsRegistered(n, p)' = IsRegistered(n, p)
    BY <1>1 DEF StoredProperties, Name, IsRegistered
  <2>5. Effective(o)' = Effective(o)
    <3>1. Occupied(o)' = Occupied(o)
      BY <1>1, <2>3 DEF Occupied
    <3>. HIDE DEF o
    <3>. QED BY <1>1, <2>3, <3>1 DEF Effective, Value
  <2>. HIDE DEF o, w
  <2>6. OwnValue(o, p)' = OwnValue(o, p)
    BY <1>1, <2>3, <2>4, <2>5 DEF OwnValue, Value
  <2>7. OwnAnswers(o, p)' = OwnAnswers(o, p)
    BY <1>1, <2>6 DEF OwnAnswers, Ack, UnknownProperty, Error
  <2>8. Answers(o, p)' = Answers(o, p)
    BY <1>1, <2>4, <2>7 DEF Answers, RegisteredAnswers, Ack, Value, UnknownProperty, Error
  <2>9. ListAnswer(SlotCount, slots[o], NoIndex)' = ListAnswer(SlotCount, slots[o], NoIndex)
    BY <1>1, <2>3 DEF ListAnswer, Ack, Value
  <2>10. /\ ReadAnswers(name, p, NoIndex) =
                IF KindOf[o] = "MultiStateValue" /\ ~valid[o] THEN {Error(2, 37)}
                ELSE IF KindOf[o] \in Commandable /\ p = "PriorityArray"
                THEN {ListAnswer(SlotCount, slots[o], NoIndex)} ELSE Answers(o, p)
         /\ ReadAnswers(name, p, NoIndex)' =
                IF KindOf[o] = "MultiStateValue" /\ ~valid'[o] THEN {Error(2, 37)}
                ELSE IF KindOf[o] \in Commandable /\ p = "PriorityArray"
                THEN {ListAnswer(SlotCount, slots[o], NoIndex)'} ELSE Answers(o, p)'
    BY <1>1, <1>4 DEF ReadAnswers, Commands, o
  <2>. QED BY <1>1, <2>8, <2>9, <2>10
<1>. QED BY <1>2, <1>3, <1>4

\* Every object has the name of an object.
LEMMA NamesOfObjects == Tables => Names \subseteq ObjectName
<1>. SUFFICES ASSUME Tables PROVE Names \subseteq ObjectName
  OBVIOUS
<1>1. DeviceName \in ObjectName
  BY DEF DeviceName, ObjectName, Tables
<1>2. ASSUME NEW o \in Objects PROVE Name(o) \in ObjectName
  <2>1. number[o] \in Nat /\ KindOf[o] \in Kinds
    BY ObjectsAssumption DEF Tables
  <2>. QED BY <2>1 DEF Name, ObjectName
<1>. QED BY <1>1, <1>2 DEF Names

\* What a write is acknowledged for shows in the next read of that name, and
\* in no read of another.
LEMMA WriteShows ==
    Tables /\ Tables' /\ CommandsAnswered /\ CommandsAnswered'
    /\ DeviceHasNoCommands /\ DeviceHasNoCommands' =>
        \A r \in WriteRequests : WriteProperty(r) =>
            /\ r.property = "PresentValue" =>
                LET shown(i) == ReadAnswers(r.name, "PriorityArray", i)
                    entries == {i \in 1..SlotCount : shown(i) # {Ack(Null)}}
                IN
                /\ shown(Priority(r))' = {Ack(r.value)}
                /\ entries' # {} /\ ~IsRegistered(r.name, "PresentValue") =>
                    ReadAnswers(r.name, "PresentValue", NoIndex)' = (shown(Min(entries)))'
            /\ \A name \in Names \ {r.name}, p \in {"PresentValue", "OutOfService", "PriorityArray"} :
                ReadAnswers(name, p, NoIndex)' = ReadAnswers(name, p, NoIndex)
<1>. SUFFICES ASSUME Tables, CommandsAnswered, CommandsAnswered', DeviceHasNoCommands,
                     DeviceHasNoCommands', NEW r \in WriteRequests, WriteProperty(r)
              PROVE  /\ r.property = "PresentValue" =>
                        LET shown(i) == ReadAnswers(r.name, "PriorityArray", i)
                            entries == {i \in 1..SlotCount : shown(i) # {Ack(Null)}}
                        IN
                        /\ shown(Priority(r))' = {Ack(r.value)}
                        /\ entries' # {} /\ ~IsRegistered(r.name, "PresentValue") =>
                            ReadAnswers(r.name, "PresentValue", NoIndex)' = (shown(Min(entries)))'
                     /\ \A name \in Names \ {r.name},
                           p \in {"PresentValue", "OutOfService", "PriorityArray"} :
                        ReadAnswers(name, p, NoIndex)' = ReadAnswers(name, p, NoIndex)
  OBVIOUS
<1>1. Names \subseteq ObjectName
  BY NamesOfObjects
<1>2. ASSUME NEW name \in Names \ {r.name},
             NEW p \in {"PresentValue", "OutOfService", "PriorityArray"}
      PROVE  ReadAnswers(name, p, NoIndex)' = ReadAnswers(name, p, NoIndex)
  BY <1>1, <1>2, OthersStay DEF Commands
<1>3. r.property = "PresentValue" =>
        LET shown(i) == ReadAnswers(r.name, "PriorityArray", i)
            entries == {i \in 1..SlotCount : shown(i) # {Ack(Null)}}
        IN
        /\ shown(Priority(r))' = {Ack(r.value)}
        /\ entries' # {} /\ ~IsRegistered(r.name, "PresentValue") =>
            ReadAnswers(r.name, "PresentValue", NoIndex)' = (shown(Min(entries)))'
  BY WrittenIsRead
<1>. QED BY <1>2, <1>3

\* Whatever a peer writes and whenever, the entry and the present value it
\* reads next are those of the write, and no other object's are.
THEOREM AcknowledgedWritesShow == Spec => WritesShow
<1>1. Tables => CommandsAnswered
  BY CommandsAreAnswered
<1>2. Tables => DeviceHasNoCommands
  BY DeviceTakesNoCommands
<1>3. Spec => []Tables
  BY TablesInOrder
<1>. QED BY <1>1, <1>2, <1>3, WriteShows, PTL DEF WritesShow

-----------------------------------------------------------------------------
\* Property_List.

\* Two sequences, one after the other.
LEMMA JoinedSets ==
    ASSUME NEW S, NEW T, NEW s \in Seq(S), NEW t \in Seq(T)
    PROVE  /\ Len(s \o t) = Len(s) + Len(t) /\ ToSet(s \o t) = ToSet(s) \cup ToSet(t)
           /\ \E R : s \o t \in Seq(R)
<1>. DEFINE u == s \o t
            m == Len(s)
            n == Len(t)
<1>1. s \in Seq(S \cup T) /\ t \in Seq(S \cup T)
  BY SeqMonotonic
<1>2. /\ u \in Seq(S \cup T) /\ Len(u) = m + n /\ m \in Nat /\ n \in Nat
      /\ DOMAIN u = 1..(m + n) /\ DOMAIN s = 1..m /\ DOMAIN t = 1..n
      /\ \A i \in 1..(m + n) : u[i] = IF i <= m THEN s[i] ELSE t[i - m]
  BY <1>1, ConcatProperties, LenProperties
<1>. HIDE DEF u, m, n
<1>3. ASSUME NEW i \in 1..(m + n) PROVE u[i] \in ToSet(s) \cup ToSet(t)
  <2>1. CASE i <= m
    <3>1. i \in 1..m
      BY <1>2, <2>1
    <3>. QED BY <1>2, <2>1, <3>1 DEF ToSet
  <2>2. CASE ~(i <= m)
    <3>1. i - m \in 1..n
      BY <1>2, <2>2
    <3>. QED BY <1>2, <2>2, <3>1 DEF ToSet
  <2>. QED BY <2>1, <2>2
<1>4. \A i \in 1..m : i \in 1..(m + n) /\ u[i] = s[i]
  BY <1>2
<1>5. \A i \in 1..n : m + i \in 1..(m + n) /\ u[m + i] = t[i]
  <2>. SUFFICES ASSUME NEW i \in 1..n PROVE m + i \in 1..(m + n) /\ u[m + i] = t[i]
    OBVIOUS
  <2>1. m + i \in 1..(m + n) /\ ~(m + i <= m) /\ (m + i) - m = i
    BY <1>2
  <2>2. u[m + i] = t[(m + i) - m]
    BY <1>2, <2>1
  <2>. QED BY <2>1, <2>2
<1>6. ToSet(u) = ToSet(s) \cup ToSet(t)
  <2>1. ToSet(u) = {u[i] : i \in 1..(m + n)}
    BY <1>2 DEF ToSet
  <2>2. ToSet(s) = {s[i] : i \in 1..m} /\ ToSet(t) = {t[i] : i \in 1..n}
    BY <1>2 DEF ToSet
  <2>3. ToSet(u) \subseteq ToSet(s) \cup ToSet(t)
    BY <1>3, <2>1
  <2>4. ToSet(s) \subseteq ToSet(u) /\ ToSet(t) \subseteq ToSet(u)
    BY <1>4, <1>5, <2>1, <2>2
  <2>. QED BY <2>3, <2>4
<1>. QED BY <1>2, <1>6 DEF u, m, n

\* How many of some positions come before one of them, itself included.
Rank(positions, i) == Cardinality({j \in positions : j <= i})

\* Counting down the positions reaches each of them, and nothing else.
LEMMA NthReaches ==
    ASSUME NEW n \in Nat, NEW positions \in SUBSET (1..n)
    PROVE  /\ Cardinality(positions) \in Nat
           /\ {Nth(positions, m) : m \in 1..Cardinality(positions)} = positions
<1>. DEFINE c == Cardinality(positions)
            upTo(i) == {j \in positions : j <= i}
<1>1. IsFiniteSet(positions) /\ c \in Nat
  <2>1. IsFiniteSet(1..n)
    BY FS_Interval
  <2>2. IsFiniteSet(positions)
    BY <2>1, FS_Subset
  <2>. QED BY <2>2, FS_CardinalityType
<1>2. \A i \in positions : IsFiniteSet(upTo(i)) /\ Rank(positions, i) \in 1..c
  <2>. SUFFICES ASSUME NEW i \in positions
                PROVE  IsFiniteSet(upTo(i)) /\ Rank(positions, i) \in 1..c
    OBVIOUS
  <2>1. IsFiniteSet(upTo(i)) /\ Cardinality(upTo(i)) <= c /\ Cardinality(upTo(i)) \in Nat
    BY <1>1, FS_Subset, FS_CardinalityType
  <2>2. i \in upTo(i)
    OBVIOUS
  <2>. HIDE DEF upTo
  <2>3. Cardinality(upTo(i)) # 0
    BY <2>1, <2>2, FS_EmptySet
  <2>. QED BY <1>1, <2>1, <2>3 DEF Rank, upTo
<1>3. \A i, k \in positions : i < k => Rank(positions, i) # Rank(positions, k)
  <2>. SUFFICES ASSUME NEW i \in positions, NEW k \in positions, i < k
                PROVE  Rank(positions, i) # Rank(positions, k)
    OBVIOUS
  <2>1. upTo(i) \in SUBSET upTo(k) /\ k \in upTo(k) /\ k \notin upTo(i)
    <3>1. \A j \in positions : j \in Int
      OBVIOUS
    <3>2. \A j \in positions : j <= i => j <= k
      BY <3>1
    <3>3. k <= k /\ ~(k <= i)
      BY <3>1
    <3>. QED BY <3>2, <3>3
  <2>2. IsFiniteSet(upTo(k))
    BY <1>2
  <2>. HIDE DEF upTo
  <2>3. Cardinality(upTo(k)) # Cardinality(upTo(i))
    BY <2>1, <2>2, FS_Subset
  <2>. QED BY <2>3 DEF Rank, upTo
<1>4. \A i, k \in positions : Rank(positions, i) = Rank(positions, k) => i = k
  <2>1. \A i, k \in positions : i < k \/ k < i \/ i = k
    OBVIOUS
  <2>. QED BY <1>3, <2>1
<1>5. \A i \in positions : Nth(positions, Rank(positions, i)) = i
  BY <1>4 DEF Nth, Rank
<1>6. \A m \in 1..c : \E i \in positions : Rank(positions, i) = m
  <2>. DEFINE f == [i \in positions |-> Rank(positions, i)]
  <2>1. f \in Injection(positions, 1..c)
    BY <1>2, <1>4 DEF Injection, IsInjective
  <2>2. IsFiniteSet(1..c) /\ Cardinality(1..c) = c
    BY <1>1, FS_Interval
  <2>. HIDE DEF f
  <2>3. f \in Surjection(positions, 1..c)
    BY <2>1, <2>2, FS_Injection
  <2>4. \A m \in 1..c : \E i \in positions : f[i] = m
    BY <2>3 DEF Surjection
  <2>. QED BY <2>4 DEF f
<1>. QED BY <1>1, <1>2, <1>5, <1>6

\* What is picked from a sequence is what stands at the positions.
LEMMA PickedThere ==
    ASSUME NEW S, NEW s \in Seq(S), NEW positions \in SUBSET (DOMAIN s)
    PROVE  /\ Len(Picked(s, positions)) = Cardinality(positions)
           /\ Picked(s, positions) \in Seq({s[i].property : i \in positions})
           /\ ToSet(Picked(s, positions)) = {s[i].property : i \in positions}
<1>. DEFINE c == Cardinality(positions)
            T == {s[i].property : i \in positions}
            u == Picked(s, positions)
<1>1. c \in Nat /\ {Nth(positions, m) : m \in 1..c} = positions
  <2>1. DOMAIN s = 1..Len(s) /\ Len(s) \in Nat
    OBVIOUS
  <2>. QED BY <2>1, NthReaches
<1>2. u = [m \in 1..c |-> s[Nth(positions, m)].property]
  BY DEF Picked
<1>. HIDE DEF c, u
<1>3. u \in [1..c -> T]
  BY <1>1, <1>2
<1>4. u \in Seq(T) /\ Len(u) = c /\ DOMAIN u = 1..c
  BY <1>1, <1>2, <1>3
<1>5. ToSet(u) = T
  <2>1. ToSet(u) = {u[m] : m \in 1..c}
    BY <1>4 DEF ToSet
  <2>2. \A m \in 1..c : u[m] = s[Nth(positions, m)].property /\ Nth(positions, m) \in positions
    BY <1>1, <1>2
  <2>3. \A i \in positions : \E m \in 1..c : i = Nth(positions, m)
    BY <1>1
  <2>. QED BY <2>1, <2>2, <2>3
<1>. QED BY <1>4, <1>5 DEF c, u

\* What the table of a kind holds: what the structure answers, and the lists.
Listed(kind) ==
    OwnProperties(kind) \cup {"PropertyList"}
    \cup (IF kind \in Commandable THEN {"PriorityArray"} ELSE {})
    \cup (IF kind = "MultiStateValue" THEN {"StateText"} ELSE {})

\* The elements of a table put together from three sequences.
LEMMA TableElements ==
    ASSUME NEW S, NEW s \in Seq(S)
    PROVE  /\ \E T : Common \o s \o <<"PropertyList">> \in Seq(T)
           /\ ToSet(Common \o s \o <<"PropertyList">>) = ToSet(Common) \cup ToSet(s) \cup {"PropertyList"}
<1>. DEFINE C == ToSet(Common)
            L == {"PropertyList"}
            c == Common
            l == <<"PropertyList">>
            u == c \o s
<1>1. c \in Seq(C)
  BY DEF Common, ToSet
<1>2. l \in Seq(L) /\ ToSet(l) = L
  BY DEF ToSet
<1>. HIDE DEF C, L, c, l
<1>3. ToSet(u) = ToSet(c) \cup ToSet(s) /\ \E R : u \in Seq(R)
  BY <1>1, JoinedSets
<1>. HIDE DEF u
<1>4. PICK R : u \in Seq(R)
  BY <1>3
<1>5. ToSet(u \o l) = ToSet(u) \cup ToSet(l) /\ \E T : u \o l \in Seq(T)
  BY <1>2, <1>4, JoinedSets
<1>. QED BY <1>2, <1>3, <1>5 DEF u, c, l, L

\* The property tables hold what they should, kind by kind.
LEMMA TablesOfKinds ==
    ASSUME NEW k \in Kinds
    PROVE  (\E S : BaseProperties[k] \in Seq(S)) /\ ToSet(BaseProperties[k]) = Listed(k)
<1>. DEFINE With(s) == Common \o s \o <<"PropertyList">>
            Good(s) == /\ \E S : With(s) \in Seq(S)
                       /\ ToSet(With(s)) = ToSet(Common) \cup ToSet(s) \cup {"PropertyList"}
<1>1. ToSet(Common) = {"ObjectIdentifier", "ObjectName", "ObjectType", "PresentValue",
                       "StatusFlags", "EventState", "OutOfService"}
  BY DEF Common, ToSet
<1>2. \A S : \A s \in Seq(S) : Good(s)
  BY TableElements
<1>3. CASE k = "AnalogValue"
  <2>. DEFINE s == <<"Units">>
  <2>1. s \in Seq({"Units"})
    OBVIOUS
  <2>2. ToSet(s) = {"Units"}
    BY DEF ToSet
  <2>3. BaseProperties[k] = With(s)
    BY <1>3 DEF BaseProperties
  <2>. HIDE DEF s
  <2>4. Good(s)
    BY <1>2, <2>1
  <2>5. ToSet(BaseProperties[k]) = ToSet(Common) \cup {"Units"} \cup {"PropertyList"}
    BY <2>2, <2>3, <2>4
  <2>6. ToSet(BaseProperties[k]) = Listed(k)
    BY <1>1, <1>3, <2>5 DEF Listed, OwnProperties, Analog, Commandable
  <2>. QED BY <2>3, <2>4, <2>6
<1>4. CASE k = "CommandableAnalogValue"
  <2>. DEFINE s == <<"Units", "PriorityArray", "RelinquishDefault">>
  <2>1. s \in Seq({"Units", "PriorityArray", "RelinquishDefault"})
    OBVIOUS
  <2>2. ToSet(s) = {"Units", "PriorityArray", "RelinquishDefault"}
    BY DEF ToSet
  <2>3. BaseProperties[k] = With(s)
    BY <1>4 DEF BaseProperties
  <2>. HIDE DEF s
  <2>4. Good(s)
    BY <1>2, <2>1
  <2>5. ToSet(BaseProperties[k]) = ToSet(Common) \cup {"Units", "PriorityArray", "RelinquishDefault"} \cup {"PropertyList"}
    BY <2>2, <2>3, <2>4
  <2>6. ToSet(BaseProperties[k]) = Listed(k)
    BY <1>1, <1>4, <2>5 DEF Listed, OwnProperties, Analog, Commandable
  <2>. QED BY <2>3, <2>4, <2>6
<1>5. CASE k = "AnalogInput"
  <2>. DEFINE s == <<"Units">>
  <2>1. s \in Seq({"Units"})
    OBVIOUS
  <2>2. ToSet(s) = {"Units"}
    BY DEF ToSet
  <2>3. BaseProperties[k] = With(s)
    BY <1>5 DEF BaseProperties
  <2>. HIDE DEF s
  <2>4. Good(s)
    BY <1>2, <2>1
  <2>5. ToSet(BaseProperties[k]) = ToSet(Common) \cup {"Units"} \cup {"PropertyList"}
    BY <2>2, <2>3, <2>4
  <2>6. ToSet(BaseProperties[k]) = Listed(k)
    BY <1>1, <1>5, <2>5 DEF Listed, OwnProperties, Analog, Commandable
  <2>. QED BY <2>3, <2>4, <2>6
<1>6. CASE k = "BinaryInput"
  <2>. DEFINE s == <<>>
  <2>1. s \in Seq({"none"})
    OBVIOUS
  <2>2. ToSet(s) = {}
    BY DEF ToSet
  <2>3. BaseProperties[k] = With(s)
    BY <1>6 DEF BaseProperties
  <2>. HIDE DEF s
  <2>4. Good(s)
    BY <1>2, <2>1
  <2>5. ToSet(BaseProperties[k]) = ToSet(Common) \cup {} \cup {"PropertyList"}
    BY <2>2, <2>3, <2>4
  <2>6. ToSet(BaseProperties[k]) = Listed(k)
    BY <1>1, <1>6, <2>5 DEF Listed, OwnProperties, Analog, Commandable
  <2>. QED BY <2>3, <2>4, <2>6
<1>7. CASE k = "AnalogOutput"
  <2>. DEFINE s == <<"Units", "PriorityArray", "RelinquishDefault">>
  <2>1. s \in Seq({"Units", "PriorityArray", "RelinquishDefault"})
    OBVIOUS
  <2>2. ToSet(s) = {"Units", "PriorityArray", "RelinquishDefault"}
    BY DEF ToSet
  <2>3. BaseProperties[k] = With(s)
    BY <1>7 DEF BaseProperties
  <2>. HIDE DEF s
  <2>4. Good(s)
    BY <1>2, <2>1
  <2>5. ToSet(BaseProperties[k]) = ToSet(Common) \cup {"Units", "PriorityArray", "RelinquishDefault"} \cup {"PropertyList"}
    BY <2>2, <2>3, <2>4
  <2>6. ToSet(BaseProperties[k]) = Listed(k)
    BY <1>1, <1>7, <2>5 DEF Listed, OwnProperties, Analog, Commandable
  <2>. QED BY <2>3, <2>4, <2>6
<1>8. CASE k = "BinaryOutput"
  <2>. DEFINE s == <<"Reliability", "Polarity", "PriorityArray", "RelinquishDefault">>
  <2>1. s \in Seq({"Reliability", "Polarity", "PriorityArray", "RelinquishDefault"})
    OBVIOUS
  <2>2. ToSet(s) = {"Reliability", "Polarity", "PriorityArray", "RelinquishDefault"}
    BY DEF ToSet
  <2>3. BaseProperties[k] = With(s)
    BY <1>8 DEF BaseProperties
  <2>. HIDE DEF s
  <2>4. Good(s)
    BY <1>2, <2>1
  <2>5. ToSet(BaseProperties[k]) = ToSet(Common) \cup {"Reliability", "Polarity", "PriorityArray", "RelinquishDefault"} \cup {"PropertyList"}
    BY <2>2, <2>3, <2>4
  <2>6. ToSet(BaseProperties[k]) = Listed(k)
    BY <1>1, <1>8, <2>5 DEF Listed, OwnProperties, Analog, Commandable
  <2>. QED BY <2>3, <2>4, <2>6
<1>9. CASE k = "BinaryValue"
  <2>. DEFINE s == <<"PriorityArray", "RelinquishDefault">>
  <2>1. s \in Seq({"PriorityArray", "RelinquishDefault"})
    OBVIOUS
  <2>2. ToSet(s) = {"PriorityArray", "RelinquishDefault"}
    BY DEF ToSet
  <2>3. BaseProperties[k] = With(s)
    BY <1>9 DEF BaseProperties
  <2>. HIDE DEF s
  <2>4. Good(s)
    BY <1>2, <2>1
  <2>5. ToSet(BaseProperties[k]) = ToSet(Common) \cup {"PriorityArray", "RelinquishDefault"} \cup {"PropertyList"}
    BY <2>2, <2>3, <2>4
  <2>6. ToSet(BaseProperties[k]) = Listed(k)
    BY <1>1, <1>9, <2>5 DEF Listed, OwnProperties, Analog, Commandable
  <2>. QED BY <2>3, <2>4, <2>6
<1>10. CASE k = "MultiStateValue"
  <2>. DEFINE s == <<"NumberOfStates", "StateText">>
  <2>1. s \in Seq({"NumberOfStates", "StateText"})
    OBVIOUS
  <2>2. ToSet(s) = {"NumberOfStates", "StateText"}
    BY DEF ToSet
  <2>3. BaseProperties[k] = With(s)
    BY <1>10 DEF BaseProperties
  <2>. HIDE DEF s
  <2>4. Good(s)
    BY <1>2, <2>1
  <2>5. ToSet(BaseProperties[k]) = ToSet(Common) \cup {"NumberOfStates", "StateText"} \cup {"PropertyList"}
    BY <2>2, <2>3, <2>4
  <2>6. ToSet(BaseProperties[k]) = Listed(k)
    BY <1>1, <1>10, <2>5 DEF Listed, OwnProperties, Analog, Commandable
  <2>. QED BY <2>3, <2>4, <2>6
<1>. QED BY <1>3, <1>4, <1>5, <1>6, <1>7, <1>8, <1>9, <1>10 DEF Kinds

\* What the Property_List of an object should name: its table, what is
\* registered for its name, and what it carries.
Named(name) ==
    Listed(ListedKind(name)) \cup {p \in {r.property : r \in ToSet(registered)} : IsRegistered(name, p)}
    \cup {s.property : s \in ToSet(StoredProperties(ObjectOf(name)))}

\* What an object carries is what its kind takes, and a list of it.
LEMMA CarriedProperties ==
    ASSUME Tables, NEW o \in Objects
    PROVE  /\ \E S : StoredProperties(o) \in Seq(S)
           /\ \A s \in ToSet(StoredProperties(o)) : s.property \in Properties
           /\ StoredProperties(o) # <<>> => KindOf[o] \in AddedKinds
<1>1. CASE o \in Single
  <2>1. StoredProperties(o) = stored[o] /\ stored[o] \in Seq(StoredProperty(KindOf[o]))
    BY <1>1 DEF StoredProperties, Tables
  <2>2. \A s \in ToSet(stored[o]) : s \in StoredProperty(KindOf[o])
    BY <2>1 DEF ToSet
  <2>3. \A s \in StoredProperty(KindOf[o]) : s.property \in Properties
    BY DEF StoredProperty
  <2>4. KindOf[o] \in AddedKinds
    BY <1>1, ObjectsAssumption
  <2>. QED BY <2>1, <2>2, <2>3, <2>4
<1>2. CASE o \notin Single
  <2>1. StoredProperties(o) = <<>>
    BY <1>2 DEF StoredProperties
  <2>2. <<>> \in Seq({}) /\ ToSet(<<>>) = {}
    BY DEF ToSet
  <2>. QED BY <2>1, <2>2
<1>. QED BY <1>1, <1>2

\* The registrations are a list of those the application may make.
LEMMA RegisteredProperties ==
    ASSUME Tables
    PROVE  /\ registered \in Seq(PropertyRegistration)
           /\ \A r \in ToSet(registered) :
                r.property \in {q.property : q \in UNION {ToSet(s) : s \in RegistrationSets}}
<1>1. registered \in RegistrationSets \/ registered = <<>>
  BY DEF Tables
<1>2. CASE registered \in RegistrationSets
  BY <1>2, ObjectsAssumption
<1>3. CASE registered = <<>>
  BY <1>3 DEF ToSet
<1>. QED BY <1>1, <1>2, <1>3

\* What is named of an object is asked about.
LEMMA NamedIsAsked ==
    ASSUME Tables, NEW name \in ObjectName, ObjectOf(name) # Nobody
    PROVE  Named(name) \subseteq AskedProperties.object
<1>. DEFINE o == ObjectOf(name)
            k == ListedKind(name)
            all == AskedProperties.object
<1>1. o \in Objects /\ KindOf[o] = k /\ k \in Kinds
  BY ObjectHasName, KindListed
<1>2. all = (UNION {ToSet(BaseProperties[x]) : x \in Kinds}) \cup Properties
            \cup {r.property : r \in UNION {ToSet(s) : s \in RegistrationSets}}
  BY DEF AskedProperties
<1>. HIDE DEF all, o, k
<1>3. Listed(k) \subseteq all
  <2>1. ToSet(BaseProperties[k]) = Listed(k)
    BY <1>1, TablesOfKinds
  <2>. QED BY <1>1, <1>2, <2>1
<1>4. {p \in {r.property : r \in ToSet(registered)} : IsRegistered(name, p)} \subseteq all
  <2>1. \A r \in ToSet(registered) : r.property \in all
    BY <1>2, RegisteredProperties
  <2>. QED BY <2>1
<1>5. {s.property : s \in ToSet(StoredProperties(o))} \subseteq all
  BY <1>1, <1>2, CarriedProperties
<1>. QED BY <1>3, <1>4, <1>5 DEF Named, o, k, all

\* The entries that objectPropertyAt counts out are as many as
\* objectPropertyCount says, and are those to be named.
LEMMA EntriesOfObject ==
    ASSUME Tables, NEW name \in ObjectName, ObjectOf(name) # Nobody
    PROVE  /\ Len(PropertyEntries(name)) = PropertyCount(name)
           /\ ToSet(PropertyEntries(name)) = Named(name)
<1>. DEFINE o == ObjectOf(name)
            k == ListedKind(name)
            base == BaseProperties[k]
            carried == StoredProperties(o)
            extra == {i \in DOMAIN carried : carried[i].property \notin ToSet(base)}
            more == Optional(name)
            u == Picked(registered, more)
            v == Picked(carried, extra)
            U == {registered[i].property : i \in more}
            V == {carried[i].property : i \in extra}
<1>1. /\ name # DeviceName /\ name.type # "Device" /\ k \in Kinds /\ TypeOf(k) = name.type
      /\ o \in Objects /\ KindOf[o] = k
  BY ObjectHasName, KindListed
<1>2. (\E S : base \in Seq(S)) /\ ToSet(base) = Listed(k)
  BY <1>1, TablesOfKinds
<1>3. extra = {i \in DOMAIN carried : ~IsBaseProperty(name, carried[i].property)}
  <2>1. CASE carried = <<>>
    BY <2>1
  <2>2. CASE carried # <<>>
    <3>1. k \in AddedKinds
      BY <1>1, <2>2, CarriedProperties
    <3>2. name.type = k /\ name.type # "AnalogOutput"
      BY <1>1, <3>1 DEF TypeOf, AddedKinds
    <3>. QED BY <3>2 DEF IsBaseProperty
  <2>. QED BY <2>1, <2>2
<1>4. PropertyCount(name) = Len(base) + Cardinality(more) + Cardinality(extra)
  BY <1>1 DEF PropertyCount
<1>5. PropertyEntries(name) = base \o u \o v
  BY <1>1, <1>3 DEF PropertyEntries
<1>6. /\ registered \in Seq(PropertyRegistration) /\ more \in SUBSET (DOMAIN registered)
      /\ extra \in SUBSET (DOMAIN carried)
  BY RegisteredProperties DEF Optional, Registrations
<1>7. \E S : carried \in Seq(S)
  BY <1>1, CarriedProperties
<1>8. \A p : p \in U \cup Listed(k) <=>
             p \in Listed(k) \/ \E i \in DOMAIN registered :
                                    registered[i].name = name /\ registered[i].property = p
  BY <1>2 DEF Optional, Registrations
<1>9. \A p : p \in V \cup Listed(k) <=>
             p \in Listed(k) \/ \E i \in DOMAIN carried : carried[i].property = p
  BY <1>2
<1>. HIDE DEF base, carried, extra, more
<1>10. Len(u) = Cardinality(more) /\ u \in Seq(U) /\ ToSet(u) = U
  BY <1>6, PickedThere
<1>11. Len(v) = Cardinality(extra) /\ v \in Seq(V) /\ ToSet(v) = V
  BY <1>6, <1>7, PickedThere
<1>12. Cardinality(more) \in Nat /\ Cardinality(extra) \in Nat /\ Len(base) \in Nat
  <2>1. Len(u) \in Nat /\ Len(v) \in Nat /\ Len(base) \in Nat
    BY <1>2, <1>10, <1>11, LenProperties
  <2>. QED BY <1>10, <1>11, <2>1
<1>. HIDE DEF u, v, U, V
<1>13. /\ Len(base \o u) = Len(base) + Len(u) /\ ToSet(base \o u) = ToSet(base) \cup ToSet(u)
       /\ \E R : base \o u \in Seq(R)
  BY <1>2, <1>10, JoinedSets
<1>. DEFINE w == base \o u
<1>14. PICK R : w \in Seq(R)
  BY <1>13
<1>. HIDE DEF w
<1>15. Len(w \o v) = Len(w) + Len(v) /\ ToSet(w \o v) = ToSet(w) \cup ToSet(v)
  BY <1>11, <1>14, JoinedSets
<1>16. Len(PropertyEntries(name)) = PropertyCount(name)
  BY <1>4, <1>5, <1>10, <1>11, <1>12, <1>13, <1>15 DEF w
<1>17. ToSet(PropertyEntries(name)) = Listed(k) \cup U \cup V
  BY <1>2, <1>5, <1>10, <1>11, <1>13, <1>15 DEF w
<1>18. Listed(k) \cup U \cup V = Named(name)
  <2>1. \A p : p \in Named(name) <=>
            \/ p \in Listed(k)
            \/ \E i \in DOMAIN registered : registered[i].name = name /\ registered[i].property = p
            \/ \E i \in DOMAIN carried : carried[i].property = p
    BY DEF Named, IsRegistered, ToSet, carried, k, o
  <2>. QED BY <1>8, <1>9, <2>1
<1>. QED BY <1>16, <1>17, <1>18

\* Acknowledgements and errors are told apart by their kind.
LEMMA KindsOfAnswers ==
    /\ \A v : Ack(v).kind = "ack"
    /\ \A class, code : Error(class, code).kind = "error"
    /\ UnknownProperty # UnknownObject
<1>1. UnknownProperty.class = 2 /\ UnknownObject.class = 1
  BY DEF UnknownProperty, UnknownObject, Error
<1>. QED BY <1>1 DEF Ack, Error

\* An object answers a read of a property that it carries, that is
\* registered for it or that it has of its own, and no other.
LEMMA ObjectAnswers ==
    ASSUME NEW o, NEW p
    PROVE  /\ (\E a \in Answers(o, p) : a.kind = "ack") <=>
                \/ \E s \in ToSet(StoredProperties(o)) : s.property = p
                \/ IsRegistered(Name(o), p)
                \/ p \in OwnProperties(KindOf[o])
           /\ UnknownObject \notin Answers(o, p)
<1>. DEFINE carried == {s \in ToSet(StoredProperties(o)) : s.property = p}
            known == {Ack(Value("Stored", <<Name(o), p>>))}
            others == IF \E s \in carried : s.type = "Enumerated" THEN {}
                      ELSE IF IsRegistered(Name(o), p) THEN RegisteredAnswers(Name(o), p)
                      ELSE OwnAnswers(o, p)
<1>1. Answers(o, p) = (IF carried # {} THEN known ELSE {}) \cup others
  BY DEF Answers
<1>2. (\E s \in ToSet(StoredProperties(o)) : s.property = p) <=> carried # {}
  OBVIOUS
<1>3. /\ (\E a \in OwnAnswers(o, p) : a.kind = "ack") <=> p \in OwnProperties(KindOf[o])
      /\ UnknownObject \notin OwnAnswers(o, p)
  <2>1. Ack(OwnValue(o, p)).kind = "ack" /\ UnknownProperty.kind = "error"
        /\ UnknownObject.kind = "error" /\ UnknownProperty # UnknownObject
    BY KindsOfAnswers DEF UnknownProperty, UnknownObject
  <2>. QED BY <2>1 DEF OwnAnswers
<1>4. /\ \E a \in RegisteredAnswers(Name(o), p) : a.kind = "ack"
      /\ UnknownObject \notin RegisteredAnswers(Name(o), p)
  <2>1. Ack(Value("Registered", <<Name(o), p>>)).kind = "ack" /\ UnknownObject.kind = "error"
        /\ UnknownProperty # UnknownObject
    BY KindsOfAnswers DEF UnknownObject
  <2>. QED BY <2>1 DEF RegisteredAnswers
<1>5. (\E a \in known : a.kind = "ack") /\ UnknownObject \notin known
  <2>1. Ack(Value("Stored", <<Name(o), p>>)).kind = "ack" /\ UnknownObject.kind = "error"
    BY KindsOfAnswers DEF UnknownObject
  <2>. QED BY <2>1
<1>. HIDE DEF carried, known
<1>6. CASE carried # {}
  BY <1>1, <1>2, <1>3, <1>4, <1>5, <1>6
<1>7. CASE carried = {}
  BY <1>1, <1>2, <1>3, <1>4, <1>7
<1>. QED BY <1>6, <1>7

\* A list that is read whole is sent.
LEMMA WholeList ==
    ASSUME NEW length, NEW entries
    PROVE  ListAnswer(length, entries, NoIndex).kind = "ack"
BY KindsOfAnswers DEF ListAnswer

\* What can be read of an object is what is to be named, unless its
\* configuration is one that the server does not accept.
LEMMA ReadsOfObject ==
    ASSUME Tables, NEW name \in ObjectName, ObjectOf(name) # Nobody, NEW p,
           KindOf[ObjectOf(name)] = "MultiStateValue" => valid[ObjectOf(name)]
    PROVE  CanAnswer(name, p) <=> p \in Named(name)
<1>. DEFINE o == ObjectOf(name)
            k == ListedKind(name)
<1>1. name # DeviceName /\ KindOf[o] = k /\ Name(o) = name
  BY ObjectHasName
<1>2. p \in Named(name) <=>
        \/ p \in Listed(k)
        \/ IsRegistered(name, p)
        \/ \E s \in ToSet(StoredProperties(o)) : s.property = p
  BY DEF Named, IsRegistered
<1>3. CASE k = "MultiStateValue" /\ p = "StateText"
  <2>1. ReadAnswers(name, p, NoIndex) = {ListAnswer(Len(StateTexts), StateTexts, NoIndex)}
    BY <1>1, <1>3 DEF ReadAnswers
  <2>. QED BY <1>2, <1>3, <2>1, WholeList DEF CanAnswer, Listed
<1>4. CASE p = "PropertyList"
  <2>1. ReadAnswers(name, p, NoIndex) =
            {ListAnswer(PropertyCount(name), PropertyIds(PropertyEntries(name)), NoIndex)}
    BY <1>1, <1>4 DEF ReadAnswers
  <2>. QED BY <1>2, <1>4, <2>1, WholeList DEF CanAnswer, Listed
<1>5. CASE k \in Commandable /\ p = "PriorityArray"
  <2>1. ReadAnswers(name, p, NoIndex) = {ListAnswer(SlotCount, slots[o], NoIndex)}
    BY <1>1, <1>5 DEF ReadAnswers, Commandable
  <2>. QED BY <1>2, <1>5, <2>1, WholeList DEF CanAnswer, Listed
<1>6. CASE /\ ~(k = "MultiStateValue" /\ p = "StateText") /\ p # "PropertyList"
           /\ ~(k \in Commandable /\ p = "PriorityArray")
  <2>1. ReadAnswers(name, p, NoIndex) = Answers(o, p)
    BY <1>1, <1>6 DEF ReadAnswers
  <2>2. p \in Listed(k) <=> p \in OwnProperties(k)
    BY <1>6 DEF Listed
  <2>. QED BY <1>1, <1>2, <2>1, <2>2, ObjectAnswers DEF CanAnswer
<1>. QED BY <1>3, <1>4, <1>5, <1>6

\* The same of the device.
LEMMA ReadsOfDevice ==
    ASSUME Tables
    PROVE  /\ Len(PropertyEntries(DeviceName)) = PropertyCount(DeviceName)
           /\ ToSet(PropertyEntries(DeviceName)) =
                {p \in AskedProperties.device : CanAnswer(DeviceName, p)}
           /\ ReadAnswers(DeviceName, "ObjectIdentifier", NoIndex) # {UnknownObject}
<1>. DEFINE given == {registered[i].property : i \in Registrations(DeviceName)}
            u == Picked(registered, Registrations(DeviceName))
            base == ToSet(DeviceProperties)
<1>1. \A p : IsRegistered(DeviceName, p) <=> p \in given
  BY DEF IsRegistered, Registrations, ToSet
<1>2. given \subseteq Metadata
  BY DEF Tables, Registrations, DeviceName
<1>3. /\ Len(u) = Cardinality(Registrations(DeviceName)) /\ u \in Seq(given) /\ ToSet(u) = given
  <2>1. registered \in Seq(PropertyRegistration)
        /\ Registrations(DeviceName) \in SUBSET (DOMAIN registered)
    BY RegisteredProperties DEF Registrations
  <2>. QED BY <2>1, PickedThere
<1>. HIDE DEF u, given
<1>4. DeviceProperties \in Seq(base)
  BY DEF DeviceProperties, ToSet
<1>. HIDE DEF base
<1>5. /\ Len(DeviceProperties \o u) = Len(DeviceProperties) + Len(u)
      /\ ToSet(DeviceProperties \o u) = base \cup given
  BY <1>3, <1>4, JoinedSets DEF base
<1>6. PropertyEntries(DeviceName) = DeviceProperties \o u
      /\ PropertyCount(DeviceName) = Len(DeviceProperties) + Len(u)
  BY <1>3 DEF PropertyEntries, PropertyCount, u
<1>7. /\ "ObjectIdentifier" \in base /\ "ObjectList" \in base
      /\ "PropertyList" \in base /\ "DeviceAddressBinding" \in base
      /\ DeviceOwnProperties = base \ {"ObjectList", "PropertyList", "DeviceAddressBinding"}
  BY DEF DeviceOwnProperties, base, DeviceProperties, ToSet
<1>8. \A p : ReadAnswers(DeviceName, p, NoIndex) = DeviceReadAnswers(p, NoIndex)
  BY DEF ReadAnswers
<1>9. ASSUME NEW p PROVE CanAnswer(DeviceName, p) <=> p \in base \cup given
  <2>1. CASE p \in {"ObjectList", "PropertyList", "DeviceAddressBinding"}
    <3>1. \E a \in DeviceReadAnswers(p, NoIndex) : a.kind = "ack"
      BY <2>1, WholeList, KindsOfAnswers DEF DeviceReadAnswers
    <3>. QED BY <1>7, <1>8, <2>1, <3>1 DEF CanAnswer
  <2>2. CASE p \notin {"ObjectList", "PropertyList", "DeviceAddressBinding"}
    <3>1. DeviceReadAnswers(p, NoIndex) = DeviceAnswers(p)
      BY <2>2 DEF DeviceReadAnswers
    <3>2. CASE p \in given
      <4>1. DeviceAnswers(p) = RegisteredAnswers(DeviceName, p)
        BY <1>1, <3>2 DEF DeviceAnswers
      <4>. QED BY <1>8, <3>1, <3>2, <4>1, KindsOfAnswers DEF CanAnswer, RegisteredAnswers
    <3>3. CASE p \notin given /\ p \in base
      <4>1. \E v : Ack(v) \in DeviceAnswers(p)
        BY <1>1, <1>7, <2>2, <3>3 DEF DeviceAnswers
      <4>. QED BY <1>8, <3>1, <3>3, <4>1, KindsOfAnswers DEF CanAnswer
    <3>4. CASE p \notin given /\ p \notin base
      <4>1. DeviceAnswers(p) = {UnknownProperty}
        BY <1>1, <1>7, <3>4 DEF DeviceAnswers
      <4>. QED BY <1>8, <3>1, <3>4, <4>1, KindsOfAnswers DEF CanAnswer, UnknownProperty
    <3>. QED BY <3>2, <3>3, <3>4
  <2>. QED BY <2>1, <2>2
<1>10. base \cup given \subseteq AskedProperties.device
  BY <1>2 DEF AskedProperties, base
<1>11. ReadAnswers(DeviceName, "ObjectIdentifier", NoIndex) # {UnknownObject}
  <2>1. PICK a \in ReadAnswers(DeviceName, "ObjectIdentifier", NoIndex) : a.kind = "ack"
    BY <1>7, <1>9 DEF CanAnswer
  <2>. QED BY <2>1, KindsOfAnswers DEF UnknownObject
<1>. QED BY <1>5, <1>6, <1>9, <1>10, <1>11

-----------------------------------------------------------------------------
\* The server describes itself.

\* The names answered are the device's and those that stand for an object.
LEMMA NamesAnswered ==
    ASSUME Tables
    PROVE  AnsweredNames = {DeviceName} \cup {name \in Names : ObjectOf(name) # Nobody}
<1>1. ASSUME NEW name \in Names, name # DeviceName, ObjectOf(name) = Nobody
      PROVE  ReadAnswers(name, "ObjectIdentifier", NoIndex) = {UnknownObject}
  BY <1>1 DEF ReadAnswers
<1>2. ASSUME NEW name \in Names, ObjectOf(name) # Nobody
      PROVE  ReadAnswers(name, "ObjectIdentifier", NoIndex) # {UnknownObject}
  <2>. DEFINE o == ObjectOf(name)
  <2>1. name # DeviceName
    BY <1>2, NamesOfObjects, ObjectHasName
  <2>2. CASE KindOf[o] = "MultiStateValue" /\ ~valid[o]
    <3>1. ReadAnswers(name, "ObjectIdentifier", NoIndex) = {Error(2, 37)}
      BY <1>2, <2>1, <2>2 DEF ReadAnswers
    <3>2. Error(2, 37).class = 2 /\ UnknownObject.class = 1
      BY DEF Error, UnknownObject
    <3>. QED BY <3>1, <3>2
  <2>3. CASE ~(KindOf[o] = "MultiStateValue" /\ ~valid[o])
    <3>1. ReadAnswers(name, "ObjectIdentifier", NoIndex) = Answers(o, "ObjectIdentifier")
      BY <1>2, <2>1, <2>3 DEF ReadAnswers
    <3>. QED BY <3>1, ObjectAnswers
  <2>. QED BY <2>2, <2>3
<1>3. ReadAnswers(DeviceName, "ObjectIdentifier", NoIndex) # {UnknownObject} /\ DeviceName \in Names
  BY ReadsOfDevice DEF Names
<1>. QED BY <1>1, <1>2, <1>3 DEF AnsweredNames

\* Object_List names what a read finds, and nothing else.
LEMMA ListIsAnswered ==
    ASSUME Tables
    PROVE  ToSet(ObjectList) = AnsweredNames
<1>. DEFINE served == UNION {ToSet(Serving(k)) : k \in Kinds}
<1>1. ToSet(ObjectList) = {DeviceName} \cup {Name(o) : o \in served}
  BY NamesListed
<1>2. AnsweredNames = {DeviceName} \cup {name \in Names : ObjectOf(name) # Nobody}
  BY NamesAnswered
<1>3. ASSUME NEW o \in served PROVE Name(o) \in Names /\ ObjectOf(Name(o)) # Nobody
  <2>1. PICK k \in Kinds : o \in ToSet(Serving(k))
    OBVIOUS
  <2>2. DOMAIN Serving(k) = 1..Len(Serving(k))
    BY ServedObjects
  <2>3. PICK i \in 1..Len(Serving(k)) : o = Serving(k)[i]
    BY <2>1, <2>2 DEF ToSet
  <2>. QED BY <2>3, ServedByKind, ServedIsFound DEF Names
<1>4. ASSUME NEW name \in Names, ObjectOf(name) # Nobody PROVE \E o \in served : name = Name(o)
  <2>. DEFINE o == ObjectOf(name)
              k == ListedKind(name)
  <2>1. /\ Name(o) = name /\ k \in Kinds
        /\ \E i \in 1..Len(Serving(k)) : Serving(k)[i] = o
    BY <1>4, NamesOfObjects, ObjectHasName, KindListed
  <2>2. DOMAIN Serving(k) = 1..Len(Serving(k))
    BY <2>1, ServedObjects
  <2>3. o \in ToSet(Serving(k))
    BY <2>1, <2>2 DEF ToSet
  <2>. QED BY <2>1, <2>3
<1>. QED BY <1>1, <1>2, <1>3, <1>4

\* The types supported are those of the names answered.
LEMMA TypesAreAnswered ==
    ASSUME Tables
    PROVE  TypesSupported = {name.type : name \in AnsweredNames}
<1>1. AnsweredNames = {DeviceName} \cup {Name(o) : o \in UNION {ToSet(Serving(k)) : k \in Kinds}}
  BY NamesListed, ListIsAnswered
<1>2. DeviceName.type = "Device"
  BY DEF DeviceName
<1>3. ASSUME NEW k \in Kinds, Count(k) # 0
      PROVE  \E name \in AnsweredNames : name.type = TypeOf(k)
  <2>. DEFINE s == Serving(k)
  <2>1. /\ s \in Seq(Objects) /\ Len(s) \in Nat /\ Len(s) # 0
        /\ \A a \in ToSet(s) : KindOf[a] = k
    BY <1>3, ServedObjects
  <2>. HIDE DEF s
  <2>2. 1 \in DOMAIN s
    BY <2>1
  <2>3. s[1] \in ToSet(s)
    BY <2>2 DEF ToSet
  <2>4. Name(s[1]).type = TypeOf(k)
    BY <2>1, <2>3 DEF Name
  <2>. QED BY <1>1, <2>3, <2>4 DEF s
<1>4. ASSUME NEW k \in Kinds, NEW o \in ToSet(Serving(k))
      PROVE  Name(o).type = TypeOf(k) /\ Count(k) # 0
  <2>. DEFINE s == Serving(k)
  <2>1. /\ s \in Seq(Objects) /\ Len(s) = Count(k) /\ Count(k) \in Nat
        /\ \A a \in ToSet(s) : KindOf[a] = k
    BY ServedObjects
  <2>2. o \in ToSet(s)
    OBVIOUS
  <2>. HIDE DEF s
  <2>3. PICK i \in DOMAIN s : o = s[i]
    BY <2>2 DEF ToSet
  <2>4. DOMAIN s = 1..Len(s)
    BY <2>1
  <2>5. Count(k) # 0
    BY <2>1, <2>3, <2>4
  <2>6. Name(o).type = TypeOf(k)
    BY <2>1, <2>2 DEF Name
  <2>. QED BY <2>5, <2>6
<1>5. TypesSupported \subseteq {name.type : name \in AnsweredNames}
  BY <1>1, <1>2, <1>3 DEF TypesSupported
<1>6. {name.type : name \in AnsweredNames} \subseteq TypesSupported
  BY <1>1, <1>2, <1>4 DEF TypesSupported
<1>. QED BY <1>5, <1>6

\* Some peer may ask an object to relinquish one of its slots.
SomeRelinquish ==
    \E r \in WriteRequests :
        /\ r.property = "PresentValue" /\ r.index = NoIndex
        /\ Priority(r) \in 1..SlotCount /\ r.value = Null

\* WriteProperty is a supported service when some object takes a command.
LEMMA WritesAreSupported ==
    ASSUME Tables, SomeRelinquish
    PROVE  "WriteProperty" \in ServicesSupported
            <=> \E name \in AnsweredNames, r \in WriteRequests :
                    WriteAnswer([r EXCEPT !.name = name]).kind = "simpleAck"
<1>1. "WriteProperty" \in ServicesSupported <=> \E k \in Commandable : Count(k) # 0
  BY DEF ServicesSupported
<1>2. Commandable \subseteq Kinds
  BY DEF Commandable, Kinds
<1>3. ASSUME NEW k \in Commandable, Count(k) # 0
      PROVE  \E name \in AnsweredNames, r \in WriteRequests :
                WriteAnswer([r EXCEPT !.name = name]).kind = "simpleAck"
  <2>. DEFINE o == Serving(k)[1]
              name == Name(o)
              x == ObjectOf(name)
  <2>1. 1 \in 1..Len(Serving(k))
    BY <1>2, <1>3, ServedObjects
  <2>2. /\ o \in Objects /\ name \in ObjectName /\ name.type = TypeOf(k) /\ x # Nobody
        /\ name.number = number[o]
    BY <1>2, <2>1, ServedByKind, ServedIsFound DEF Name
  <2>3. name \in AnsweredNames
    BY <2>2, NamesAnswered DEF Names
  <2>4. KindOf[x] = ListedKind(name)
    BY <2>2, ObjectHasName
  <2>5. KindOf[x] \in Commandable
    <3>1. CASE k = "CommandableAnalogValue"
      <4>1. KindOf[o] = k /\ number[o] = name.number
        BY <1>2, <2>1, <2>2, ServedByKind
      <4>2. Find(k, number[o]) # Nobody
        BY <1>2, <2>1, FindServes
      <4>3. name.type = "AnalogValue"
        BY <2>2, <3>1 DEF TypeOf
      <4>. HIDE DEF o, name, x
      <4>4. ListedKind(name) = k
        BY <3>1, <4>1, <4>2, <4>3 DEF ListedKind
      <4>. QED BY <2>4, <4>4
    <3>2. CASE k # "CommandableAnalogValue"
      <4>1. name.type = k /\ k # "AnalogValue"
        BY <2>2, <3>2 DEF TypeOf, Commandable
      <4>. HIDE DEF o, name, x
      <4>2. ListedKind(name) = k
        BY <4>1 DEF ListedKind
      <4>. QED BY <2>4, <4>2
    <3>. QED BY <3>1, <3>2
  <2>. HIDE DEF o, name
  <2>6. WriteTarget(name) = x /\ x # Nobody
    BY <2>2, <2>5 DEF WriteTarget
  <2>7. PICK r \in WriteRequests : /\ r.property = "PresentValue" /\ r.index = NoIndex
                                   /\ Priority(r) \in 1..SlotCount /\ r.value = Null
    BY DEF SomeRelinquish
  <2>. DEFINE q == [r EXCEPT !.name = name]
  <2>8. /\ q.name = name /\ q.property = "PresentValue" /\ q.index = NoIndex
        /\ q.priority = r.priority /\ q.value = Null
    <3>1. DOMAIN r = {"name", "property", "index", "priority", "value"}
      BY ObjectsAssumption
    <3>. QED BY <2>7, <3>1
  <2>. HIDE DEF q, x
  <2>9. Priority(q) = Priority(r) /\ TakesValue(x, q.value)
    BY <2>8 DEF Priority, TakesValue
  <2>10. WriteAnswer(q) = [kind |-> "simpleAck"]
    BY <2>6, <2>7, <2>8, <2>9 DEF WriteAnswer
  <2>11. WriteAnswer(q).kind = "simpleAck"
    BY <2>10
  <2>. QED BY <2>3, <2>11 DEF q
<1>4. ASSUME NEW name \in AnsweredNames, NEW r \in WriteRequests,
             WriteAnswer([r EXCEPT !.name = name]).kind = "simpleAck"
      PROVE  \E k \in Commandable : Count(k) # 0
  <2>. DEFINE q == [r EXCEPT !.name = name]
  <2>1. q.name = name
    <3>1. DOMAIN r = {"name", "property", "index", "priority", "value"}
      BY ObjectsAssumption
    <3>. QED BY <3>1
  <2>2. WriteAnswer(q).kind = "simpleAck"
    BY <1>4
  <2>. HIDE DEF q
  <2>3. WriteTarget(name) # Nobody
    BY <2>1, <2>2 DEF WriteAnswer, UnknownObject, Error
  <2>4. ObjectOf(name) # Nobody /\ KindOf[ObjectOf(name)] \in Commandable
    BY <2>3 DEF WriteTarget
  <2>5. name \in ObjectName
    BY NamesAnswered, NamesOfObjects DEF Names
  <2>6. /\ KindOf[ObjectOf(name)] = ListedKind(name)
        /\ \E i \in 1..Len(Serving(ListedKind(name))) :
            Serving(ListedKind(name))[i] = ObjectOf(name)
    BY <2>4, <2>5, ObjectHasName
  <2>. DEFINE k == ListedKind(name)
  <2>7. k \in Commandable /\ Count(k) = Len(Serving(k)) /\ 1..Len(Serving(k)) # {}
    BY <1>2, <2>4, <2>6, ServedByKind
  <2>. QED BY <2>7
<1>. QED BY <1>1, <1>3, <1>4

\* With its tables in order, what the server says of itself is what it answers.
LEMMA DescribedByTables ==
    ASSUME Tables, SomeRelinquish
    PROVE  DescribesItself
<1>1. \A name \in AnsweredNames : name \in Names /\ (name = DeviceName \/ ObjectOf(name) # Nobody)
  BY NamesAnswered DEF Names
<1>2. ASSUME NEW name \in AnsweredNames
      PROVE  \/ /\ name.type = "MultiStateValue"
                /\ ReadAnswers(name, "PropertyList", NoIndex) = {Error(2, 37)}
             \/ /\ Len(PropertyEntries(name)) = PropertyCount(name)
                /\ ToSet(PropertyEntries(name)) = {p \in Asked(name) : CanAnswer(name, p)}
  <2>1. CASE name = DeviceName
    BY <2>1, ReadsOfDevice DEF Asked
  <2>2. CASE name # DeviceName
    <3>. DEFINE o == ObjectOf(name)
    <3>1. name \in ObjectName /\ o # Nobody
      BY <1>1, <2>2, NamesOfObjects
    <3>2. KindOf[o] = ListedKind(name) /\ name.type # "Device"
      BY <3>1, ObjectHasName
    <3>3. CASE KindOf[o] = "MultiStateValue" /\ ~valid[o]
      <4>1. name.type = "MultiStateValue"
        BY <3>1, <3>2, <3>3, KindListed DEF TypeOf
      <4>2. ReadAnswers(name, "PropertyList", NoIndex) = {Error(2, 37)}
        BY <2>2, <3>1, <3>3 DEF ReadAnswers
      <4>. QED BY <4>1, <4>2
    <3>4. CASE KindOf[o] = "MultiStateValue" => valid[o]
      <4>1. \A p : CanAnswer(name, p) <=> p \in Named(name)
        BY <3>1, <3>4, ReadsOfObject
      <4>2. Asked(name) = AskedProperties.object
        BY <2>2 DEF Asked
      <4>. QED BY <3>1, <4>1, <4>2, EntriesOfObject, NamedIsAsked
    <3>. QED BY <3>3, <3>4
  <2>. QED BY <2>1, <2>2
<1>. QED BY <1>2, ListIsAnswered, TypesAreAnswered, WritesAreSupported DEF DescribesItself

\* Whatever objects, arrays and registrations the application has, and in
\* whatever order it sets them up, Object_List, Property_List and what is said
\* to be supported agree with what ReadProperty and WriteProperty answer.
THEOREM ServerDescribesItself ==
    ASSUME SomeRelinquish PROVE Spec => []DescribesItself
<1>1. Tables => DescribesItself
  BY DescribedByTables
<1>. QED BY <1>1, TablesInOrder, PTL

================================================================================

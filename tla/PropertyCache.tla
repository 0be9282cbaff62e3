---------------------------- MODULE PropertyCache ----------------------------
(***************************************************************************)
(* The property cache of a BacnetDeviceSession: the outcome of the last     *)
(* attempt to read each of the MaxCached properties it entered last, and    *)
(* the last value that was read of them.  Times and error codes are left    *)
(* out.                                                                     *)
(***************************************************************************)
EXTENDS Integers

CONSTANTS
    MaxCached,      \* kMaxCachedProperties
    Requests,       \* the requests: object, property, array index
    Values,         \* what a response decodes to
    NoValue,        \* no value came with the outcome (a null pointer)
    Statuses,       \* BacnetPropertyReadStatus
    Free,           \* a slot that was never used
    Tracked         \* the requests whose values the history keeps

ASSUME CacheAssumption ==
    /\ MaxCached \in Nat \ {0}
    /\ NoValue \notin Values
    /\ {"Ack", "Skipped"} \subseteq Statuses
    /\ Free \notin [request : Requests, status : Statuses,
                    value : Values \cup {NoValue}, hasValue : BOOLEAN]
    /\ Tracked \subseteq Requests

VARIABLES
    cache,          \* propertyCache_, and propertyCacheUsed_ as Free
    cacheCount,     \* propertyCacheCount_
    nextSlot,       \* nextPropertyCacheSlot_, counted from 1
    acked           \* history: the value last acknowledged for a request

cacheVars == <<cache, cacheCount, nextSlot, acked>>

Slots == 1..MaxCached
After(i) == IF i = MaxCached THEN 1 ELSE i + 1

Entries == [request : Requests, status : Statuses,
            value : Values \cup {NoValue}, hasValue : BOOLEAN]

Holds(i, request) == cache[i] # Free /\ cache[i].request = request

IsCached(request) == \E i \in Slots : Holds(i, request)

CacheInit ==
    /\ cache = [i \in Slots |-> Free]
    /\ cacheCount = 0
    /\ nextSlot = 1
    /\ acked = [r \in Tracked |-> NoValue]

\* Mutant: the value of a failed attempt replaces the last good one.
RefreshedReplacing(entry, status, value) ==
    [entry EXCEPT !.status = status,
                  !.value = IF value # NoValue THEN value ELSE @,
                  !.hasValue = @ \/ status = "Ack"]

\* What an attempt makes of an entry.  A failed one brings its own value only
\* while there is no good one.
Refreshed(entry, status, value) ==
    [entry EXCEPT !.status = status,
                  !.value = IF value # NoValue /\ (status = "Ack" \/ ~entry.hasValue)
                            THEN value ELSE @,
                  !.hasValue = @ \/ (status = "Ack" /\ value # NoValue)]

Blank(request) == [request |-> request, status |-> "Skipped", value |-> NoValue,
                   hasValue |-> FALSE]

\* The request has an entry.
Refresh(i, request, status, value) ==
    /\ Holds(i, request)
    /\ cache' = [cache EXCEPT ![i] = Refreshed(@, status, value)]
    /\ UNCHANGED <<cacheCount, nextSlot>>

\* The first slot, from nextSlot on, that was never used.
FirstFree(i) ==
    /\ cache[i] = Free
    /\ \A j \in Slots :
          (IF nextSlot <= i THEN j \in nextSlot..(i - 1)
                            ELSE j \in nextSlot..MaxCached \/ j < i) => cache[j] # Free

\* It gets one: a free slot while there is one, else the next in turn.
Create(i, request, status, value) ==
    /\ ~IsCached(request)
    /\ IF cacheCount < MaxCached
       THEN FirstFree(i) /\ cacheCount' = cacheCount + 1
       ELSE i = nextSlot /\ UNCHANGED cacheCount
    /\ cache' = [cache EXCEPT ![i] = Refreshed(Blank(request), status, value)]
    /\ nextSlot' = After(i)

\* updatePropertyCache()
UpdatePropertyCache(request, status, value) ==
    /\ \E i \in Slots :
          Refresh(i, request, status, value) \/ Create(i, request, status, value)
    /\ acked' = IF status = "Ack" /\ value # NoValue /\ request \in Tracked
                THEN [acked EXCEPT ![request] = value] ELSE acked

CacheNext ==
    \E request \in Requests, status \in Statuses, value \in Values \cup {NoValue} :
        UpdatePropertyCache(request, status, value)

CacheSpec == CacheInit /\ [][CacheNext]_cacheVars

-----------------------------------------------------------------------------
\* A request never has two entries: after any number of evictions the search
\* finds the entry that is kept up to date (findCachedProperty()).
OneEntryEach ==
    \A i, j \in Slots :
        cache[i] # Free /\ cache[j] # Free /\ cache[i].request = cache[j].request => i = j

\* An entry's good value is the one the device last acknowledged for that very
\* request, through failed refreshes and evictions in between.
ValueIsLastAcked ==
    \A i \in Slots :
        cache[i] # Free /\ cache[i].request \in Tracked /\ cache[i].hasValue =>
            cache[i].value = acked[cache[i].request]

\* No entry is evicted while a slot was never used.
EvictsOnlyWhenFull ==
    [][\A i \in Slots :
          cache[i] # Free /\ cache'[i].request # cache[i].request =>
              \A j \in Slots : cache[j] # Free]_cacheVars

=============================================================================

------------------------------ MODULE JsonList ------------------------------
(***************************************************************************)
(* The trees of cJSON.c: what its functions do to the items on the heap.    *)
(* The children of an array or object are a list linked by next and prev;   *)
(* the prev of the first one points to the last one, so that appending does *)
(* not walk.  An item that is in no list is the caller's to delete.         *)
(* Single-threaded: a call is one step.  Names, values and references to    *)
(* other items' children are not modelled; a lookup by index or name is a   *)
(* choice of any child, and one that finds nothing changes nothing.         *)
(***************************************************************************)
EXTENDS Naturals, FiniteSets, SequencesExt

CONSTANTS
  Items,      \* the addresses malloc may give to an item
  Null,
  MaxParsed   \* the children of an array or object that is parsed

ASSUME JsonListAssumption ==
  /\ Null \notin Items
  /\ MaxParsed \in Nat

VARIABLES
  live,    \* the items that are allocated
  child, next, prev,
  roots,   \* history: the live items that the caller has to delete
  kids     \* history: the sequence of children each item should have

vars == <<live, child, next, prev, roots, kids>>

TypeOK ==
  /\ live \subseteq Items
  /\ roots \subseteq live
  /\ child \in [Items -> live \cup {Null}]
  /\ next \in [Items -> live \cup {Null}]
  /\ prev \in [Items -> live \cup {Null}]
  /\ kids \in [Items -> Seq(live)]

Init ==
  /\ live = {}
  /\ roots = {}
  /\ child = [i \in Items |-> Null]
  /\ next = child
  /\ prev = child
  /\ kids = [i \in Items |-> <<>>]

-----------------------------------------------------------------------------
\* Freed memory is not distinguished from memory that was never allocated.
Scrub(f, S) == [j \in Items |-> IF j \in S THEN Null ELSE f[j]]

\* The items that cJSON_Delete(i) frees on a heap with these pointers: it
\* follows next and child from i.
Freed(i, ch, nx) ==
  {j \in live : \A S \in SUBSET live :
     /\ i \in S
     /\ \A k \in S : {ch[k], nx[k]} \ {Null} \subseteq S
     => j \in S}

\* The item and everything below it, without its siblings.
Tree(i) == Freed(i, child, [next EXCEPT ![i] = Null])

\* The children of p that a loop from p's child along next meets.
Elements(p) ==
  {j \in live : \A S \in SUBSET live :
     /\ child[p] \in S \cup {Null}
     /\ \A k \in S : next[k] \in S \cup {Null}
     => j \in S}

PositionOf(i, s) == CHOOSE k \in DOMAIN s : s[k] = i

\* cJSON_New_Item clears the new item.
Create ==
  \E i \in Items \ live :
    /\ live' = live \cup {i}
    /\ roots' = roots \cup {i}
    /\ UNCHANGED <<child, next, prev, kids>>

\* The end of the list is found through the prev of its first item.
LinkLast(a, i) ==
  /\ kids' = [kids EXCEPT ![a] = Append(@, i)]
  /\ IF child[a] = Null
     THEN /\ child' = [child EXCEPT ![a] = i]
          /\ next' = [next EXCEPT ![i] = Null]
          /\ prev' = [prev EXCEPT ![i] = i]
     ELSE /\ UNCHANGED child
          /\ IF prev[child[a]] # Null
             THEN /\ next' = [next EXCEPT ![prev[child[a]]] = i]
                  /\ prev' = [prev EXCEPT ![i] = prev[child[a]], ![child[a]] = i]
             ELSE UNCHANGED <<next, prev>>

\* A caller adds an item that is in no list, and not to its own descendant.
AddItem ==
  \E i \in roots : \E a \in live \ Tree(i) :
    /\ LinkLast(a, i)
    /\ roots' = roots \ {i}
    /\ UNCHANGED live

\* cJSON_AddStringToObject and the like create the item and add it.  When the
\* copy of the key cannot be allocated they delete the item again.
AddNewItem ==
  \E i \in Items \ live : \E a \in live :
    /\ LinkLast(a, i)
    /\ live' = live \cup {i}
    /\ UNCHANGED roots

\* With an index beyond the last child the call is AddItem.
InsertItem ==
  \E i \in roots : \E a \in live \ Tree(i) : \E after \in Elements(a) :
    /\ after = child[a] \/ prev[after] # Null
    /\ prev' = [prev EXCEPT ![i] = prev[after], ![after] = i]
    /\ IF after = child[a]
       THEN /\ child' = [child EXCEPT ![a] = i]
            /\ next' = [next EXCEPT ![i] = after]
       ELSE /\ next' = [next EXCEPT ![i] = after, ![prev[after]] = i]
            /\ UNCHANGED child
    /\ kids' = [kids EXCEPT ![a] = InsertAt(@, PositionOf(after, @), i)]
    /\ roots' = roots \ {i}
    /\ UNCHANGED live

\* Mutants: the prev of the first item keeps pointing to the item that was the
\* last one; the item keeps its next.
PrevWithoutStaleTail(p, i) ==
  IF next[i] # Null
  THEN [prev EXCEPT ![next[i]] = prev[i], ![i] = Null]
  ELSE [prev EXCEPT ![i] = Null]
NextWithoutKeepsNext(p, i) ==
  IF i = child[p] THEN next ELSE [next EXCEPT ![prev[i]] = next[i]]

\* The pointers after cJSON_DetachItemViaPointer(p, i).
ChildWithout(p, i) ==
  IF i = child[p] THEN [child EXCEPT ![p] = next[i]] ELSE child
NextWithout(p, i) ==
  IF i = child[p]
  THEN [next EXCEPT ![i] = Null]
  ELSE [next EXCEPT ![prev[i]] = next[i], ![i] = Null]
PrevWithout(p, i) ==
  IF next[i] # Null
  THEN [prev EXCEPT ![next[i]] = prev[i], ![i] = Null]
  ELSE [prev EXCEPT ![child[p]] = prev[i], ![i] = Null]

DetachItem ==
  \E p \in live : \E i \in Elements(p) :
    /\ i = child[p] \/ prev[i] # Null
    /\ child' = ChildWithout(p, i)
    /\ next' = NextWithout(p, i)
    /\ prev' = PrevWithout(p, i)
    /\ kids' = [kids EXCEPT ![p] = RemoveAt(@, PositionOf(i, @))]
    /\ roots' = roots \cup {i}
    /\ UNCHANGED live

\* The heap after cJSON_Delete(i) on a heap with these pointers; ks is the
\* history of the items that stay.
Delete(i, ch, nx, pv, ks) ==
  LET F == Freed(i, ch, nx)
  IN /\ live' = live \ F
     /\ child' = Scrub(ch, F)
     /\ next' = Scrub(nx, F)
     /\ prev' = Scrub(pv, F)
     /\ kids' = [j \in Items |-> IF j \in F THEN <<>> ELSE ks[j]]

\* Mutant: the item is deleted where it is.
DeleteItemInPlace ==
  \E p \in live : \E i \in Elements(p) :
    /\ Delete(i, child, next, prev, kids)
    /\ UNCHANGED roots

\* cJSON_DeleteItemFromArray and cJSON_DeleteItemFromObject detach first.
DeleteItem ==
  \E p \in live : \E i \in Elements(p) :
    /\ i = child[p] \/ prev[i] # Null
    /\ Delete(i, ChildWithout(p, i), NextWithout(p, i), PrevWithout(p, i),
              [kids EXCEPT ![p] = RemoveAt(@, PositionOf(i, @))])
    /\ UNCHANGED roots

DeleteRoot ==
  \E i \in roots :
    /\ Delete(i, child, next, prev, kids)
    /\ roots' = roots \ {i}

\* The pointers when r has taken the place of i among the children of p.
ChildReplaced(p, i, r) ==
  IF child[p] = i THEN [child EXCEPT ![p] = r] ELSE child
NextReplaced(p, i, r) ==
  IF child[p] = i
  THEN [next EXCEPT ![r] = next[i], ![i] = Null]
  ELSE [next EXCEPT ![r] = next[i], ![prev[i]] = r, ![i] = Null]
PrevReplaced(p, i, r) ==
  LET followers == IF next[i] # Null THEN {next[i]} ELSE {child[p]} \ {i}
      back == IF child[p] = i /\ prev[i] = i THEN r ELSE prev[i]
  IN [j \in Items |-> IF j = i THEN Null
                      ELSE IF j \in followers THEN r
                      ELSE IF j = r THEN back ELSE prev[j]]

\* Mutant: the replaced item is not deleted.
ReplaceItemKeepsItem ==
  \E r \in roots : \E p \in live \ Tree(r) : \E i \in Elements(p) :
    /\ child' = ChildReplaced(p, i, r)
    /\ next' = NextReplaced(p, i, r)
    /\ prev' = PrevReplaced(p, i, r)
    /\ kids' = [kids EXCEPT ![p] = ReplaceAt(@, PositionOf(i, @), r)]
    /\ roots' = roots \ {r}
    /\ UNCHANGED live

\* The replaced item is deleted.
ReplaceItem ==
  \E r \in roots : \E p \in live \ Tree(r) : \E i \in Elements(p) :
    /\ Delete(i, ChildReplaced(p, i, r), NextReplaced(p, i, r), PrevReplaced(p, i, r),
              [kids EXCEPT ![p] = ReplaceAt(@, PositionOf(i, @), r)])
    /\ roots' = roots \ {r}

\* cJSON_Duplicate copies the item and what is below it, and joins the copies
\* like the originals.  When it cannot allocate it deletes what it has copied.
\* Without recurse it is Create.
Duplicate ==
  \E i \in live : \E copy \in Injection(Tree(i), Items \ live) :
    LET Original(j) == CHOOSE k \in Tree(i) : copy[k] = j
        Copied(f) == [j \in Items |->
                        IF j \in Range(copy) /\ f[Original(j)] # Null
                        THEN copy[f[Original(j)]] ELSE f[j]]
        Alone(f) == [f EXCEPT ![i] = Null]
    IN /\ live' = live \cup Range(copy)
       /\ roots' = roots \cup {copy[i]}
       /\ child' = Copied(child)
       /\ next' = [Copied(Alone(next)) EXCEPT ![i] = next[i]]
       /\ prev' = [Copied(Alone(prev)) EXCEPT ![i] = prev[i]]
       /\ kids' = [j \in Items |->
                     IF j \in Range(copy)
                     THEN [n \in DOMAIN kids[Original(j)] |-> copy[kids[Original(j)][n]]]
                     ELSE kids[j]]

\* parse_array, parse_object and cJSON_CreateIntArray and the like link the
\* children one by one; the first one learns of the last one at the end.  A
\* parse that fails deletes the children it has.  A nested text is parsed level
\* by level, and its heap is that of several calls.
Parse ==
  \E a \in Items \ live : \E n \in 1..MaxParsed :
  \E s \in Injection(1..n, Items \ (live \cup {a})) :
    LET At(j) == PositionOf(j, s)
    IN /\ live' = live \cup {a} \cup Range(s)
       /\ roots' = roots \cup {a}
       /\ child' = [child EXCEPT ![a] = s[1]]
       /\ next' = [j \in Items |-> IF j \in Range(s) /\ At(j) < n THEN s[At(j) + 1]
                                   ELSE next[j]]
       /\ prev' = [j \in Items |-> IF j \in Range(s)
                                   THEN s[IF At(j) = 1 THEN n ELSE At(j) - 1]
                                   ELSE prev[j]]
       /\ kids' = [kids EXCEPT ![a] = s]

Next ==
  \/ Create \/ AddItem \/ AddNewItem \/ InsertItem \/ DetachItem \/ DeleteItem
  \/ DeleteRoot \/ ReplaceItem \/ Duplicate \/ Parse

Spec == Init /\ [][Next]_vars

-----------------------------------------------------------------------------
\* Any sequence of calls leaves the pointers of each list as the calls, read as
\* operations on sequences, say: next goes from one child to the next one and
\* ends, prev goes back and from the first child to the last one.  An item in
\* no list points to no other.
ListsAreSequences ==
  /\ \A a \in live :
       LET s == kids[a]
       IN /\ child[a] = IF s = <<>> THEN Null ELSE s[1]
          /\ \A k \in 1..Len(s) :
               /\ next[s[k]] = IF k < Len(s) THEN s[k + 1] ELSE Null
               /\ prev[s[k]] = s[IF k = 1 THEN Len(s) ELSE k - 1]
  /\ \A i \in roots : next[i] = Null /\ prev[i] = Null

\* An item that is allocated has one holder: either the caller, or one place in
\* one list.  So whatever the caller deletes is freed once.
OneHolder ==
  \A i \in live :
    /\ i \in roots => \A a \in live : i \notin Range(kids[a])
    /\ \A a, b \in live : \A k \in DOMAIN kids[a], l \in DOMAIN kids[b] :
         kids[a][k] = i /\ kids[b][l] = i => a = b /\ k = l

\* Nothing leaks: deleting what the caller holds frees every item.
NothingLeaks == \A i \in live : \E r \in roots : i \in Freed(r, child, next)
=============================================================================

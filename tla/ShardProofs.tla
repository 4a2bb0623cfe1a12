----------------------------- MODULE ShardProofs ----------------------------
(***************************************************************************)
(* The shard for every set of keys, hash function, number of callers and   *)
(* number of slots; that its hash map, queue and TTL table agree, while    *)
(* the operations that break them are left out.                            *)
(***************************************************************************)
EXTENDS Shard, WellFoundedInduction, TLAPS

(* The head of the tree. *)
LEMMA LeastNat ==
    ASSUME NEW T, T \subseteq Nat, T # {}
    PROVE  \E x \in T : \A y \in T : x <= y
<1>1. PICK x \in T : \A y \in T : ~(<<y, x>> \in OpToRel(<, Nat))
  BY NatLessThanWellFounded, WFMin, Zenon
<1>2. \A y \in T : ~(y < x)
  BY <1>1, Zenon DEF OpToRel
<1> QED BY <1>2

TreeType == SUBSET ((Nat \ {0}) \X Key)

LEMMA PeekLeast ==
    ASSUME NEW tree \in TreeType, tree # {}
    PROVE  /\ peek(tree) \in Times(tree) /\ peek(tree) \in Nat \ {0}
           /\ \A u \in Times(tree) : peek(tree) <= u
<1>1. Times(tree) # {} /\ Times(tree) \subseteq Nat \ {0}
  BY DEF Times, TreeType
<1>2. \E t \in Times(tree) : \A u \in Times(tree) : t <= u
  BY <1>1, LeastNat
<1>3. peek(tree) \in Times(tree) /\ \A u \in Times(tree) : peek(tree) <= u
  BY <1>2, Zenon DEF peek
<1> QED BY <1>1, <1>3

LEMMA PeekUnique ==
    ASSUME NEW tree \in TreeType, NEW t \in Times(tree),
           \A u \in Times(tree) : t <= u
    PROVE  peek(tree) = t
<1>1. tree # {} /\ Times(tree) \subseteq Nat
  BY DEF Times, TreeType
<1> QED BY <1>1, PeekLeast

LEMMA TimesAdd ==
    ASSUME NEW tree, NEW t, NEW k
    PROVE  Times(tree \cup {<<t, k>>}) = Times(tree) \cup {t}
<1>1. \A u : u \in Times(tree \cup {<<t, k>>})
               <=> \E r \in tree \cup {<<t, k>>} : u = r[1]
  BY DEF Times
<1>2. \A u : u \in Times(tree) <=> \E r \in tree : u = r[1]
  BY DEF Times
<1>3. <<t, k>>[1] = t
  OBVIOUS
<1> QED BY <1>1, <1>2, <1>3, Zenon

LEMMA TimesDrop ==
    ASSUME NEW tree, NEW t, NEW k
    PROVE  /\ Times(tree \ {<<t, k>>}) \subseteq Times(tree)
           /\ \A u \in Times(tree) : u # t => u \in Times(tree \ {<<t, k>>})
BY DEF Times

-----------------------------------------------------------------------------
(* The operations of the TTL table: types, and the timer. *)
TtlType == [timeTree : TreeType, armed : BOOLEAN, at : Nat, fired : BOOLEAN]

(* What TimerServesHead says of a table while the eviction goroutine waits. *)
Serves(table) ==
    table.timeTree # {} =>
        \/ table.fired /\ peek(table.timeTree) <= now
        \/ ~table.fired /\ table.armed /\ table.at = peek(table.timeTree)

LEMMA WithTree ==
    ASSUME NEW table \in TtlType, NEW tree \in TreeType
    PROVE  /\ [table EXCEPT !.timeTree = tree] \in TtlType
           /\ [table EXCEPT !.timeTree = tree].timeTree = tree
           /\ [table EXCEPT !.timeTree = tree].armed = table.armed
           /\ [table EXCEPT !.timeTree = tree].at = table.at
           /\ [table EXCEPT !.timeTree = tree].fired = table.fired
BY DEF TtlType

(* put inserts the pair, and arms the timer when it became the head. *)
LEMMA PutKeeps ==
    ASSUME NEW table \in TtlType, NEW t \in Nat \ {0}, NEW k \in Key
    PROVE  /\ put(table, t, k) \in TtlType
           /\ put(table, t, k).timeTree = table.timeTree \cup {<<t, k>>}
           /\ Serves(table) => Serves(put(table, t, k))
<1> DEFINE tree  == table.timeTree
           tree1 == tree \cup {<<t, k>>}
           ttl1  == [table EXCEPT !.timeTree = tree1]
<1>1. tree \in TreeType /\ tree1 \in TreeType /\ tree1 # {}
  <2>1. <<t, k>> \in (Nat \ {0}) \X Key
    OBVIOUS
  <2>2. tree \subseteq (Nat \ {0}) \X Key
    BY DEF TtlType, TreeType
  <2> QED BY <2>1, <2>2 DEF TreeType
<1>2. /\ ttl1 \in TtlType /\ ttl1.timeTree = tree1
      /\ ttl1.armed = table.armed /\ ttl1.at = table.at /\ ttl1.fired = table.fired
  BY <1>1, WithTree
<1>3. put(table, t, k) = IF t \notin Times(tree) /\ peek(tree1) = t
                         THEN resetTimer(ttl1, t) ELSE ttl1
  BY DEF put
<1>4. Times(tree1) = Times(tree) \cup {t}
  BY TimesAdd, Zenon
<1>5. tree = {} => t \notin Times(tree) /\ peek(tree1) = t
  <2>1. tree = {} => Times(tree) = {}
    BY DEF Times
  <2> QED BY <1>1, <1>4, <2>1, PeekUnique
<1>6. ASSUME tree # {}, ~(t \notin Times(tree) /\ peek(tree1) = t)
      PROVE  peek(tree1) = peek(tree)
  <2>1. /\ peek(tree) \in Times(tree) /\ peek(tree) \in Nat
        /\ \A u \in Times(tree) : peek(tree) <= u
    BY <1>1, <1>6, PeekLeast
  <2>2. /\ peek(tree1) \in Times(tree1) /\ peek(tree1) \in Nat
        /\ \A u \in Times(tree1) : peek(tree1) <= u
    BY <1>1, PeekLeast, Zenon
  <2> HIDE DEF tree, tree1
  <2>3. CASE peek(tree1) = t
    BY <1>4, <1>6, <2>1, <2>2, <2>3
  <2>4. CASE peek(tree1) # t
    BY <1>4, <2>1, <2>2, <2>4
  <2> QED BY <2>3, <2>4
<1> HIDE DEF tree, tree1, ttl1
<1>7. CASE t \notin Times(tree) /\ peek(tree1) = t
  <2>1. put(table, t, k) = resetTimer(ttl1, t)
    BY <1>3, <1>7
  <2>2. /\ put(table, t, k) \in TtlType /\ put(table, t, k).timeTree = tree1
        /\ put(table, t, k).at = t /\ put(table, t, k).armed = TRUE
        /\ put(table, t, k).fired = FALSE
    BY <1>2, <2>1, Zenon DEF resetTimer, stopTimer, TtlType
  <2>3. Serves(put(table, t, k))
    BY <1>7, <2>2 DEF Serves
  <2> QED BY <2>2, <2>3 DEF tree, tree1
<1>8. CASE ~(t \notin Times(tree) /\ peek(tree1) = t)
  BY <1>2, <1>3, <1>5, <1>6, <1>8 DEF Serves, tree, tree1
<1> QED BY <1>7, <1>8

(* remove takes the pair out, and moves the timer on when the head went. *)
LEMMA RemoveKeeps ==
    ASSUME NEW table \in TtlType, NEW t \in Nat, NEW k \in Key
    PROVE  /\ remove(table, t, k) \in TtlType
           /\ remove(table, t, k).timeTree = table.timeTree \ {<<t, k>>}
           /\ Serves(table) => Serves(remove(table, t, k))
<1> DEFINE tree  == table.timeTree
           tree1 == tree \ {<<t, k>>}
           ttl1  == [table EXCEPT !.timeTree = tree1]
           moves == /\ t \in Times(tree) \ Times(tree1)
                    /\ peek(tree) = t /\ tree1 # {}
<1>1. tree \in TreeType /\ tree1 \in TreeType
  BY DEF TtlType, TreeType
<1>2. /\ ttl1 \in TtlType /\ ttl1.timeTree = tree1
      /\ ttl1.armed = table.armed /\ ttl1.at = table.at /\ ttl1.fired = table.fired
  BY <1>1, WithTree, Zenon
<1>3. remove(table, t, k) = IF moves THEN resetTimer(ttl1, peek(tree1)) ELSE ttl1
  BY <1>2 DEF remove
<1>4. /\ Times(tree1) \subseteq Times(tree)
      /\ \A u \in Times(tree) : u # t => u \in Times(tree1)
  BY TimesDrop, Zenon
<1>5. ASSUME tree1 # {}, ~moves
      PROVE  tree # {} /\ peek(tree1) = peek(tree)
  <2>1. tree # {}
    BY <1>5
  <2>2. /\ peek(tree) \in Times(tree) /\ peek(tree) \in Nat
        /\ \A u \in Times(tree) : peek(tree) <= u
    BY <1>1, <2>1, PeekLeast
  <2>3. peek(tree) \in Times(tree1)
    <3>1. CASE peek(tree) = t
      BY <1>5, <2>2, <3>1
    <3>2. CASE peek(tree) # t
      BY <1>4, <2>2, <3>2, Zenon
    <3> QED BY <3>1, <3>2
  <2>4. \A u \in Times(tree1) : peek(tree) <= u
    BY <1>4, <2>2, Zenon
  <2> HIDE DEF tree, tree1, moves
  <2>5. peek(tree1) = peek(tree)
    BY <1>1, <2>3, <2>4, PeekUnique
  <2> QED BY <2>1, <2>5
<1>6. moves => peek(tree1) \in Nat
  BY <1>1, PeekLeast
<1> HIDE DEF tree, tree1, ttl1, moves
<1>7. CASE moves
  <2> DEFINE table1 == remove(table, t, k)
  <2>1. table1 = resetTimer(ttl1, peek(tree1))
    BY <1>3, <1>7
  <2>2. /\ table1 \in TtlType /\ table1.timeTree = tree1
        /\ table1.at = peek(tree1) /\ table1.armed = TRUE /\ table1.fired = FALSE
    BY <1>2, <1>6, <1>7, <2>1, Zenon DEF resetTimer, stopTimer, TtlType
  <2>3. Serves(table1)
    BY <2>2 DEF Serves
  <2> QED BY <2>2, <2>3 DEF tree, tree1
<1>8. CASE ~moves
  BY <1>2, <1>3, <1>5, <1>8 DEF Serves, tree, tree1
<1> QED BY <1>7, <1>8

LEMMA ResetKeeps ==
    ASSUME NEW table \in TtlType
    PROVE  reset(table) \in TtlType /\ reset(table).timeTree = {}
BY Zenon DEF reset, stopTimer, TtlType, TreeType

LEMMA DropTimeKeeps ==
    ASSUME NEW table \in TtlType, NEW t
    PROVE  /\ dropTime(table, t) \in TtlType
           /\ dropTime(table, t).timeTree = {r \in table.timeTree : r[1] # t}
<1>1. {r \in table.timeTree : r[1] # t} \in TreeType
  BY DEF TtlType, TreeType
<1> QED BY <1>1, WithTree, Zenon DEF dropTime

-----------------------------------------------------------------------------
(* Types.  The strengthening says which steps of a call carry what: a slot *)
(* between the lock and the later look at the entry, a timestamp that is   *)
(* not NO_EXPIRY on the way to the TTL table.                              *)
TypeInv ==
    /\ TypeOK
    /\ Start <= now
    /\ \A p \in Procs :
          /\ op[p].pc = "put" => op[p].entry.timestamp # 0
          /\ op[p].pc \in {"read", "stamp"} => op[p].slot # 0
          /\ op[p].pc \in {"stamp", "remove"} => "del" \in Ops

OpType == [pc : {"idle", "set", "put", "read", "stamp", "remove"},
           entry : Entry, slot : Slots \cup {0}]

LEMMA IdleTyped == NoEntry \in Entry /\ Idle \in OpType
BY ShardAssumption DEF NoEntry, Idle, Entry, OpType

LEMMA TtlTyped == TypeOK => ttl \in TtlType
BY DEF TypeOK, TtlType, TreeType

(* A caller's step leaves it at a place that carries what it should. *)
LEMMA OpStep ==
    ASSUME TypeInv, NEW p \in Procs, NEW o \in OpType,
           op' = [op EXCEPT ![p] = o],
           o.pc = "put" => o.entry.timestamp # 0,
           o.pc \in {"read", "stamp"} => o.slot # 0,
           o.pc \in {"stamp", "remove"} => "del" \in Ops
    PROVE  /\ op' \in [Procs -> OpType]
           /\ \A q \in Procs :
                 /\ op'[q].pc = "put" => op'[q].entry.timestamp # 0
                 /\ op'[q].pc \in {"read", "stamp"} => op'[q].slot # 0
                 /\ op'[q].pc \in {"stamp", "remove"} => "del" \in Ops
BY DEF TypeInv, TypeOK, OpType

LEMMA FoundTyped ==
    ASSUME TypeOK, NEW k \in Key
    PROVE  /\ HashOf[k] \in Hashes
           /\ Found(k) => hashmap[HashOf[k]] \in Slots /\ Stored(k) \in Entry
           /\ Freed(k) \subseteq Slots
           /\ DropPrevious(k) \in TtlType
<1>1. HashOf[k] \in Hashes
  BY DEF Hashes
<1>2. Found(k) => hashmap[HashOf[k]] \in Slots /\ Stored(k) \in Entry
  BY <1>1 DEF TypeOK, Found, Stored
<1>3. Freed(k) \subseteq Slots
  BY <1>2 DEF Freed, TypeOK
<1>4. Found(k) => Stored(k).timestamp \in Nat
  BY <1>2 DEF Entry
<1>5. DropPrevious(k) \in TtlType
  BY <1>4, TtlTyped, RemoveKeeps DEF DropPrevious
<1> QED BY <1>1, <1>2, <1>3, <1>5

(* The rest of the invariant, when the state outside op stays typed. *)
LEMMA TypeInvFrom ==
    ASSUME hashmap' \in [Hashes -> Slots \cup {0}], entries' \in [Slots -> Entry],
           free' \subseteq Slots, fresh' \subseteq Slots, locked' \in BOOLEAN,
           ttl' \in TtlType,
           evictor' \in [pc : {"wait", "woken", "evict", "loop"},
                         timestamp : Nat, keys : SUBSET Key],
           now' \in Nat, Start <= now',
           op' \in [Procs -> OpType],
           \A q \in Procs :
              /\ op'[q].pc = "put" => op'[q].entry.timestamp # 0
              /\ op'[q].pc \in {"read", "stamp"} => op'[q].slot # 0
              /\ op'[q].pc \in {"stamp", "remove"} => "del" \in Ops
    PROVE  TypeInv'
BY DEF TypeInv, TypeOK, TtlType, TreeType, OpType

LEMMA SetTyped ==
    ASSUME TypeInv, NEW p \in Procs,
           \/ \E k \in Key, d \in Durations : SetBegin(p, k, d)
           \/ SetLocked(p) \/ SetFull(p) \/ SetPut(p)
    PROVE  TypeInv'
<1> DEFINE e == op[p].entry
<1>1. /\ TypeOK /\ ttl \in TtlType
      /\ e \in Entry /\ e.key \in Key /\ e.timestamp \in Nat
  BY TtlTyped DEF TypeInv, TypeOK, Entry
<1>2. Idle \in OpType /\ Idle.pc = "idle"
  BY IdleTyped DEF Idle
<1>3. ASSUME NEW k \in Key, NEW d \in Durations, SetBegin(p, k, d) PROVE TypeInv'
  <2> DEFINE t == IF d = 0 THEN NO_EXPIRY ELSE now + Seconds(d)
             o == [pc |-> "set", entry |-> [key |-> k, timestamp |-> t], slot |-> 0]
  <2>1. Seconds(d) \in Int /\ Start + Seconds(d) > 0
    BY ShardAssumption DEF Seconds
  <2>2. t \in Nat
    BY <2>1, ShardAssumption DEF TypeInv, TypeOK, NO_EXPIRY
  <2>3. o \in OpType /\ o.pc = "set"
    BY <2>2 DEF OpType, Entry
  <2>4. /\ op' = [op EXCEPT ![p] = o]
        /\ UNCHANGED <<hashmap, entries, free, fresh, locked, ttl, evictor, now>>
    BY <1>3 DEF SetBegin, Goto, queue
  <2> HIDE DEF o
  <2> QED BY <1>1, <2>3, <2>4, OpStep, TypeInvFrom, Zenon DEF TypeInv, TypeOK
<1>4. ASSUME SetLocked(p) PROVE TypeInv'
  <2>1. PICK s \in Slots :
            /\ Push(s, Freed(e.key))
            /\ entries' = [entries EXCEPT ![s] = e]
            /\ hashmap' = [hashmap EXCEPT ![HashOf[e.key]] = s]
    BY <1>4, Zenon DEF SetLocked
  <2>2. ttl' \in TtlType /\ Freed(e.key) \subseteq Slots
    BY <1>1, <1>4, FoundTyped DEF SetLocked
  <2>3. free' \subseteq Slots /\ fresh' \subseteq Slots
    BY <1>1, <2>1, <2>2 DEF Push, TypeOK
  <2>4. hashmap' \in [Hashes -> Slots \cup {0}] /\ entries' \in [Slots -> Entry]
    BY <1>1, <2>1, Zenon DEF TypeOK
  <2> DEFINE o == IF e.timestamp # NO_EXPIRY
                  THEN [pc |-> "put", entry |-> e, slot |-> 0] ELSE Idle
  <2>5. op' = [op EXCEPT ![p] = o] /\ UNCHANGED <<locked, evictor, now>>
    BY <1>4 DEF SetLocked, Goto, Return
  <2>6. o \in OpType /\ o.pc \in {"put", "idle"} /\ (o.pc = "put" => o.entry.timestamp # 0)
    BY <1>1, <1>2 DEF OpType, NO_EXPIRY
  <2> HIDE DEF o, e
  <2> QED BY <1>1, <2>2, <2>3, <2>4, <2>5, <2>6, OpStep, TypeInvFrom, Zenon DEF TypeInv, TypeOK
<1>5. ASSUME SetFull(p) PROVE TypeInv'
  <2>1. ttl' \in TtlType /\ free' \subseteq Slots
    BY <1>1, <1>5, FoundTyped DEF SetFull
  <2>2. /\ op' = [op EXCEPT ![p] = Idle] /\ locked' = TRUE
        /\ UNCHANGED <<hashmap, entries, fresh, evictor, now>>
    BY <1>5 DEF SetFull, Return
  <2> QED BY <1>1, <1>2, <2>1, <2>2, OpStep, TypeInvFrom, Zenon DEF TypeInv, TypeOK
<1>6. ASSUME SetPut(p) PROVE TypeInv'
  <2>1. ttl' \in TtlType
    BY <1>1, <1>6, PutKeeps DEF SetPut, TypeInv
  <2>2. /\ op' = [op EXCEPT ![p] = Idle]
        /\ UNCHANGED <<hashmap, entries, free, fresh, locked, evictor, now>>
    BY <1>6 DEF SetPut, Return, queue
  <2> QED BY <1>1, <1>2, <2>1, <2>2, OpStep, TypeInvFrom, Zenon DEF TypeInv, TypeOK
<1> QED BY <1>3, <1>4, <1>5, <1>6

LEMMA GetDelTyped ==
    ASSUME TypeInv, NEW p \in Procs,
           \/ \E k \in Key : GetLocked(p, k) \/ DelLocked(p, k)
           \/ GetRead(p) \/ DelStamp(p) \/ DelRemove(p) \/ Reset(p)
    PROVE  TypeInv'
<1>1. TypeOK /\ ttl \in TtlType /\ op[p] \in OpType
  BY TtlTyped DEF TypeInv, TypeOK, OpType
<1>2. Idle \in OpType /\ Idle.pc = "idle"
  BY IdleTyped DEF Idle
<1>3. ASSUME NEW k \in Key, GetLocked(p, k) PROVE TypeInv'
  <2> DEFINE o == [pc |-> "read", entry |-> [Stored(k) EXCEPT !.key = k],
                   slot |-> hashmap[HashOf[k]]]
  <2>1. o \in OpType /\ o.pc = "read" /\ o.slot # 0
    BY <1>1, <1>3, FoundTyped, ShardAssumption DEF GetLocked, Hit, OpType, Entry
  <2>2. /\ op' = [op EXCEPT ![p] = o]
        /\ UNCHANGED <<hashmap, entries, free, fresh, locked, ttl, evictor, now>>
    BY <1>3 DEF GetLocked, Goto, queue
  <2> HIDE DEF o
  <2> QED BY <1>1, <2>1, <2>2, OpStep, TypeInvFrom, Zenon DEF TypeInv, TypeOK
<1>4. ASSUME NEW k \in Key, DelLocked(p, k) PROVE TypeInv'
  <2> DEFINE o == [pc |-> "stamp", entry |-> [Stored(k) EXCEPT !.key = k],
                   slot |-> hashmap[HashOf[k]]]
  <2>1. o \in OpType /\ o.pc = "stamp" /\ o.slot # 0 /\ "del" \in Ops
    BY <1>1, <1>4, FoundTyped, ShardAssumption DEF DelLocked, OpType, Entry
  <2>2. /\ op' = [op EXCEPT ![p] = o]
        /\ hashmap' = [hashmap EXCEPT ![HashOf[k]] = 0]
        /\ free' = Freed(k)
        /\ UNCHANGED <<entries, fresh, locked, ttl, evictor, now>>
    BY <1>4 DEF DelLocked, Goto
  <2>3. free' \subseteq Slots /\ hashmap' \in [Hashes -> Slots \cup {0}]
    BY <1>1, <2>2, FoundTyped DEF TypeOK
  <2> HIDE DEF o
  <2> QED BY <1>1, <2>1, <2>2, <2>3, OpStep, TypeInvFrom, Zenon DEF TypeInv, TypeOK
<1>5. ASSUME GetRead(p) PROVE TypeInv'
  <2>1. /\ op' = [op EXCEPT ![p] = Idle]
        /\ UNCHANGED <<hashmap, entries, free, fresh, locked, ttl, evictor, now>>
    BY <1>5 DEF GetRead, Return, queue
  <2> QED BY <1>1, <1>2, <2>1, OpStep, TypeInvFrom, Zenon DEF TypeInv, TypeOK
<1>6. ASSUME DelStamp(p) PROVE TypeInv'
  <2>1. PICK t \in {op[p].entry.timestamp, entries[op[p].slot].timestamp} :
            Goto(p, "remove", [op[p].entry EXCEPT !.timestamp = t], 0)
    BY <1>6 DEF DelStamp
  <2> DEFINE o == [pc |-> "remove", entry |-> [op[p].entry EXCEPT !.timestamp = t],
                   slot |-> 0]
  <2>2. op[p].entry \in Entry /\ op[p].slot \in Slots /\ "del" \in Ops
    BY <1>1, <1>6 DEF DelStamp, TypeInv, OpType
  <2>3. t \in Nat
    BY <1>1, <2>1, <2>2 DEF TypeOK, Entry
  <2>4. o \in OpType /\ o.pc = "remove"
    BY <2>2, <2>3 DEF OpType, Entry
  <2>5. /\ op' = [op EXCEPT ![p] = o]
        /\ UNCHANGED <<hashmap, entries, free, fresh, locked, ttl, evictor, now>>
    BY <1>6, <2>1, Zenon DEF DelStamp, Goto, queue
  <2> HIDE DEF o
  <2> QED BY <1>1, <2>2, <2>4, <2>5, OpStep, TypeInvFrom, Zenon DEF TypeInv, TypeOK
<1>7. ASSUME DelRemove(p) PROVE TypeInv'
  <2>1. op[p].entry.timestamp \in Nat /\ op[p].entry.key \in Key
    BY <1>1 DEF OpType, Entry
  <2>2. ttl' \in TtlType
    BY <1>1, <1>7, <2>1, RemoveKeeps DEF DelRemove
  <2>3. /\ op' = [op EXCEPT ![p] = Idle]
        /\ UNCHANGED <<hashmap, entries, free, fresh, locked, evictor, now>>
    BY <1>7 DEF DelRemove, Return, queue
  <2> QED BY <1>1, <1>2, <2>2, <2>3, OpStep, TypeInvFrom, Zenon DEF TypeInv, TypeOK
<1>8. ASSUME Reset(p) PROVE TypeInv'
  <2>1. ttl' \in TtlType /\ hashmap' \in [Hashes -> Slots \cup {0}] /\ fresh' = Slots
    BY <1>1, <1>8, ResetKeeps DEF Reset
  <2>2. UNCHANGED <<entries, free, locked, evictor, op, now>>
    BY <1>8 DEF Reset
  <2> QED BY <1>1, <2>1, <2>2, TypeInvFrom DEF TypeInv, TypeOK, OpType
<1> QED BY <1>3, <1>4, <1>5, <1>6, <1>7, <1>8

EvictorType == [pc : {"wait", "woken", "evict", "loop"},
                timestamp : Nat, keys : SUBSET Key]

LEMMA TakeHeadTyped ==
    ASSUME TypeOK, ttl.timeTree # {}, TakeHead
    PROVE  ttl' \in TtlType /\ evictor' \in EvictorType /\ evictor'.pc = "evict"
<1>1. ttl \in TtlType /\ ttl.timeTree \in TreeType
  BY TtlTyped DEF TtlType
<1>2. peek(ttl.timeTree) \in Nat
  BY <1>1, PeekLeast
<1>3. KeysAt(ttl.timeTree, peek(ttl.timeTree)) \subseteq Key
  BY <1>1 DEF KeysAt, TreeType
<1>4. ttl' \in TtlType
  BY <1>1, DropTimeKeeps DEF TakeHead
<1> QED BY <1>2, <1>3, <1>4 DEF TakeHead, EvictorType

LEMMA EvictionTyped ==
    ASSUME TypeInv, Eviction \/ TimerFires \/ Tick
    PROVE  TypeInv'
<1>1. /\ TypeOK /\ ttl \in TtlType /\ ttl.timeTree \in TreeType
      /\ evictor \in EvictorType
  BY TtlTyped DEF TypeInv, TypeOK, TtlType, EvictorType
<1>2. Waiting \in EvictorType
  BY DEF Waiting, EvictorType
<1>3. ASSUME Wake PROVE TypeInv'
  <2>1. ttl' \in TtlType /\ evictor' \in EvictorType
    BY <1>1, <1>3, Zenon DEF Wake, TtlType, EvictorType
  <2>2. UNCHANGED <<hashmap, entries, free, fresh, locked, op, now>>
    BY <1>3 DEF Wake, queue
  <2> QED BY <2>1, <2>2, TypeInvFrom DEF TypeInv, TypeOK, OpType, EvictorType
<1>4. ASSUME EvictFirst PROVE TypeInv'
  <2>1. ttl' \in TtlType /\ evictor' \in EvictorType
    BY <1>1, <1>2, <1>4, TakeHeadTyped DEF EvictFirst
  <2>2. UNCHANGED <<hashmap, entries, free, fresh, locked, op, now>>
    BY <1>4 DEF EvictFirst, queue
  <2> QED BY <2>1, <2>2, TypeInvFrom DEF TypeInv, TypeOK, OpType, EvictorType
<1>5. ASSUME EvictDel PROVE TypeInv'
  <2>1. evictor' \in EvictorType
    BY <1>5 DEF EvictDel, Waiting, EvictorType
  <2>2. hashmap' \in [Hashes -> Slots \cup {0}]
    BY <1>1, <1>5 DEF EvictDel, TypeOK
  <2>3. \A h \in Expired : hashmap[h] \in Slots
    BY <1>1 DEF Expired, TypeOK, Hashes, EvictorType
  <2>4. free' \subseteq Slots
    BY <1>1, <1>5, <2>3 DEF EvictDel, TypeOK
  <2>5. UNCHANGED <<entries, fresh, locked, ttl, op, now>>
    BY <1>5 DEF EvictDel
  <2> QED BY <1>1, <2>1, <2>2, <2>4, <2>5, TypeInvFrom
          DEF TypeInv, TypeOK, OpType, EvictorType
<1>6. ASSUME EvictNext PROVE TypeInv'
  <2>1. ttl.timeTree # {} => peek(ttl.timeTree) \in Nat
    BY <1>1, PeekLeast
  <2>2. ttl.timeTree # {} => resetTimer(ttl, peek(ttl.timeTree)) \in TtlType
    BY <1>1, <2>1, Zenon DEF resetTimer, stopTimer, TtlType
  <2>3. ttl' \in TtlType /\ evictor' \in EvictorType
    BY <1>1, <1>2, <1>6, <2>2, TakeHeadTyped DEF EvictNext
  <2>4. UNCHANGED <<hashmap, entries, free, fresh, locked, op, now>>
    BY <1>6 DEF EvictNext, queue
  <2> QED BY <2>3, <2>4, TypeInvFrom DEF TypeInv, TypeOK, OpType, EvictorType
<1>7. ASSUME TimerFires PROVE TypeInv'
  <2>1. ttl' \in TtlType
    BY <1>1, <1>7, Zenon DEF TimerFires, stopTimer, TtlType
  <2>2. UNCHANGED <<hashmap, entries, free, fresh, locked, evictor, op, now>>
    BY <1>7 DEF TimerFires, queue
  <2> QED BY <2>1, <2>2, TypeInvFrom DEF TypeInv, TypeOK, OpType
<1>8. ASSUME Tick PROVE TypeInv'
  <2>1. UNCHANGED <<hashmap, entries, free, fresh, locked, ttl, evictor, op>>
    BY <1>8 DEF Tick, queue
  <2>2. now' \in Nat /\ Start <= now'
    BY <1>1, <1>8, ShardAssumption DEF Tick, TypeInv, TypeOK
  <2> QED BY <1>1, <2>1, <2>2, TypeInvFrom DEF TypeInv, TypeOK, OpType
<1> QED BY <1>3, <1>4, <1>5, <1>6, <1>7, <1>8 DEF Eviction

LEMMA TypeInit == Init => TypeInv
<1> SUFFICES ASSUME Init PROVE TypeInv   OBVIOUS
<1>1. /\ hashmap \in [Hashes -> Slots \cup {0}] /\ entries \in [Slots -> Entry]
      /\ free \subseteq Slots /\ fresh \subseteq Slots /\ locked \in BOOLEAN
  BY IdleTyped, Zenon DEF Init
<1>2. ttl \in [timeTree : SUBSET ((Nat \ {0}) \X Key),
               armed : BOOLEAN, at : Nat, fired : BOOLEAN]
  <2>1. Start + TenHours \in Nat
    BY ShardAssumption DEF TenHours
  <2> HIDE DEF TenHours
  <2> QED BY <2>1 DEF Init, newTtlManager
<1>3. evictor \in EvictorType /\ now \in Nat /\ Start <= now
  BY ShardAssumption DEF Init, Waiting, EvictorType
<1>4. op \in [Procs -> OpType] /\ \A p \in Procs : op[p].pc = "idle"
  BY IdleTyped DEF Init, Idle
<1> QED BY <1>1, <1>2, <1>3, <1>4 DEF TypeInv, TypeOK, EvictorType, OpType

LEMMA TypeNext == TypeInv /\ [Next]_vars => TypeInv'
<1> SUFFICES ASSUME TypeInv, [Next]_vars PROVE TypeInv'   OBVIOUS
<1>1. CASE UNCHANGED vars
  BY <1>1 DEF vars, TypeInv, TypeOK
<1>2. ASSUME NEW p \in Procs, Caller(p) PROVE TypeInv'
  <2>1. ASSUME NEW k \in Key, GetMiss(p, k) \/ DelMiss(p, k) PROVE TypeInv'
    BY <2>1 DEF GetMiss, DelMiss, vars, TypeInv, TypeOK
  <2> QED BY <1>2, <2>1, SetTyped, GetDelTyped DEF Caller, Finish
<1> QED BY <1>1, <1>2, EvictionTyped DEF Next

(* Types, for every value of the constants. *)
THEOREM TypesHold == Spec => []TypeOK
<1>1. TypeInv => TypeOK
  BY DEF TypeInv
<1> QED BY <1>1, TypeInit, TypeNext, PTL DEF Spec

-----------------------------------------------------------------------------
(* TimerServesHead is inductive once types are known. *)
LEMMA TimerNext ==
    ASSUME TypeInv, TimerServesHead, [Next]_vars
    PROVE  TimerServesHead'
<1>1. TypeOK /\ ttl \in TtlType /\ ttl.timeTree \in TreeType
  BY TtlTyped DEF TypeInv, TtlType
<1>2. evictor.pc = "wait" => Serves(ttl)
  BY DEF TimerServesHead, Serves
<1>3. SUFFICES ASSUME evictor'.pc = "wait", ttl'.timeTree # {}
               PROVE  \/ ttl'.fired /\ peek(ttl'.timeTree) <= now'
                      \/ ~ttl'.fired /\ ttl'.armed /\ ttl'.at = peek(ttl'.timeTree)
  BY DEF TimerServesHead
<1>4. ASSUME evictor' = evictor, now' = now, Serves(ttl')
      PROVE  \/ ttl'.fired /\ peek(ttl'.timeTree) <= now'
             \/ ~ttl'.fired /\ ttl'.armed /\ ttl'.at = peek(ttl'.timeTree)
  BY <1>3, <1>4 DEF Serves
<1>5. CASE UNCHANGED <<ttl, evictor, now>>
  BY <1>2, <1>3, <1>4, <1>5
<1>6. ASSUME NEW p \in Procs, Caller(p), ~UNCHANGED ttl
      PROVE  UNCHANGED <<evictor, now>> /\ Serves(ttl')
  <2> DEFINE e == op[p].entry
  <2>1. e \in Entry /\ e.key \in Key /\ e.timestamp \in Nat
    BY <1>1 DEF TypeOK, Entry
  <2>2. \A k \in Key : Found(k) => Stored(k).timestamp \in Nat
    BY <1>1, FoundTyped DEF Entry
  <2>3. CASE SetLocked(p) \/ SetFull(p)
    <3>1. ttl' = DropPrevious(e.key) /\ UNCHANGED <<evictor, now>>
      BY <2>3 DEF SetLocked, SetFull
    <3>2. ttl' = remove(ttl, Stored(e.key).timestamp, e.key) /\ Found(e.key)
      BY <1>6, <3>1 DEF DropPrevious
    <3>3. Serves(ttl)
      BY <1>2, <1>3, <3>1
    <3>4. Stored(e.key).timestamp \in Nat
      BY <2>1, <2>2, <3>2
    <3> HIDE DEF e
    <3>5. Serves(remove(ttl, Stored(e.key).timestamp, e.key))
      BY <1>1, <2>1, <3>3, <3>4, RemoveKeeps
    <3> QED BY <3>1, <3>2, <3>5
  <2>4. CASE SetPut(p)
    <3>1. /\ ttl' = put(ttl, e.timestamp, e.key) /\ UNCHANGED <<evictor, now>>
          /\ e.timestamp # 0
      BY <2>4 DEF SetPut, TypeInv
    <3> QED BY <1>1, <1>2, <1>3, <2>1, <3>1, PutKeeps
  <2>5. CASE DelRemove(p)
    <3>1. ttl' = remove(ttl, e.timestamp, e.key) /\ UNCHANGED <<evictor, now>>
      BY <2>5 DEF DelRemove
    <3> QED BY <1>1, <1>2, <1>3, <2>1, <3>1, RemoveKeeps
  <2>6. CASE Reset(p)
    BY <1>1, <1>3, <2>6, ResetKeeps DEF Reset
  <2> QED BY <1>6, <2>3, <2>4, <2>5, <2>6, Zenon
          DEF Caller, Finish, SetBegin, GetMiss, DelMiss, vars,
              GetLocked, GetRead, DelLocked, DelStamp
<1>7. ASSUME NEW p \in Procs, Caller(p) PROVE UNCHANGED <<evictor, now>>
  BY <1>7, Zenon DEF Caller, Finish, SetBegin, SetLocked, SetFull, SetPut, GetMiss, DelMiss,
              vars, GetLocked, GetRead, DelLocked, DelStamp, DelRemove, Reset
<1>8. CASE Wake
  BY <1>3, <1>8 DEF Wake, TypeOK, TypeInv
<1>9. CASE EvictFirst
  <2>1. ~TakeHead
    BY <1>3 DEF TakeHead
  <2> QED BY <1>3, <1>9, <2>1 DEF EvictFirst
<1>10. CASE EvictDel
  BY <1>3, <1>10 DEF EvictDel, Waiting
<1>11. CASE EvictNext
  <2>1. ttl' = resetTimer(ttl, peek(ttl.timeTree)) /\ ttl.timeTree # {}
    <3>1. ~TakeHead
      BY <1>3 DEF TakeHead
    <3> QED BY <1>3, <1>11, <3>1 DEF EvictNext
  <2> QED BY <1>1, <2>1 DEF resetTimer, stopTimer, TtlType
<1>12. CASE TimerFires
  <2>1. /\ ttl.armed /\ ttl.at <= now /\ UNCHANGED <<evictor, now>>
        /\ ttl'.fired = TRUE /\ ttl'.timeTree = ttl.timeTree
    BY <1>1, <1>12 DEF TimerFires, stopTimer, TtlType
  <2>2. peek(ttl.timeTree) <= now
    BY <1>2, <1>3, <2>1 DEF Serves
  <2> QED BY <2>1, <2>2
<1>13. CASE Tick
  <2>1. UNCHANGED <<ttl, evictor>> /\ now' = now + 1 /\ now \in Nat
    BY <1>1, <1>13 DEF Tick, TypeOK
  <2>2. peek(ttl.timeTree) \in Nat
    BY <1>1, <1>3, <2>1, PeekLeast
  <2> QED BY <1>2, <1>3, <2>1, <2>2 DEF Serves
<1> QED BY <1>4, <1>5, <1>6, <1>7, <1>8, <1>9, <1>10, <1>11, <1>12, <1>13
        DEF Next, Eviction, vars

(* The single timer serves the whole tree, whatever the callers do.  This  *)
(* is why one timer per shard is enough (ttl.go:50-58, 72-76, 125).        *)
THEOREM TimerServes == Spec => []TimerServesHead
<1>1. Init => TimerServesHead
  BY DEF Init, newTtlManager, TimerServesHead
<1>2. TypeInv /\ TimerServesHead /\ [Next]_vars => TimerServesHead'
  BY TimerNext
<1> QED BY <1>1, <1>2, TypeInit, TypeNext, PTL DEF Spec

-----------------------------------------------------------------------------
(* The hash map, the queue and the TTL table agree. *)

(* IndexConsistent, without reset: a queue that was reset may hand out a   *)
(* slot twice.                                                             *)
LEMMA IndexNext ==
    ASSUME "reset" \notin Ops, TypeInv, IndexConsistent, [Next]_vars
    PROVE  IndexConsistent'
<1>1. TypeOK /\ 0 \notin Slots
  BY ShardAssumption DEF TypeInv
<1>2. SUFFICES ASSUME ~locked'
               PROVE  SlotsAgree'
  BY DEF IndexConsistent
<1>3. ~locked
  BY <1>2, Zenon DEF Next, Caller, Finish, Eviction, SetBegin, SetLocked, SetFull, SetPut,
              GetMiss, DelMiss, vars, GetLocked, GetRead, DelLocked, DelStamp,
              DelRemove, Reset, Wake, EvictFirst, EvictDel, EvictNext, TimerFires, Tick
<1>4. /\ \A h \in Hashes : hashmap[h] # 0 =>
            /\ HashOf[entries[hashmap[h]].key] = h
            /\ hashmap[h] \notin free \cup fresh
      /\ \A s \in Slots : s \in free \cup fresh \/ \E h \in Hashes : hashmap[h] = s
      /\ free \cap fresh = {}
  BY <1>3 DEF IndexConsistent, SlotsAgree
<1>5. CASE UNCHANGED <<hashmap, entries, free, fresh>>
  BY <1>4, <1>5 DEF SlotsAgree
<1>6. ASSUME NEW p \in Procs, SetLocked(p)
      PROVE  SlotsAgree'
  <2> DEFINE e  == op[p].entry
             h0 == HashOf[e.key]
  <2>1. e \in Entry /\ e.key \in Key
    BY <1>1 DEF TypeOK, Entry
  <2>2. h0 \in Hashes
    BY <2>1 DEF Hashes
  <2>3. PICK s \in Slots :
            /\ Push(s, Freed(e.key))
            /\ entries' = [entries EXCEPT ![s] = e]
            /\ hashmap' = [hashmap EXCEPT ![h0] = s]
    BY <1>6, Zenon DEF SetLocked
  <2>4. Freed(e.key) = IF hashmap[h0] # 0 THEN free \cup {hashmap[h0]} ELSE free
    BY DEF Freed, Found
  <2>5. /\ hashmap \in [Hashes -> Slots \cup {0}] /\ entries \in [Slots -> Entry]
        /\ hashmap'[h0] = s /\ entries'[s] = e
        /\ \A h \in Hashes : h # h0 => hashmap'[h] = hashmap[h]
        /\ \A t \in Slots : t # s => entries'[t] = entries[t]
    BY <1>1, <2>2, <2>3 DEF TypeOK
  <2> HIDE DEF h0, e
  <2>6. s \in free \cup fresh \/ (hashmap[h0] # 0 /\ s = hashmap[h0])
    BY <2>3, <2>4 DEF Push
  <2>7. \A h \in Hashes : h # h0 /\ hashmap[h] # 0 => hashmap[h] # s /\ hashmap[h] # hashmap[h0]
    BY <1>4, <2>2, <2>6
  <2>8. HashOf[e.key] = h0
    BY DEF h0
  <2>9. free' \cup fresh' = (Freed(e.key) \cup fresh) \ {s} /\ free' \cap fresh' = {}
    BY <1>4, <2>2, <2>3, <2>4, <2>5, <2>6 DEF Push
  <2>10. \A h \in Hashes : hashmap'[h] # 0 =>
            /\ HashOf[entries'[hashmap'[h]].key] = h
            /\ hashmap'[h] \notin free' \cup fresh'
    BY <1>4, <2>2, <2>4, <2>5, <2>7, <2>8, <2>9
  <2>11. \A t \in Slots : t \in free' \cup fresh' \/ \E h \in Hashes : hashmap'[h] = t
    BY <1>1, <1>4, <2>2, <2>4, <2>5, <2>9
  <2> QED BY <2>9, <2>10, <2>11 DEF SlotsAgree
<1>7. ASSUME NEW p \in Procs, NEW k \in Key, DelLocked(p, k)
      PROVE  SlotsAgree'
  <2> DEFINE h0 == HashOf[k]
  <2>1. h0 \in Hashes
    BY DEF Hashes
  <2>2. /\ hashmap' = [hashmap EXCEPT ![h0] = 0] /\ hashmap[h0] # 0
        /\ free' = free \cup {hashmap[h0]} /\ UNCHANGED <<entries, fresh>>
    BY <1>7 DEF DelLocked, Freed, Found
  <2>3. /\ hashmap'[h0] = 0 /\ \A h \in Hashes : h # h0 => hashmap'[h] = hashmap[h]
    BY <1>1, <2>1, <2>2 DEF TypeOK
  <2> HIDE DEF h0
  <2> QED BY <1>1, <1>4, <2>1, <2>2, <2>3 DEF SlotsAgree
<1>8. ASSUME EvictDel
      PROVE  SlotsAgree'
  <2>1. Expired \subseteq Hashes /\ \A h \in Expired : hashmap[h] # 0
    BY <1>1 DEF Expired, Hashes, TypeOK
  <2>2. /\ free' = free \cup {hashmap[h] : h \in Expired} /\ UNCHANGED <<entries, fresh>>
        /\ \A h \in Hashes : hashmap'[h] = IF h \in Expired THEN 0 ELSE hashmap[h]
    BY <1>8 DEF EvictDel
  <2> QED BY <1>1, <1>4, <2>1, <2>2 DEF SlotsAgree
<1>9. CASE \E p \in Procs : Reset(p)
  BY <1>9 DEF Reset
<1>10. CASE \E p \in Procs : SetFull(p)
  BY <1>2, <1>10 DEF SetFull
<1> QED BY <1>5, <1>6, <1>7, <1>8, <1>9, <1>10, Zenon
        DEF Next, Caller, Finish, Eviction, SetBegin, SetPut, GetMiss, DelMiss, vars,
            queue, GetLocked, GetRead, DelStamp, DelRemove, Wake, EvictFirst,
            EvictNext, TimerFires, Tick

(* Without reset the hash map and the queue never disagree. *)
THEOREM IndexHolds ==
    ASSUME "reset" \notin Ops
    PROVE  Spec => []IndexConsistent
<1>1. Init => IndexConsistent
  BY DEF Init, IndexConsistent, SlotsAgree
<1>2. TypeInv /\ IndexConsistent /\ [Next]_vars => IndexConsistent'
  BY IndexNext
<1> QED BY <1>1, <1>2, TypeInit, TypeNext, PTL DEF Spec

-----------------------------------------------------------------------------
(* One goroutine calls the cache, beside the one that evicts. *)
OneCaller == \A p, q \in Procs : p = q

(* What a del is about to remove from the TTL table has no entry. *)
DelGone ==
    \A p \in Procs : op[p].pc \in {"stamp", "remove"} => ~Found(op[p].entry.key)

LEMMA DelGoneNext ==
    ASSUME OneCaller, TypeInv, DelGone, [Next]_vars
    PROVE  DelGone'
<1>1. /\ op \in [Procs -> OpType] /\ hashmap \in [Hashes -> Slots \cup {0}]
      /\ \A k \in Key : HashOf[k] \in Hashes
      /\ \A p \in Procs : op[p].entry.key \in Key
  BY DEF TypeInv, TypeOK, OpType, Entry, Hashes
<1> SUFFICES ASSUME NEW p \in Procs, op'[p].pc \in {"stamp", "remove"}
             PROVE  hashmap'[HashOf[op'[p].entry.key]] = 0
  BY DEF DelGone, Found
<1>2. CASE /\ op[p].pc \in {"stamp", "remove"} /\ op'[p].entry.key = op[p].entry.key
           /\ \A h \in Hashes : hashmap'[h] = 0 \/ hashmap'[h] = hashmap[h]
  BY <1>1, <1>2 DEF DelGone, Found
<1>3. CASE \E k \in Key : DelLocked(p, k)
  <2>1. PICK k \in Key : DelLocked(p, k)
    BY <1>3
  <2>2. /\ hashmap' = [hashmap EXCEPT ![HashOf[k]] = 0]
        /\ op' = [op EXCEPT ![p] = [pc |-> "stamp", entry |-> [Stored(k) EXCEPT !.key = k],
                                    slot |-> hashmap[HashOf[k]]]]
        /\ Found(k)
    BY <2>1 DEF DelLocked, Goto
  <2>3. Stored(k) \in Entry
    BY <2>2, FoundTyped DEF TypeInv
  <2>4. op'[p].entry = [Stored(k) EXCEPT !.key = k]
    BY <1>1, <2>2
  <2>5. op'[p].entry.key = k
    BY <2>3, <2>4 DEF Entry
  <2> QED BY <1>1, <2>2, <2>5
<1>4. CASE DelStamp(p)
  <2>1. PICK t : op' = [op EXCEPT ![p] = [pc |-> "remove", slot |-> 0,
                                          entry |-> [op[p].entry EXCEPT !.timestamp = t]]]
    BY <1>4, Zenon DEF DelStamp, Goto
  <2>2. op[p].entry \in Entry
    BY <1>1 DEF OpType
  <2>3. op'[p].entry = [op[p].entry EXCEPT !.timestamp = t]
    BY <1>1, <2>1
  <2>4. op'[p].entry.key = op[p].entry.key
    BY <2>2, <2>3 DEF Entry
  <2>5. op[p].pc = "stamp" /\ UNCHANGED hashmap
    BY <1>4 DEF DelStamp
  <2> QED BY <1>2, <2>4, <2>5
<1>5. CASE /\ \/ \E k \in Key, d \in Durations : SetBegin(p, k, d)
              \/ \E k \in Key : GetLocked(p, k)
              \/ SetLocked(p) \/ SetFull(p) \/ SetPut(p) \/ GetRead(p) \/ DelRemove(p)
  <2>1. Return(p) \/ \E e, s : Goto(p, "set", e, s) \/ Goto(p, "put", e, s) \/ Goto(p, "read", e, s)
    BY <1>5, Zenon DEF SetBegin, GetLocked, SetLocked, SetFull, SetPut, GetRead, DelRemove
  <2>2. \A c, e, s : Goto(p, c, e, s) => op'[p].pc = c
    BY <1>1 DEF Goto
  <2>3. Return(p) => op'[p].pc = "idle"
    BY <1>1 DEF Return, Idle
  <2> QED BY <2>1, <2>2, <2>3
<1>6. CASE UNCHANGED op /\ \A h \in Hashes : hashmap'[h] = 0 \/ hashmap'[h] = hashmap[h]
  BY <1>2, <1>6
<1>7. ASSUME NEW q \in Procs, Caller(q) PROVE hashmap'[HashOf[op'[p].entry.key]] = 0
  <2>1. q = p
    BY DEF OneCaller
  <2>2. CASE Reset(p)
    BY <1>6, <2>2 DEF Reset
  <2> QED BY <1>3, <1>4, <1>5, <1>6, <1>7, <2>1, <2>2, Zenon
          DEF Caller, Finish, GetMiss, DelMiss, vars
<1> QED BY <1>6, <1>7
        DEF Next, Eviction, Wake, EvictFirst, EvictDel, EvictNext, TimerFires, Tick, vars

(* ExpiryCovered needs DelGone: a del that removes the record of a newer   *)
(* set leaves its entry uncovered.                                         *)
LEMMA CoveredNext ==
    ASSUME "reset" \notin Ops, TypeInv, IndexConsistent, ExpiryCovered, DelGone, [Next]_vars
    PROVE  ExpiryCovered'
<1>1. TypeOK /\ 0 \notin Slots /\ ttl \in TtlType /\ ttl.timeTree \in TreeType
  BY ShardAssumption, TtlTyped DEF TypeInv, TtlType
<1>2. SUFFICES ASSUME ~locked', NEW h \in Hashes, hashmap'[h] # 0,
                      NEW t, t = entries'[hashmap'[h]].timestamp, t # NO_EXPIRY
               PROVE  Covered(h, t)'
  <2>1. ASSUME ~locked', NEW h \in Hashes, hashmap'[h] # 0,
               entries'[hashmap'[h]].timestamp # NO_EXPIRY
        PROVE  Covered(h, entries[hashmap[h]].timestamp)'
    <3>1. \A t : t = entries'[hashmap'[h]].timestamp => Covered(h, t)'
      BY <1>2, <2>1
    <3> QED BY <3>1, Zenon DEF Covered
  <2> QED BY <2>1 DEF ExpiryCovered
<1>3. ~locked
  BY <1>2, Zenon DEF Next, Caller, Finish, Eviction, SetBegin, SetLocked, SetFull, SetPut,
              GetMiss, DelMiss, vars, GetLocked, GetRead, DelLocked, DelStamp,
              DelRemove, Reset, Wake, EvictFirst, EvictDel, EvictNext, TimerFires, Tick
<1>4. SlotsAgree
  BY <1>3 DEF IndexConsistent
<1>5. ASSUME hashmap[h] # 0, entries[hashmap[h]].timestamp = t
      PROVE  Covered(h, t)
  BY <1>2, <1>3, <1>5 DEF ExpiryCovered
<1>6. ASSUME NEW p \in Procs, DelRemove(p) PROVE Covered(h, t)'
  <2> DEFINE e == op[p].entry
  <2>1. /\ e \in Entry /\ e.key \in Key /\ e.timestamp \in Nat
        /\ HashOf[e.key] \in Hashes /\ ~Found(e.key)
    BY <1>1, <1>6 DEF DelRemove, TypeOK, Entry, Hashes, DelGone
  <2>2. /\ ttl' = remove(ttl, e.timestamp, e.key)
        /\ UNCHANGED <<hashmap, entries, evictor>>
        /\ op' = [op EXCEPT ![p] = Idle] /\ op[p].pc = "remove"
    BY <1>6 DEF DelRemove, Return
  <2>3. ttl'.timeTree = ttl.timeTree \ {<<e.timestamp, e.key>>}
    <3> HIDE DEF e
    <3> QED BY <1>1, <2>1, <2>2, RemoveKeeps
  <2>4. Covered(h, t)
    BY <1>2, <1>5, <2>2
  <2>5. \A q \in Procs : op[q].pc = "put" => op'[q] = op[q]
    BY <1>1, <2>2 DEF TypeOK
  <2>6. \A k \in Key : HashOf[k] = h => k # e.key
    BY <1>2, <2>1, <2>2 DEF Found
  <2> HIDE DEF e
  <2>7. \A k \in Key : HashOf[k] = h /\ <<t, k>> \in ttl.timeTree => <<t, k>> \in ttl'.timeTree
    BY <2>3, <2>6
  <2> QED BY <2>2, <2>4, <2>5, <2>7 DEF Covered
<1>7. CASE UNCHANGED <<hashmap, entries, ttl, evictor, op>>
  BY <1>2, <1>5, <1>7, Zenon DEF Covered
<1>8. ASSUME NEW p \in Procs, SetLocked(p) PROVE Covered(h, t)'
  <2> DEFINE e  == op[p].entry
             h0 == HashOf[e.key]
  <2>1. e \in Entry /\ e.key \in Key /\ e.timestamp \in Nat /\ h0 \in Hashes
    BY <1>1 DEF TypeOK, Entry, Hashes
  <2>2. PICK s \in Slots :
            /\ Push(s, Freed(e.key))
            /\ entries' = [entries EXCEPT ![s] = e]
            /\ hashmap' = [hashmap EXCEPT ![h0] = s]
    BY <1>8, Zenon DEF SetLocked
  <2>3. /\ hashmap'[h0] = s /\ entries'[s] = e
        /\ \A g \in Hashes : g # h0 => hashmap'[g] = hashmap[g]
        /\ \A x \in Slots : x # s => entries'[x] = entries[x]
        /\ hashmap \in [Hashes -> Slots \cup {0}]
    BY <1>1, <2>1, <2>2 DEF TypeOK
  <2>4. evictor' = evictor
    BY <1>8 DEF SetLocked
  <2>5. \A q \in Procs : op[q].pc = "put" => op'[q] = op[q]
    BY <1>8 DEF SetLocked, Goto, Return, TypeInv, TypeOK
  <2>6. CASE h = h0
    <3>1. t = e.timestamp /\ t # NO_EXPIRY
      BY <1>2, <2>3, <2>6, Zenon
    <3>2. op'[p].pc = "put" /\ op'[p].entry = e
      <4>1. op' = [op EXCEPT ![p] = [pc |-> "put", entry |-> e, slot |-> 0]]
        BY <1>8, <3>1 DEF SetLocked, Goto
      <4>2. DOMAIN op = Procs
        BY <1>1 DEF TypeOK
      <4>3. op'[p] = [pc |-> "put", entry |-> e, slot |-> 0]
        BY <4>1, <4>2
      <4> QED BY <4>3
    <3>3. e = [key |-> e.key, timestamp |-> t]
      BY <2>1, <3>1 DEF Entry
    <3> QED BY <2>1, <2>6, <3>2, <3>3 DEF Covered
  <2>7. CASE h # h0
    <3>1. s \in free \cup fresh \/ (hashmap[h0] # 0 /\ s = hashmap[h0])
      BY <2>2, Zenon DEF Push, Freed, Found
    <3>2. hashmap[h] # 0 /\ hashmap[h] # s /\ hashmap'[h] = hashmap[h]
      <4>1. /\ \A g \in Hashes : hashmap[g] # 0 => hashmap[g] \notin free \cup fresh
            /\ \A g, f \in Hashes : g # f /\ hashmap[g] # 0 => hashmap[g] # hashmap[f]
        BY <1>4 DEF SlotsAgree
      <4>2. hashmap'[h] = hashmap[h]
        BY <2>3, <2>7
      <4> HIDE DEF e, h0
      <4> QED BY <1>2, <2>1, <2>7, <3>1, <4>1, <4>2
    <3>3. Covered(h, t)
      BY <1>2, <1>5, <2>3, <3>2
    <3>4. \A k \in Key : HashOf[k] = h /\ <<t, k>> \in ttl.timeTree
                         => <<t, k>> \in ttl'.timeTree
      <4>1. Found(e.key) => Stored(e.key).timestamp \in Nat
        BY <1>1, <2>1, FoundTyped DEF Entry
      <4>2. ttl' = IF Found(e.key) THEN remove(ttl, Stored(e.key).timestamp, e.key)
                                   ELSE ttl
        BY <1>8 DEF SetLocked, DropPrevious
      <4>3. Found(e.key) => ttl'.timeTree
                            = ttl.timeTree \ {<<Stored(e.key).timestamp, e.key>>}
        <5> HIDE DEF e
        <5> QED BY <1>1, <2>1, <4>1, <4>2, RemoveKeeps
      <4> QED BY <2>7, <4>2, <4>3
    <3> QED BY <2>4, <2>5, <3>3, <3>4 DEF Covered
  <2> QED BY <2>6, <2>7
<1>9. ASSUME NEW p \in Procs, SetPut(p) PROVE Covered(h, t)'
  <2> DEFINE e == op[p].entry
  <2>1. e \in Entry /\ e.key \in Key /\ e.timestamp \in Nat \ {0}
    BY <1>1, <1>9 DEF SetPut, TypeOK, Entry, TypeInv
  <2>2. /\ ttl' = put(ttl, e.timestamp, e.key)
        /\ UNCHANGED <<hashmap, entries, evictor>>
        /\ op' = [op EXCEPT ![p] = Idle]
    BY <1>9 DEF SetPut, Return
  <2>3. ttl'.timeTree = ttl.timeTree \cup {<<e.timestamp, e.key>>}
    <3> HIDE DEF e
    <3> QED BY <1>1, <2>1, <2>2, PutKeeps
  <2>4. Covered(h, t)
    BY <1>2, <1>5, <2>2
  <2>5. \A q \in Procs : q # p => op'[q] = op[q]
    BY <1>1, <2>2 DEF TypeOK
  <2>6. e = [key |-> e.key, timestamp |-> t] => <<t, e.key>> \in ttl'.timeTree
    BY <2>3
  <2>7. PICK k \in Key :
            /\ HashOf[k] = h
            /\ \/ <<t, k>> \in ttl.timeTree
               \/ evictor.pc = "evict" /\ evictor.timestamp = t /\ k \in evictor.keys
               \/ \E q \in Procs :
                     op[q].pc = "put" /\ op[q].entry = [key |-> k, timestamp |-> t]
    BY <2>4 DEF Covered
  <2>8. CASE <<t, k>> \in ttl.timeTree
    BY <2>3, <2>7, <2>8 DEF Covered
  <2>9. CASE evictor.pc = "evict" /\ evictor.timestamp = t /\ k \in evictor.keys
    BY <2>2, <2>7, <2>9 DEF Covered
  <2>10. ASSUME NEW q \in Procs,
                op[q].pc = "put" /\ op[q].entry = [key |-> k, timestamp |-> t]
         PROVE  Covered(h, t)'
    <3>1. CASE q = p
      BY <2>6, <2>7, <2>10, <3>1 DEF Covered
    <3>2. CASE q # p
      BY <2>5, <2>7, <2>10, <3>2 DEF Covered
    <3> QED BY <3>1, <3>2
  <2> QED BY <2>7, <2>8, <2>9, <2>10
<1>10. ASSUME NEW p \in Procs,
              UNCHANGED <<entries, ttl, evictor>>, hashmap'[h] = hashmap[h],
              \A q \in Procs : op[q].pc = "put" => op'[q] = op[q]
       PROVE  Covered(h, t)'
  <2>1. Covered(h, t)
    BY <1>2, <1>5, <1>10
  <2> QED BY <1>10, <2>1 DEF Covered
<1>11. ASSUME TakeHead, evictor.pc # "evict", UNCHANGED <<hashmap, entries, op>>
       PROVE  Covered(h, t)'
  <2> DEFINE head == peek(ttl.timeTree)
  <2>1. ttl'.timeTree = {r \in ttl.timeTree : r[1] # head}
    BY <1>1, <1>11, DropTimeKeeps DEF TakeHead
  <2>2. /\ evictor'.pc = "evict" /\ evictor'.timestamp = head
        /\ evictor'.keys = KeysAt(ttl.timeTree, head)
    BY <1>11 DEF TakeHead
  <2>3. Covered(h, t)
    BY <1>2, <1>5, <1>11
  <2>4. PICK k \in Key : /\ HashOf[k] = h
                         /\ \/ <<t, k>> \in ttl.timeTree
                            \/ \E q \in Procs :
                                  op[q].pc = "put" /\ op[q].entry = [key |-> k, timestamp |-> t]
    BY <1>11, <2>3 DEF Covered
  <2> HIDE DEF head
  <2>5. <<t, k>> \in ttl.timeTree /\ t = head => k \in KeysAt(ttl.timeTree, head)
    <3>1. <<t, k>>[1] = t /\ <<t, k>>[2] = k
      OBVIOUS
    <3> QED BY <3>1 DEF KeysAt
  <2>6. <<t, k>> \in ttl.timeTree /\ t # head => <<t, k>> \in ttl'.timeTree
    BY <2>1
  <2> QED BY <1>11, <2>2, <2>4, <2>5, <2>6, Zenon DEF Covered
<1>12. ASSUME EvictDel PROVE Covered(h, t)'
  <2>1. /\ UNCHANGED <<entries, ttl, op>> /\ hashmap'[h] = hashmap[h] /\ h \notin Expired
    BY <1>2, <1>12 DEF EvictDel
  <2>2. Covered(h, t) /\ hashmap[h] # 0 /\ t = entries[hashmap[h]].timestamp
    BY <1>2, <1>5, <2>1
  <2>3. \A k \in Key : ~(HashOf[k] = h /\ evictor.timestamp = t /\ k \in evictor.keys)
    BY <2>1, <2>2 DEF Expired
  <2> QED BY <2>1, <2>2, <2>3 DEF Covered
<1>13. ASSUME UNCHANGED <<hashmap, entries, op>>, ttl'.timeTree = ttl.timeTree,
              evictor.pc # "evict" \/ evictor' = evictor
       PROVE  Covered(h, t)'
  BY <1>2, <1>5, <1>13 DEF Covered
<1>14. ASSUME NEW p \in Procs, Caller(p) PROVE Covered(h, t)'
  <2>1. CASE (\E k \in Key, d \in Durations : SetBegin(p, k, d))
             \/ GetRead(p) \/ (\E k \in Key : GetLocked(p, k))
    <3>1. \A q \in Procs : op[q].pc = "put" => op'[q] = op[q]
      BY <1>1, <2>1 DEF SetBegin, GetRead, GetLocked, Goto, Return, TypeOK
    <3> QED BY <1>10, <2>1, <3>1, Zenon DEF SetBegin, GetRead, GetLocked
  <2>2. CASE DelStamp(p) \/ \E k \in Key : DelLocked(p, k)
    <3>1. \A q \in Procs : op[q].pc = "put" => op'[q] = op[q]
      BY <1>1, <2>2 DEF DelStamp, DelLocked, Goto, TypeOK
    <3>2. UNCHANGED <<entries, ttl, evictor>>
      BY <2>2, Zenon DEF DelStamp, DelLocked
    <3>3. hashmap'[h] = hashmap[h]
      <4>1. UNCHANGED hashmap \/ \E k \in Key : hashmap' = [hashmap EXCEPT ![HashOf[k]] = 0]
        BY <2>2, Zenon DEF DelStamp, DelLocked
      <4> QED BY <1>1, <1>2, <4>1 DEF TypeOK
    <3> QED BY <1>10, <3>1, <3>2, <3>3
  <2> QED BY <1>2, <1>6, <1>7, <1>8, <1>9, <1>14, <2>1, <2>2
          DEF Caller, Finish, SetFull, GetMiss, DelMiss, vars, Reset
<1>15. ASSUME Eviction \/ TimerFires \/ Tick PROVE Covered(h, t)'
  <2>1. CASE Wake
    BY <1>1, <1>13, <2>1 DEF Wake, TtlType
  <2>2. CASE EvictFirst
    BY <1>11, <1>13, <2>2 DEF EvictFirst
  <2>3. CASE EvictNext
    <3>1. \A x : resetTimer(ttl, x).timeTree = ttl.timeTree
      BY <1>1 DEF resetTimer, stopTimer, TtlType
    <3> QED BY <1>11, <1>13, <2>3, <3>1 DEF EvictNext
  <2>4. CASE TimerFires
    BY <1>1, <1>13, <2>4 DEF TimerFires, stopTimer, TtlType
  <2>5. CASE Tick
    BY <1>7, <2>5 DEF Tick
  <2> QED BY <1>12, <1>15, <2>1, <2>2, <2>3, <2>4, <2>5 DEF Eviction
<1> QED BY <1>7, <1>14, <1>15 DEF Next, vars

(* While nobody resets, every entry with an expiry is seen to by somebody, *)
(* although set puts it into the TTL table only after it has released the  *)
(* shard: for any number of callers that do not delete, and for one that   *)
(* does, whose late remove of the TTL record meets no newer entry.         *)
THEOREM ExpiryCoveredHolds ==
    ASSUME "reset" \notin Ops, "del" \notin Ops \/ OneCaller
    PROVE  Spec => []ExpiryCovered
<1>1. Init => ExpiryCovered /\ DelGone
  BY DEF Init, ExpiryCovered, DelGone, Idle
<1>2. TypeInv /\ IndexConsistent /\ ExpiryCovered /\ DelGone /\ [Next]_vars => ExpiryCovered'
  BY CoveredNext
<1>3. Spec => []IndexConsistent
  BY IndexHolds
<1>4. TypeInv /\ TypeInv' /\ DelGone /\ [Next]_vars => DelGone'
  <2>1. CASE "del" \notin Ops
    BY <2>1 DEF TypeInv, DelGone
  <2>2. CASE OneCaller
    BY <2>2, DelGoneNext
  <2> QED BY <2>1, <2>2
<1> QED BY <1>1, <1>2, <1>3, <1>4, TypeInit, TypeNext, PTL DEF Spec

-----------------------------------------------------------------------------
(* get decodes after it unlocks. *)
LEMMA ReadsNext ==
    ASSUME OneCaller, TypeInv, ReadsOwnEntry, [Next]_vars
    PROVE  ReadsOwnEntry'
<1>1. op \in [Procs -> OpType] /\ entries \in [Slots -> Entry]
  BY DEF TypeInv, TypeOK, OpType
<1> SUFFICES ASSUME NEW p \in Procs, op'[p].pc = "read"
             PROVE  entries'[op'[p].slot].key = op'[p].entry.key
  BY DEF ReadsOwnEntry
<1>2. CASE op'[p] = op[p] /\ UNCHANGED entries
  BY <1>2 DEF ReadsOwnEntry
<1>3. CASE \E k \in Key : GetLocked(p, k)
  <2>1. PICK k \in Key : GetLocked(p, k)
    BY <1>3
  <2>2. /\ op' = [op EXCEPT ![p] = [pc |-> "read", entry |-> [Stored(k) EXCEPT !.key = k],
                                    slot |-> hashmap[HashOf[k]]]]
        /\ Found(k) /\ Stored(k).key = k /\ UNCHANGED entries
    BY <2>1 DEF GetLocked, Goto, Hit
  <2>3. Stored(k) \in Entry
    BY <2>2, FoundTyped DEF TypeInv
  <2>4. op'[p].entry = [Stored(k) EXCEPT !.key = k] /\ op'[p].slot = hashmap[HashOf[k]]
    BY <1>1, <2>2
  <2>5. op'[p].entry.key = k
    BY <2>3, <2>4 DEF Entry
  <2> QED BY <2>2, <2>4, <2>5 DEF Stored
<1>4. CASE \/ \E k \in Key, d \in Durations : SetBegin(p, k, d)
           \/ \E k \in Key : DelLocked(p, k)
           \/ SetLocked(p) \/ SetFull(p) \/ SetPut(p) \/ GetRead(p) \/ DelStamp(p) \/ DelRemove(p)
  <2>1. \/ Return(p)
        \/ \E e, s : \/ Goto(p, "set", e, s) \/ Goto(p, "put", e, s)
                     \/ Goto(p, "stamp", e, s) \/ Goto(p, "remove", e, s)
    BY <1>4, Zenon DEF SetBegin, DelLocked, SetLocked, SetFull, SetPut, GetRead, DelStamp, DelRemove
  <2>2. \A c, e, s : Goto(p, c, e, s) => op'[p].pc = c
    BY <1>1 DEF Goto
  <2>3. Return(p) => op'[p].pc = "idle"
    BY <1>1 DEF Return, Idle
  <2> QED BY <2>1, <2>2, <2>3
<1>5. ASSUME NEW q \in Procs, Caller(q) PROVE entries'[op'[p].slot].key = op'[p].entry.key
  <2>1. q = p
    BY DEF OneCaller
  <2> QED BY <1>2, <1>3, <1>4, <1>5, <2>1, Zenon DEF Caller, Finish, GetMiss, DelMiss, Reset, vars
<1> QED BY <1>2, <1>5
        DEF Next, Eviction, Wake, EvictFirst, EvictDel, EvictNext, TimerFires, Tick, vars

(* With one caller, a get decodes bytes that were stored for its key: the  *)
(* eviction goroutine and del give a block back without touching it.       *)
THEOREM ReadsOwnEntryHolds ==
    ASSUME OneCaller
    PROVE  Spec => []ReadsOwnEntry
<1>1. Init => ReadsOwnEntry
  BY DEF Init, ReadsOwnEntry, Idle
<1>2. TypeInv /\ ReadsOwnEntry /\ [Next]_vars => ReadsOwnEntry'
  BY ReadsNext
<1> QED BY <1>1, <1>2, TypeInit, TypeNext, PTL DEF Spec
=============================================================================

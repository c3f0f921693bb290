-------------------------- MODULE ArenaCacheProofs --------------------------
(***************************************************************************)
(* Machine-checked proofs about module ArenaCache, for any number of       *)
(* goroutines, keys and values, of any lengths.                            *)
(***************************************************************************)
EXTENDS ArenaCache, TLAPS

Byte == (Keys \cup Values \cup {Missing}) \X Nat

(***************************************************************************)
(* A slice that an entry of a map may hold as its value.                   *)
(***************************************************************************)
Inside(s, k) ==
  /\ s = Slice(s.gen, s.off, s.len)
  /\ s.gen \in Gen /\ s.off \in Nat /\ s.len \in Nat
  /\ Length[k] <= s.off
  /\ s.off + s.len <= MaxGenBytes

(***************************************************************************)
(* TypeOK with the types of the entries, and of the slices that a Get      *)
(* holds, wherever they point by now.                                      *)
(***************************************************************************)
EntryAt(g, k) ==
  LET e == entries[g][k]
  IN /\ e = [key |-> Slice(g, e.key.off, Length[k]),
             val |-> Slice(g, e.key.off + Length[k], e.val.len)]
     /\ e.key.off \in Nat /\ e.val.len \in Nat
     /\ e.key.off + Length[k] + e.val.len <= top[g]

HeapType ==
  /\ mem \in [Gen -> [Addr -> Byte]]
  /\ top \in [Gen -> 0..MaxGenBytes]
  /\ used = top
  /\ active \in Gen
  /\ DOMAIN entries = Gen
  /\ \A g \in Gen : DOMAIN entries[g] \subseteq Keys /\ \A k \in DOMAIN entries[g] : EntryAt(g, k)

ClientType ==
  /\ closed \in BOOLEAN
  /\ pc \in [Goroutines -> {"idle", "promote", "return", "fault"}]
  /\ DOMAIN loc = Goroutines
  /\ \A g \in Goroutines :
       /\ loc[g].key \in Keys <=> pc[g] \in {"promote", "return"}
       /\ pc[g] \in {"promote", "return"} => Inside(loc[g].val, loc[g].key)
  /\ stored \in [Keys -> Values \cup {Missing}]
  /\ spoilt \in BOOLEAN

TypeInv == HeapType /\ ClientType

CacheInv == TypeInv /\ KeysIntact

(***************************************************************************)
(* What lookups find, and what a Get that is under way holds, is what was  *)
(* stored last, as long as nothing was spoilt.                             *)
(***************************************************************************)
Holds(s, v) == v # Missing /\ Bytes(mem, s) = Content(v)

Newest(k) == IF k \in DOMAIN entries[active] THEN active ELSE Old

Promoting(g) ==
  LET k == loc[g].key
  IN /\ k \in DOMAIN entries[Old] \ DOMAIN entries[active]
     /\ loc[g].val = entries[Old][k].val

AnswersInv ==
  ~spoilt /\ ~closed =>
    /\ \A k \in Visible : Holds(entries[Newest(k)][k].val, stored[k])
    /\ \A g \in Goroutines :
         /\ pc[g] \in {"promote", "return"} => Holds(loc[g].val, stored[loc[g].key])
         /\ pc[g] = "promote" => Promoting(g)

----------------------------------------------------------------------------
(* The step of Set and of a promotion *)

(***************************************************************************)
(* Where Set of n bytes writes.                                            *)
(***************************************************************************)
KeySlice(k, n)      == Slice(Target(n), ResetOffset(Target(n), n), Length[k])
ValSlice(k, len, n) == Slice(Target(n), ResetOffset(Target(n), n) + Length[k], len)

WithKey(k, n) == Copy(mem, KeySlice(k, n), Content(k))

(***************************************************************************)
(* Store with the bytes b in the place of the operator.                    *)
(***************************************************************************)
Stores(k, len, b) ==
  LET n == Length[k] + len
      g == Target(n)
      e == ResetEntries(g, n)
  IN /\ mem' = Copy(WithKey(k, n), ValSlice(k, len, n), b)
     /\ top' = [top EXCEPT ![g] = ResetOffset(g, n) + n]
     /\ used' = [used EXCEPT ![g] = ResetUsed(g, n) + n]
     /\ entries' = [entries EXCEPT ![g] =
                      [j \in DOMAIN e \cup {k} |->
                         IF j = k THEN [key |-> KeySlice(k, n), val |-> ValSlice(k, len, n)]
                         ELSE e[j]]]
     /\ active' = IF Full(n) THEN Old ELSE active
     /\ closed' = closed

(***************************************************************************)
(* A store of n bytes at offset o of generation g.                         *)
(***************************************************************************)
Storing(k, len, b, n, g, o) ==
  /\ k \in Keys /\ len \in Nat /\ b \in [1..len -> Byte]
  /\ n = Length[k] + len /\ n <= MaxGenBytes
  /\ g = Target(n) /\ o = ResetOffset(g, n)
  /\ Stores(k, len, b)

(***************************************************************************)
(* Set stores the bytes of the value.                                      *)
(***************************************************************************)
LEMMA SetStores ==
  ASSUME NEW g, NEW k, NEW v, Set(g, k, v)
  PROVE  Stores(k, Length[v], Content(v))
BY Zenon DEF Set, Store, Stores, KeySlice, ValSlice, WithKey

(***************************************************************************)
(* A promotion stores the bytes that its slice has once the key has been   *)
(* copied.                                                                 *)
(***************************************************************************)
LEMMA PromoteStores ==
  ASSUME NEW g, Promote(g), ~closed
  PROVE  Stores(loc[g].key, loc[g].val.len,
                Bytes(WithKey(loc[g].key, Length[loc[g].key] + loc[g].val.len), loc[g].val))
BY DEF Promote, Store, Stores, KeySlice, ValSlice, WithKey

(***************************************************************************)
(* What a copy leaves in the memory.                                       *)
(***************************************************************************)
Copied(after, m, s, b) ==
  /\ after \in [Gen -> [Addr -> Byte]]
  /\ \A h \in Gen, i \in Addr :
       after[h][i] =
         IF h = s.gen /\ i \in s.off + 1 .. s.off + s.len THEN b[i - s.off] ELSE m[h][i]

LEMMA CopyEffect ==
  ASSUME NEW m \in [Gen -> [Addr -> Byte]], NEW s, NEW b,
         s.gen \in Gen, s.off \in Nat, s.len \in Nat, b \in [1..s.len -> Byte]
  PROVE  Copied(Copy(m, s, b), m, s, b)
<1> DEFINE row == [i \in Addr |-> IF i \in s.off + 1 .. s.off + s.len
                                    THEN b[i - s.off] ELSE m[s.gen][i]]
<1>1. Copy(m, s, b) = [m EXCEPT ![s.gen] = row]
  BY DEF Copy
<1>2. ASSUME NEW i \in Addr, i \in s.off + 1 .. s.off + s.len
      PROVE  b[i - s.off] \in Byte
  <2>1. i - s.off \in 1..s.len
    BY <1>2 DEF Addr
  <2> QED
    BY <2>1
<1>3. row \in [Addr -> Byte]
  BY <1>2
<1> HIDE DEF row
<1>4. \A i \in Addr : row[i] = IF i \in s.off + 1 .. s.off + s.len
                                 THEN b[i - s.off] ELSE m[s.gen][i]
  BY DEF row
<1> QED
  BY <1>1, <1>3, <1>4 DEF Copied

(***************************************************************************)
(* The bytes of a key or a value.                                          *)
(***************************************************************************)
LEMMA ContentType ==
  ASSUME NEW x \in Keys \cup Values
  PROVE  Length[x] \in Nat \ {0} /\ Content(x) \in [1..Length[x] -> Byte]
<1>1. Length[x] \in Nat \ {0}
  BY CacheAssumption
<1> QED
  BY <1>1 DEF Content, Byte

(***************************************************************************)
(* The bytes of a slice of the memory.                                     *)
(***************************************************************************)
LEMMA BytesType ==
  ASSUME NEW m \in [Gen -> [Addr -> Byte]], NEW s, s.gen \in Gen, s.off \in Nat, s.len \in Nat,
         s.off + s.len <= MaxGenBytes
  PROVE  Bytes(m, s) \in [1..s.len -> Byte]
<1>1. \A i \in 1..s.len : s.off + i \in Addr
  BY CacheAssumption DEF Addr
<1> QED
  BY <1>1 DEF Bytes

(***************************************************************************)
(* The place a store writes to: n free bytes of one of the generations.    *)
(***************************************************************************)
LEMMA TargetType ==
  ASSUME TypeInv, NEW n \in Nat, n <= MaxGenBytes
  PROVE  /\ Old \in Gen /\ Old # active /\ active \in Gen
         /\ Target(n) \in Gen
         /\ ResetOffset(Target(n), n) \in Nat
         /\ ResetOffset(Target(n), n) + n <= MaxGenBytes
         /\ ~Full(n) => Target(n) = active /\ ResetOffset(Target(n), n) = top[active]
         /\ Full(n) => Target(n) = Old /\ ResetOffset(Target(n), n) = 0
<1>1. active \in Gen /\ used = top /\ top[active] \in 0..MaxGenBytes /\ MaxGenBytes \in Nat
  BY CacheAssumption DEF TypeInv, HeapType
<1>2. Old \in Gen /\ Old # active
  BY <1>1 DEF Old, Gen
<1> QED
  BY <1>1, <1>2 DEF Target, ResetOffset, Full

(***************************************************************************)
(* What a store does to the memory: its two ranges, and nothing else.      *)
(***************************************************************************)
LEMMA StoresMemory ==
  ASSUME TypeInv, NEW k, NEW len, NEW b, NEW n, NEW g, NEW o, Storing(k, len, b, n, g, o)
  PROVE  /\ WithKey(k, n) \in [Gen -> [Addr -> Byte]]
         /\ \A h \in Gen, i \in Addr :
              WithKey(k, n)[h][i] =
                IF h = g /\ i \in o + 1 .. o + Length[k] THEN Content(k)[i - o] ELSE mem[h][i]
         /\ mem' \in [Gen -> [Addr -> Byte]]
         /\ \A h \in Gen, i \in Addr :
              mem'[h][i] = IF h = g /\ i \in o + Length[k] + 1 .. o + n
                             THEN b[i - (o + Length[k])] ELSE WithKey(k, n)[h][i]
<1>1. /\ Length[k] \in Nat \ {0} /\ Content(k) \in [1..Length[k] -> Byte]
      /\ len \in Nat /\ b \in [1..len -> Byte]
      /\ n = Length[k] + len /\ n \in Nat /\ n <= MaxGenBytes
  BY ContentType, CacheAssumption DEF Storing
<1>2. g \in Gen /\ o \in Nat /\ g = Target(n) /\ o = ResetOffset(g, n)
  BY <1>1, TargetType DEF Storing
<1>3. mem \in [Gen -> [Addr -> Byte]]
  BY DEF TypeInv, HeapType
<1> DEFINE s == KeySlice(k, n)
           t == ValSlice(k, len, n)
<1>4. s.gen = g /\ s.off = o /\ s.len = Length[k]
  BY <1>2 DEF KeySlice, Slice
<1>5. t.gen = g /\ t.off = o + Length[k] /\ t.len = len
  BY <1>2 DEF ValSlice, Slice
<1>6. WithKey(k, n) = Copy(mem, s, Content(k)) /\ mem' = Copy(WithKey(k, n), t, b)
  BY <1>1 DEF WithKey, Stores, Storing
<1> HIDE DEF s, t
<1>7. /\ WithKey(k, n) \in [Gen -> [Addr -> Byte]]
      /\ \A h \in Gen, i \in Addr :
           WithKey(k, n)[h][i] =
             IF h = g /\ i \in o + 1 .. o + Length[k] THEN Content(k)[i - o] ELSE mem[h][i]
  <2>1. s.gen \in Gen /\ s.off \in Nat /\ s.len \in Nat /\ Content(k) \in [1..s.len -> Byte]
    BY <1>1, <1>2, <1>4
  <2>2. Copied(WithKey(k, n), mem, s, Content(k))
    BY <1>3, <1>6, <2>1, CopyEffect
  <2> QED
    BY <1>4, <2>2 DEF Copied
<1>8. t.off + t.len = o + n
  BY <1>1, <1>2, <1>5
<1>9. Copied(mem', WithKey(k, n), t, b)
  <2>1. t.gen \in Gen /\ t.off \in Nat /\ t.len \in Nat /\ b \in [1..t.len -> Byte]
    BY <1>1, <1>2, <1>5
  <2> QED
    BY <1>6, <1>7, <2>1, CopyEffect
<1> QED
  BY <1>5, <1>7, <1>8, <1>9 DEF Copied

(***************************************************************************)
(* Two ranges of which one ends where the other begins, or before.         *)
(***************************************************************************)
LEMMA RangesApart ==
  ASSUME NEW p \in Nat, NEW l \in Nat, NEW q \in Nat, NEW w \in Nat, NEW i \in 1..l,
         p + l <= q \/ p >= q + w
  PROVE  p + i \notin q + 1 .. q + w
OBVIOUS

(***************************************************************************)
(* A range and its two parts.                                              *)
(***************************************************************************)
LEMMA PartsOfRange ==
  ASSUME NEW p \in Nat, NEW q \in Nat, NEW r \in Nat, q <= r
  PROVE  /\ p + 1 .. p + q \subseteq p + 1 .. p + r
         /\ p + q + 1 .. p + r \subseteq p + 1 .. p + r
OBVIOUS

(***************************************************************************)
(* What a store leaves alone, and what it leaves in its two ranges.        *)
(***************************************************************************)
BytesAfter(k, len, b, n, g, o) ==
  /\ \A s : /\ s.gen \in Gen /\ s.off \in Nat /\ s.len \in Nat
            /\ s.off + s.len <= MaxGenBytes
            /\ s.gen # g \/ s.off + s.len <= o \/ s.off >= o + n
            => Bytes(mem', s) = Bytes(mem, s)
  /\ \A s : /\ s.gen \in Gen /\ s.off \in Nat /\ s.len \in Nat
            /\ s.off + s.len <= MaxGenBytes
            /\ s.gen # g \/ s.off + s.len <= o \/ s.off >= o + Length[k]
            => Bytes(WithKey(k, n), s) = Bytes(mem, s)
  /\ Bytes(mem', KeySlice(k, n)) = Content(k)
  /\ Bytes(mem', ValSlice(k, len, n)) = b

(***************************************************************************)
(* This is so.                                                             *)
(***************************************************************************)
LEMMA StoresBytes ==
  ASSUME TypeInv, NEW k, NEW len, NEW b, NEW n, NEW g, NEW o, Storing(k, len, b, n, g, o)
  PROVE  BytesAfter(k, len, b, n, g, o)
<1>1. /\ Length[k] \in Nat \ {0} /\ Content(k) \in [1..Length[k] -> Byte]
      /\ len \in Nat /\ b \in [1..len -> Byte]
      /\ n = Length[k] + len /\ n \in Nat /\ n <= MaxGenBytes /\ MaxGenBytes \in Nat
  BY ContentType, CacheAssumption DEF Storing
<1>2. g \in Gen /\ o \in Nat /\ o + n <= MaxGenBytes /\ g = Target(n) /\ o = ResetOffset(g, n)
  BY <1>1, TargetType DEF Storing
<1>3. /\ \A h \in Gen, i \in Addr :
           WithKey(k, n)[h][i] =
             IF h = g /\ i \in o + 1 .. o + Length[k] THEN Content(k)[i - o] ELSE mem[h][i]
      /\ \A h \in Gen, i \in Addr :
           mem'[h][i] = IF h = g /\ i \in o + Length[k] + 1 .. o + n
                          THEN b[i - (o + Length[k])] ELSE WithKey(k, n)[h][i]
  BY StoresMemory
<1>4. ASSUME NEW s, s.gen \in Gen, s.off \in Nat, s.len \in Nat, s.off + s.len <= MaxGenBytes,
             NEW i \in 1..s.len
      PROVE  s.off + i \in Addr
  <2>1. \A p, q, m \in Nat : \A j \in 1..q : p + q <= m => p + j \in 1..m
    OBVIOUS
  <2> QED
    BY <1>1, <1>4, <2>1 DEF Addr
<1>5. ASSUME NEW s, s.gen \in Gen, s.off \in Nat, s.len \in Nat, s.off + s.len <= MaxGenBytes,
             s.gen # g \/ s.off + s.len <= o \/ s.off >= o + Length[k]
      PROVE  Bytes(WithKey(k, n), s) = Bytes(mem, s)
  <2>1. ASSUME NEW i \in 1..s.len
        PROVE  WithKey(k, n)[s.gen][s.off + i] = mem[s.gen][s.off + i]
    <3>1. s.off + i \in Addr
      BY <1>4, <1>5
    <3>2. ~(s.gen = g /\ s.off + i \in o + 1 .. o + Length[k])
      BY <1>1, <1>2, <1>5, RangesApart
    <3> QED
      BY <1>3, <1>5, <3>1, <3>2
  <2> QED
    BY <2>1 DEF Bytes
<1>6. /\ o + 1 .. o + Length[k] \subseteq o + 1 .. o + n
      /\ o + Length[k] + 1 .. o + n \subseteq o + 1 .. o + n
  <2>1. Length[k] <= n /\ Length[k] \in Nat /\ n \in Nat /\ o \in Nat
    BY <1>1, <1>2
  <2> QED
    BY ONLY <2>1, PartsOfRange
<1>7. ASSUME NEW s, s.gen \in Gen, s.off \in Nat, s.len \in Nat, s.off + s.len <= MaxGenBytes,
             s.gen # g \/ s.off + s.len <= o \/ s.off >= o + n
      PROVE  Bytes(mem', s) = Bytes(mem, s)
  <2>1. ASSUME NEW i \in 1..s.len
        PROVE  mem'[s.gen][s.off + i] = mem[s.gen][s.off + i]
    <3>1. s.off + i \in Addr
      BY <1>4, <1>7
    <3>2. s.gen # g \/ s.off + i \notin o + 1 .. o + n
      BY <1>1, <1>2, <1>7, RangesApart
    <3>3. /\ ~(s.gen = g /\ s.off + i \in o + 1 .. o + Length[k])
          /\ ~(s.gen = g /\ s.off + i \in o + Length[k] + 1 .. o + n)
      BY <1>6, <3>2
    <3> QED
      BY <1>3, <1>7, <3>1, <3>3
  <2> QED
    BY <2>1 DEF Bytes
<1>8. Bytes(mem', KeySlice(k, n)) = Content(k)
  <2>1. ASSUME NEW i \in 1..Length[k]
        PROVE  mem'[g][o + i] = Content(k)[i]
    <3> DEFINE l == Length[k]
    <3>1. l \in Nat /\ l <= n /\ n \in Nat /\ o \in Nat /\ o + n <= MaxGenBytes
      BY <1>1, <1>2
    <3>2. MaxGenBytes \in Nat
      BY CacheAssumption
    <3> HIDE DEF l
    <3>3. i \in 1..l
      BY DEF l
    <3>4. o + i \in Addr /\ (o + i) - o = i
      BY ONLY <3>1, <3>2, <3>3 DEF Addr
    <3>5. o + i \in o + 1 .. o + l /\ ~(o + i \in o + l + 1 .. o + n)
      BY ONLY <3>1, <3>3
    <3>6. /\ o + i \in o + 1 .. o + Length[k]
          /\ ~(o + i \in o + Length[k] + 1 .. o + n)
      BY <3>5 DEF l
    <3>7. mem'[g][o + i] = WithKey(k, n)[g][o + i]
      BY <1>2, <1>3, <3>4, <3>6
    <3>8. WithKey(k, n)[g][o + i] = Content(k)[(o + i) - o]
      BY <1>2, <1>3, <3>4, <3>6
    <3> QED
      BY <3>4, <3>7, <3>8
  <2>2. Bytes(mem', KeySlice(k, n)) = [i \in 1..Length[k] |-> mem'[g][o + i]]
    BY <1>2 DEF Bytes, KeySlice, Slice
  <2>3. [i \in 1..Length[k] |-> mem'[g][o + i]] = [i \in 1..Length[k] |-> Content(k)[i]]
    BY <2>1
  <2>4. Content(k) = [i \in 1..Length[k] |-> Content(k)[i]]
    BY <1>1
  <2> QED
    BY <2>2, <2>3, <2>4
<1>9. Bytes(mem', ValSlice(k, len, n)) = b
  <2>1. ASSUME NEW i \in 1..len
        PROVE  mem'[g][(o + Length[k]) + i] = b[i]
    <3> DEFINE l == Length[k]
    <3>1. /\ l \in Nat /\ len \in Nat /\ n = l + len
          /\ o \in Nat /\ o + n <= MaxGenBytes
      BY <1>1, <1>2
    <3>2. MaxGenBytes \in Nat
      BY CacheAssumption
    <3> HIDE DEF l
    <3>3. (o + l) + i \in Addr /\ ((o + l) + i) - (o + l) = i
      BY ONLY <3>1, <3>2 DEF Addr
    <3>4. (o + l) + i \in o + l + 1 .. o + n
      BY ONLY <3>1
    <3>5. (o + Length[k]) + i \in Addr /\ ((o + Length[k]) + i) - (o + Length[k]) = i
      BY <3>3 DEF l
    <3>6. (o + Length[k]) + i \in o + Length[k] + 1 .. o + n
      BY <3>4 DEF l
    <3>7. mem'[g][(o + Length[k]) + i] = b[((o + Length[k]) + i) - (o + Length[k])]
      BY <1>2, <1>3, <3>5, <3>6
    <3> QED
      BY <3>5, <3>7
  <2>2. Bytes(mem', ValSlice(k, len, n)) = [i \in 1..len |-> mem'[g][(o + Length[k]) + i]]
    BY <1>2 DEF Bytes, ValSlice, Slice
  <2>3. [i \in 1..len |-> mem'[g][(o + Length[k]) + i]] = [i \in 1..len |-> b[i]]
    BY <2>1
  <2>4. b = [i \in 1..len |-> b[i]]
    BY <1>1
  <2> QED
    BY <2>2, <2>3, <2>4
<1> QED
  BY <1>5, <1>7, <1>8, <1>9 DEF BytesAfter

(***************************************************************************)
(* What a store does to the maps: the entry of its key, and, when it       *)
(* rotates, a new map for the generation that becomes the active one.      *)
(***************************************************************************)
EntriesAfter(k, len, n, g, o) ==
  /\ top' \in [Gen -> 0..MaxGenBytes] /\ used' = top'
  /\ top'[g] = o + n /\ \A h \in Gen \ {g} : top'[h] = top[h]
  /\ DOMAIN entries' = Gen
  /\ \A h \in Gen : DOMAIN entries'[h] \subseteq Keys
  /\ k \in DOMAIN entries'[g]
  /\ entries'[g][k] = [key |-> KeySlice(k, n), val |-> ValSlice(k, len, n)]
  /\ \A h \in Gen \ {g} : entries'[h] = entries[h]
  /\ \A j \in DOMAIN entries'[g] \ {k} :
       ~Full(n) /\ j \in DOMAIN entries[g] /\ entries'[g][j] = entries[g][j]
  /\ ~Full(n) => DOMAIN entries'[g] = DOMAIN entries[g] \cup {k}
  /\ active' = g

(***************************************************************************)
(* This is so.                                                             *)
(***************************************************************************)
LEMMA StoresEntries ==
  ASSUME TypeInv, NEW k, NEW len, NEW b, NEW n, NEW g, NEW o, Storing(k, len, b, n, g, o)
  PROVE  EntriesAfter(k, len, n, g, o)
<1> USE DEF Storing
<1>1. /\ n \in Nat /\ n <= MaxGenBytes /\ MaxGenBytes \in Nat
  BY ContentType, CacheAssumption
<1>2. g \in Gen /\ o \in Nat /\ o + n <= MaxGenBytes
  BY <1>1, TargetType
<1>3. /\ top \in [Gen -> 0..MaxGenBytes] /\ used = top /\ DOMAIN entries = Gen
      /\ DOMAIN entries[g] \subseteq Keys
      /\ \A h \in Gen : DOMAIN entries[h] \subseteq Keys
  BY <1>2 DEF TypeInv, HeapType
<1> DEFINE e == ResetEntries(g, n)
           f == [j \in DOMAIN e \cup {k} |->
                   IF j = k THEN [key |-> KeySlice(k, n), val |-> ValSlice(k, len, n)] ELSE e[j]]
<1>4. /\ top' = [top EXCEPT ![g] = o + n]
      /\ used' = [used EXCEPT ![g] = ResetUsed(g, n) + n]
      /\ entries' = [entries EXCEPT ![g] = f]
      /\ active' = IF Full(n) THEN Old ELSE active
  BY DEF Stores
<1>5. ResetUsed(g, n) = o
  BY <1>3 DEF ResetUsed, ResetOffset
<1>6. e = IF Full(n) THEN <<>> ELSE entries[g]
  BY DEF ResetEntries
<1>7. DOMAIN e \subseteq Keys /\ (Full(n) => DOMAIN e = {})
  BY <1>3, <1>6
<1>8. active' = g
  BY <1>4 DEF Target
<1> HIDE DEF e
<1>9. /\ DOMAIN f = DOMAIN e \cup {k}
      /\ f[k] = [key |-> KeySlice(k, n), val |-> ValSlice(k, len, n)]
      /\ \A j \in DOMAIN e \ {k} : f[j] = e[j]
  OBVIOUS
<1> HIDE DEF f
<1>10. entries'[g] = f /\ \A h \in Gen \ {g} : entries'[h] = entries[h]
  BY <1>2, <1>3, <1>4
<1>11. ASSUME NEW j \in DOMAIN f \ {k}
       PROVE  ~Full(n) /\ j \in DOMAIN entries[g] /\ f[j] = entries[g][j]
  BY <1>6, <1>7, <1>9
<1>12. DOMAIN entries' = Gen
  BY <1>3, <1>4
<1>13. \A h \in Gen : DOMAIN entries'[h] \subseteq Keys
  BY <1>2, <1>3, <1>7, <1>9, <1>10
<1>14. ~Full(n) => DOMAIN entries'[g] = DOMAIN entries[g] \cup {k}
  BY <1>6, <1>9, <1>10
<1>15. /\ top' \in [Gen -> 0..MaxGenBytes]
       /\ top'[g] = o + n /\ \A h \in Gen \ {g} : top'[h] = top[h]
  <2>1. o + n \in 0..MaxGenBytes
    BY <1>1, <1>2
  <2> QED
    BY <1>2, <1>3, <1>4, <2>1
<1>16. used' = top'
  BY <1>3, <1>4, <1>5
<1> QED
  BY <1>8, <1>9, <1>10, <1>11, <1>12, <1>13, <1>14, <1>15, <1>16 DEF EntriesAfter

(***************************************************************************)
(* What an entry says of its two slices.                                   *)
(***************************************************************************)
LEMMA EntrySlices ==
  ASSUME TypeInv, NEW g \in Gen, NEW k \in DOMAIN entries[g],
         NEW e, e = entries[g][k]
  PROVE  /\ k \in Keys
         /\ e.key = Slice(g, e.key.off, Length[k])
         /\ e.val = Slice(g, e.key.off + Length[k], e.val.len)
         /\ e.key.gen = g /\ e.key.len = Length[k] /\ e.key.off \in Nat
         /\ e.val.gen = g /\ e.val.len \in Nat /\ e.val.off = e.key.off + Length[k]
         /\ e.key.off + e.key.len <= e.val.off
         /\ e.val.off + e.val.len <= top[g]
         /\ e.key.off + e.key.len <= top[g]
         /\ top[g] \in 0..MaxGenBytes
         /\ Inside(e.val, k)
<1>1. EntryAt(g, k) /\ k \in Keys /\ top[g] \in 0..MaxGenBytes
  BY DEF TypeInv, HeapType
<1>2. Length[k] \in Nat \ {0} /\ MaxGenBytes \in Nat
  BY <1>1, CacheAssumption
<1>3. /\ e = [key |-> Slice(g, e.key.off, Length[k]),
              val |-> Slice(g, e.key.off + Length[k], e.val.len)]
      /\ e.key.off \in Nat /\ e.val.len \in Nat
      /\ e.key.off + Length[k] + e.val.len <= top[g]
  BY <1>1 DEF EntryAt
<1>4. /\ e.key = Slice(g, e.key.off, Length[k])
      /\ e.val = Slice(g, e.key.off + Length[k], e.val.len)
  BY <1>3
<1>5. /\ e.key.gen = g /\ e.key.len = Length[k]
      /\ e.val.gen = g /\ e.val.off = e.key.off + Length[k]
  BY <1>4 DEF Slice
<1>6. /\ e.val.off + e.val.len <= top[g] /\ e.key.off + e.key.len <= top[g]
      /\ e.val.off + e.val.len <= MaxGenBytes /\ e.key.off + e.key.len <= e.val.off
      /\ e.val.off \in Nat /\ Length[k] <= e.val.off
  BY <1>1, <1>2, <1>3, <1>5
<1> QED
  BY <1>1, <1>3, <1>4, <1>5, <1>6 DEF Inside

(***************************************************************************)
(* The entries of the maps stay well formed.                               *)
(***************************************************************************)
LEMMA StoresEntryTypes ==
  ASSUME TypeInv, NEW k, NEW len, NEW b, NEW n, NEW g, NEW o, Storing(k, len, b, n, g, o),
         NEW h \in Gen, NEW j \in DOMAIN entries'[h]
  PROVE  EntryAt(h, j)'
<1> USE DEF Storing
<1>1. n \in Nat /\ n <= MaxGenBytes /\ Length[k] \in Nat
  BY ContentType, CacheAssumption
<1>2. g \in Gen /\ o \in Nat /\ (~Full(n) => g = active /\ o = top[g])
  BY <1>1, TargetType
<1>3. /\ top'[g] = o + n /\ \A i \in Gen \ {g} : top'[i] = top[i]
      /\ entries'[g][k] = [key |-> KeySlice(k, n), val |-> ValSlice(k, len, n)]
      /\ \A i \in Gen \ {g} : entries'[i] = entries[i]
      /\ \A i \in DOMAIN entries'[g] \ {k} :
           ~Full(n) /\ i \in DOMAIN entries[g] /\ entries'[g][i] = entries[g][i]
  <2> HIDE DEF Storing
  <2>1. EntriesAfter(k, len, n, g, o)
    BY StoresEntries
  <2> QED
    BY <2>1 DEF EntriesAfter
<1>4. KeySlice(k, n) = Slice(g, o, Length[k]) /\ ValSlice(k, len, n) = Slice(g, o + Length[k], len)
  BY DEF KeySlice, ValSlice
<1>5. CASE h = g /\ j = k
  <2>1. entries'[h][j] = [key |-> Slice(g, o, Length[k]), val |-> Slice(g, o + Length[k], len)]
    BY <1>3, <1>4, <1>5
  <2>2. entries'[h][j].key.off = o /\ entries'[h][j].val.len = len
    BY <2>1 DEF Slice
  <2>3. o + Length[k] + len <= top'[h]
    BY <1>1, <1>2, <1>3, <1>5
  <2> QED
    BY <1>2, <1>5, <2>1, <2>2, <2>3 DEF EntryAt
<1>6. CASE ~(h = g /\ j = k)
  <2>1. j \in DOMAIN entries[h] /\ entries'[h][j] = entries[h][j]
    BY <1>3, <1>6
  <2>2. top[h] <= top'[h]
    BY <1>1, <1>2, <1>3, <1>6 DEF TypeInv, HeapType
  <2>3. EntryAt(h, j) /\ top[h] \in Nat
    BY <2>1 DEF TypeInv, HeapType
  <2>4. entries[h][j].key.off + Length[j] + entries[h][j].val.len <= top'[h]
    <3>1. DOMAIN entries[h] \subseteq Keys
      BY DEF TypeInv, HeapType
    <3>2. Length[j] \in Nat
      BY <2>1, <3>1, CacheAssumption
    <3>3. top'[h] \in Nat
      BY <1>1, <1>2, <1>3, <2>3
    <3> QED
      BY <2>2, <2>3, <3>2, <3>3 DEF EntryAt
  <2> QED
    BY <2>1, <2>3, <2>4 DEF EntryAt
<1> QED
  BY <1>5, <1>6

----------------------------------------------------------------------------
(* The maps are sound *)

(***************************************************************************)
(* A store keeps the generations sound.                                    *)
(***************************************************************************)
LEMMA StoresKeepHeap ==
  ASSUME CacheInv, NEW k, NEW len, NEW b, NEW n, NEW g, NEW o, Storing(k, len, b, n, g, o)
  PROVE  HeapType' /\ KeysIntact'
<1>1. TypeInv /\ KeysIntact
  BY DEF CacheInv
<1>2. EntriesAfter(k, len, n, g, o) /\ BytesAfter(k, len, b, n, g, o)
  BY <1>1, StoresEntries, StoresBytes
<1>3. mem' \in [Gen -> [Addr -> Byte]]
  BY <1>1, StoresMemory
<1>4. /\ n \in Nat /\ n <= MaxGenBytes /\ g = Target(n) /\ o = ResetOffset(g, n) /\ k \in Keys
  BY ContentType, CacheAssumption DEF Storing
<1>5. g \in Gen /\ o \in Nat /\ (~Full(n) => g = active /\ o = top[g])
  BY <1>1, <1>4, TargetType
<1>6. HeapType'
  <2>1. ASSUME NEW h \in Gen, NEW j \in DOMAIN entries'[h]
        PROVE  EntryAt(h, j)'
    BY <1>1, StoresEntryTypes
  <2> QED
    BY <1>2, <1>3, <1>5, <2>1 DEF HeapType, EntriesAfter
<1>7. ASSUME NEW h \in Gen, NEW j \in DOMAIN entries'[h]
      PROVE  Bytes(mem', entries'[h][j].key) = Content(j)
  <2>1. CASE h = g /\ j = k
    BY <1>2, <2>1 DEF EntriesAfter, BytesAfter
  <2>2. CASE ~(h = g /\ j = k)
    <3>1. j \in DOMAIN entries[h] /\ entries'[h][j] = entries[h][j] /\ (h = g => ~Full(n))
      BY <1>2, <2>2 DEF EntriesAfter
    <3> DEFINE s == entries[h][j].key
    <3>2. /\ s.gen = h /\ s.off \in Nat /\ s.len \in Nat
          /\ s.off + s.len <= top[h] /\ top[h] \in 0..MaxGenBytes
      BY <1>1, <3>1, EntrySlices, CacheAssumption
    <3>3. s.off + s.len <= MaxGenBytes
      BY <3>2, CacheAssumption
    <3>4. s.gen # g \/ s.off + s.len <= o
      BY <1>5, <3>1, <3>2
    <3>5. Bytes(mem', s) = Bytes(mem, s)
      BY <1>2, <3>2, <3>3, <3>4 DEF BytesAfter
    <3> QED
      BY <1>1, <3>1, <3>5 DEF KeysIntact
  <2> QED
    BY <2>1, <2>2
<1> QED
  BY <1>6, <1>7 DEF KeysIntact

(***************************************************************************)
(* Set is a store.                                                         *)
(***************************************************************************)
LEMMA SetIsStoring ==
  ASSUME CacheInv, NEW c, NEW k \in Keys, NEW v \in Values, Set(c, k, v)
  PROVE  \E n, g, o : Storing(k, Length[v], Content(v), n, g, o)
<1>1. Stores(k, Length[v], Content(v))
  BY SetStores
<1>2. /\ Length[v] \in Nat /\ Content(v) \in [1..Length[v] -> Byte]
      /\ Length[k] + Length[v] <= MaxGenBytes
  BY ContentType, CacheAssumption
<1> QED
  BY <1>1, <1>2 DEF Storing

(***************************************************************************)
(* The memory once the key has been copied is well typed.                  *)
(***************************************************************************)
LEMMA WithKeyType ==
  ASSUME TypeInv, NEW k \in Keys, NEW n \in Nat, n <= MaxGenBytes
  PROVE  WithKey(k, n) \in [Gen -> [Addr -> Byte]]
<1> DEFINE s == KeySlice(k, n)
<1>1. Length[k] \in Nat /\ Content(k) \in [1..Length[k] -> Byte]
  BY ContentType
<1>2. s.gen = Target(n) /\ s.off = ResetOffset(Target(n), n) /\ s.len = Length[k]
  BY DEF KeySlice, Slice
<1>3. s.gen \in Gen /\ s.off \in Nat /\ s.len \in Nat /\ Content(k) \in [1..s.len -> Byte]
  BY <1>1, <1>2, TargetType
<1>4. mem \in [Gen -> [Addr -> Byte]] /\ WithKey(k, n) = Copy(mem, s, Content(k))
  BY DEF TypeInv, HeapType, WithKey
<1> HIDE DEF s
<1> QED
  BY <1>3, <1>4, CopyEffect DEF Copied

(***************************************************************************)
(* A promotion is a store, of a slice that a Get holds.                    *)
(***************************************************************************)
LEMMA PromoteIsStoring ==
  ASSUME CacheInv, NEW c \in Goroutines, Promote(c), ~closed
  PROVE  /\ loc[c].key \in Keys /\ Inside(loc[c].val, loc[c].key)
         /\ \E n, g, o :
              Storing(loc[c].key, loc[c].val.len, Bytes(WithKey(loc[c].key, n), loc[c].val), n, g, o)
<1> DEFINE k == loc[c].key
           s == loc[c].val
           n == Length[k] + s.len
<1>1. pc[c] = "promote" /\ TypeInv
  BY DEF Promote, CacheInv
<1>2. k \in Keys /\ Inside(s, k)
  BY <1>1 DEF TypeInv, ClientType
<1>3. Stores(k, s.len, Bytes(WithKey(k, n), s))
  BY PromoteStores
<1> HIDE DEF k, s
<1>4. /\ s.gen \in Gen /\ s.off \in Nat /\ s.len \in Nat /\ Length[k] \in Nat
      /\ n \in Nat /\ n <= MaxGenBytes /\ s.off + s.len <= MaxGenBytes
  BY <1>2, CacheAssumption DEF Inside
<1> HIDE DEF n
<1>5. WithKey(k, n) \in [Gen -> [Addr -> Byte]]
  BY <1>1, <1>2, <1>4, WithKeyType
<1>6. Bytes(WithKey(k, n), s) \in [1..s.len -> Byte]
  <2> HIDE DEF WithKey
  <2> QED
    BY <1>4, <1>5, BytesType
<1>7. Storing(k, s.len, Bytes(WithKey(k, n), s), n, Target(n), ResetOffset(Target(n), n))
  BY <1>2, <1>3, <1>4, <1>6 DEF Storing, n
<1> QED
  BY <1>2, <1>7 DEF k, s

(***************************************************************************)
(* Initially the maps are empty.                                           *)
(***************************************************************************)
LEMMA CacheInit == Init => CacheInv
<1> SUFFICES ASSUME Init PROVE CacheInv
  OBVIOUS
<1>1. MaxGenBytes \in Nat /\ 0 \in 0..MaxGenBytes
  BY CacheAssumption
<1>2. HeapType
  <2>1. mem \in [Gen -> [Addr -> Byte]]
    BY DEF Init, Blank, Byte
  <2>2. \A g \in Gen : DOMAIN entries[g] = {}
    BY DEF Init
  <2> QED
    BY <1>1, <2>1, <2>2 DEF Init, HeapType, Gen
<1>3. ClientType
  BY CacheAssumption DEF Init, ClientType, Nowhere
<1>4. KeysIntact
  BY DEF Init, KeysIntact
<1> QED
  BY <1>2, <1>3, <1>4 DEF CacheInv, TypeInv

(***************************************************************************)
(* The slice that a Get finds is that of an entry.                         *)
(***************************************************************************)
LEMMA ClientStep ==
  ASSUME TypeInv, Next
  PROVE  ClientType'
<1> USE DEF TypeInv, ClientType, Goto, Changes, Underway
<1>1. ASSUME NEW g \in Goroutines, NEW k \in Keys, NEW v \in Values, Set(g, k, v)
      PROVE  ClientType'
  BY <1>1, CacheAssumption DEF Set, Store
<1>2. ASSUME NEW g \in Goroutines, NEW k \in Keys, Lookup(g, k)
      PROVE  ClientType'
  <2>1. ASSUME NEW h \in Gen, k \in DOMAIN entries[h], NEW label \in {"return", "promote"},
               loc' = [loc EXCEPT ![g] = [key |-> k, val |-> entries[h][k].val]],
               pc' = [pc EXCEPT ![g] = label]
        PROVE  ClientType'
    <3>1. Inside(entries[h][k].val, k)
      BY <2>1, EntrySlices
    <3>2. loc'[g].key = k /\ loc'[g].val = entries[h][k].val
      BY <2>1
    <3>3. ASSUME NEW f \in Goroutines
          PROVE  /\ loc'[f].key \in Keys <=> pc'[f] \in {"promote", "return"}
                 /\ pc'[f] \in {"promote", "return"} => Inside(loc'[f].val, loc'[f].key)
      <4>1. CASE f = g
        BY <2>1, <3>1, <3>2, <4>1
      <4>2. CASE f # g
        BY <2>1, <4>2
      <4> QED
        BY <4>1, <4>2
    <3>4. closed' = closed /\ stored' = stored /\ spoilt' = spoilt
      BY <1>2 DEF Lookup, cache
    <3>5. pc' \in [Goroutines -> {"idle", "promote", "return", "fault"}] /\ DOMAIN loc' = Goroutines
      BY <2>1
    <3> QED
      BY <3>3, <3>4, <3>5
  <2>2. Old \in Gen /\ active \in Gen
    BY DEF HeapType, Gen, Old
  <2>3. CASE k \in DOMAIN entries[active]
    BY <1>2, <2>1, <2>2, <2>3 DEF Lookup
  <2>4. CASE k \notin DOMAIN entries[active] /\ k \in DOMAIN entries[Old]
    BY <1>2, <2>1, <2>2, <2>4 DEF Lookup
  <2>5. CASE k \notin DOMAIN entries[active] /\ k \notin DOMAIN entries[Old]
    BY <1>2, <2>5 DEF Lookup, cache
  <2> QED
    BY <2>3, <2>4, <2>5
<1>3. ASSUME NEW g \in Goroutines, NEW k \in Keys, GetClosed(g, k)
      PROVE  ClientType'
  BY <1>3 DEF GetClosed, cache
<1>4. ASSUME NEW g \in Goroutines, Promote(g)
      PROVE  ClientType'
  <2>1. closed' = closed
    BY <1>4 DEF Promote, Store, cache
  <2>2. spoilt' \in BOOLEAN
    BY <1>4 DEF Promote, OverwritesItself
  <2>3. pc[g] = "promote" /\ pc' = [pc EXCEPT ![g] = "return"] /\ loc' = loc /\ stored' = stored
    BY <1>4 DEF Promote
  <2> QED
    BY <2>1, <2>2, <2>3
<1>5. ASSUME NEW g \in Goroutines, Return(g)
      PROVE  ClientType'
  <2>1. loc' = [loc EXCEPT ![g] = Nowhere] /\ stored' = stored /\ spoilt' = spoilt /\ closed' = closed
    BY <1>5 DEF Return, cache
  <2>2. pc' = [pc EXCEPT ![g] = "idle"] \/ pc' = [pc EXCEPT ![g] = "fault"]
    BY <1>5 DEF Return
  <2>3. Missing \notin Keys
    BY CacheAssumption
  <2> QED
    BY <2>1, <2>2, <2>3 DEF Nowhere
<1>6. ASSUME NEW g \in Goroutines, NEW k \in Keys, Delete(g, k)
      PROVE  ClientType'
  BY <1>6 DEF Delete
<1>7. ASSUME NEW g \in Goroutines, Close(g)
      PROVE  ClientType'
  BY <1>7 DEF Close
<1> QED
  BY <1>1, <1>2, <1>3, <1>4, <1>5, <1>6, <1>7 DEF Next

(***************************************************************************)
(* No step disturbs the generations.                                       *)
(***************************************************************************)
LEMMA HeapStep ==
  ASSUME CacheInv, Next
  PROVE  HeapType' /\ KeysIntact'
<1>1. HeapType /\ KeysIntact
  BY DEF CacheInv, TypeInv
<1>2. ASSUME UNCHANGED <<mem, top, used, entries, active>>
      PROVE  HeapType' /\ KeysIntact'
  BY <1>1, <1>2 DEF HeapType, EntryAt, KeysIntact
<1>3. ASSUME NEW g \in Goroutines, NEW k \in Keys, NEW v \in Values, Set(g, k, v)
      PROVE  HeapType' /\ KeysIntact'
  BY <1>3, SetIsStoring, StoresKeepHeap
<1>4. ASSUME NEW g \in Goroutines, NEW k \in Keys, Lookup(g, k) \/ GetClosed(g, k)
      PROVE  HeapType' /\ KeysIntact'
  BY <1>2, <1>4 DEF Lookup, GetClosed, cache
<1>5. ASSUME NEW g \in Goroutines, Promote(g)
      PROVE  HeapType' /\ KeysIntact'
  <2>1. CASE closed
    BY <1>2, <1>5, <2>1 DEF Promote, cache
  <2>2. CASE ~closed
    BY <1>5, <2>2, PromoteIsStoring, StoresKeepHeap
  <2> QED
    BY <2>1, <2>2
<1>6. ASSUME NEW g \in Goroutines, Return(g) \/ Close(g)
      PROVE  HeapType' /\ KeysIntact'
  BY <1>2, <1>6 DEF Return, Close, cache
<1>7. ASSUME NEW g \in Goroutines, NEW k \in Keys, Delete(g, k)
      PROVE  HeapType' /\ KeysIntact'
  <2>1. UNCHANGED <<mem, top, used, active>>
    BY <1>7 DEF Delete
  <2>2. DOMAIN entries' = Gen
    BY <1>7 DEF Delete
  <2>3. \A h \in Gen : /\ DOMAIN entries'[h] = DOMAIN entries[h] \ {k}
                       /\ \A j \in DOMAIN entries'[h] : entries'[h][j] = entries[h][j]
    BY <1>7 DEF Delete, Restrict
  <2> QED
    BY <1>1, <2>1, <2>2, <2>3 DEF HeapType, EntryAt, KeysIntact
<1> QED
  BY <1>3, <1>4, <1>5, <1>6, <1>7 DEF Next

(***************************************************************************)
(* The invariant of the cache.                                             *)
(***************************************************************************)
LEMMA CacheInvariant == Spec => []CacheInv
<1>1. CacheInv /\ [Next]_cvars => CacheInv'
  <2> SUFFICES ASSUME CacheInv, [Next]_cvars PROVE CacheInv'
    OBVIOUS
  <2>1. CASE Next
    BY <2>1, ClientStep, HeapStep DEF CacheInv, TypeInv
  <2>2. CASE UNCHANGED cvars
    BY <2>2 DEF CacheInv, TypeInv, HeapType, ClientType, EntryAt, KeysIntact, cvars
  <2> QED
    BY <2>1, <2>2
<1> QED
  BY CacheInit, <1>1, PTL DEF Spec

(***************************************************************************)
(* The maps of both generations always refer to memory that is theirs and  *)
(* that holds the keys they say, whatever Sets, promotions, rotations and  *)
(* Deletes race with each other.                                           *)
(***************************************************************************)
THEOREM MapsStaySound == Spec => []MapsSound
<1>1. CacheInv => MapsSound
  <2> SUFFICES ASSUME CacheInv PROVE TypeOK
    BY DEF CacheInv, MapsSound
  <2>1. ASSUME NEW g \in Gen, NEW k \in DOMAIN entries[g]
        PROVE  LET e == entries[g][k]
               IN /\ e.key = Slice(g, e.key.off, Length[k])
                  /\ e.val = Slice(g, e.key.off + Length[k], e.val.len)
                  /\ e.val.off + e.val.len <= top[g]
    BY EntrySlices DEF CacheInv
  <2> QED
    BY <2>1 DEF CacheInv, TypeInv, HeapType, ClientType, TypeOK, Byte
<1> QED
  BY <1>1, CacheInvariant, PTL

----------------------------------------------------------------------------
(* What a step may not do *)

(***************************************************************************)
(* A store overwrites no value of an entry that it leaves in a map.        *)
(***************************************************************************)
LEMMA StoresKeepValues ==
  ASSUME CacheInv, NEW k, NEW len, NEW b, NEW n, NEW g, NEW o, Storing(k, len, b, n, g, o),
         NEW h \in Gen, ~(Rotates /\ h = active'), NEW j \in DOMAIN entries[h]
  PROVE  Bytes(mem', entries[h][j].val) = Bytes(mem, entries[h][j].val)
<1> DEFINE s == entries[h][j].val
<1>1. TypeInv
  BY DEF CacheInv
<1>2. EntriesAfter(k, len, n, g, o) /\ BytesAfter(k, len, b, n, g, o)
  BY <1>1, StoresEntries, StoresBytes
<1>3. n \in Nat /\ n <= MaxGenBytes /\ g = Target(n) /\ o = ResetOffset(g, n)
  BY ContentType, CacheAssumption DEF Storing
<1>4. /\ g \in Gen /\ o \in Nat /\ Old # active
      /\ (~Full(n) => g = active /\ o = top[g]) /\ (Full(n) => g = Old)
  BY <1>1, <1>3, TargetType
<1>5. /\ s.gen = h /\ s.off \in Nat /\ s.len \in Nat
      /\ s.off + s.len <= top[h] /\ top[h] \in 0..MaxGenBytes
  BY <1>1, EntrySlices, CacheAssumption DEF Inside
<1>6. s.off + s.len <= MaxGenBytes
  BY <1>5, CacheAssumption
<1>7. s.gen # g \/ s.off + s.len <= o
  BY <1>2, <1>4, <1>5 DEF EntriesAfter, Rotates
<1> QED
  BY <1>2, <1>5, <1>6, <1>7 DEF BytesAfter

(***************************************************************************)
(* Nothing overwrites the value of an entry while the map of its           *)
(* generation holds it.                                                    *)
(***************************************************************************)
THEOREM NoValueIsOverwritten == Spec => ValuesStable
<1>1. CacheInv /\ [Next]_cvars =>
        [\A g \in Gen : ~(Rotates /\ g = active') =>
           \A k \in DOMAIN entries[g] \cap DOMAIN entries'[g] :
             entries'[g][k] = entries[g][k] =>
               Bytes(mem', entries[g][k].val) = Bytes(mem, entries[g][k].val)]_cvars
  <2> SUFFICES ASSUME CacheInv, Next,
                      NEW g \in Gen, ~(Rotates /\ g = active'), NEW k \in DOMAIN entries[g]
               PROVE  Bytes(mem', entries[g][k].val) = Bytes(mem, entries[g][k].val)
    OBVIOUS
  <2>1. CASE mem' = mem
    BY <2>1
  <2>2. CASE \E c \in Goroutines, j \in Keys, v \in Values : Set(c, j, v)
    BY <2>2, SetIsStoring, StoresKeepValues
  <2>3. CASE \E c \in Goroutines : Promote(c) /\ ~closed
    BY <2>3, PromoteIsStoring, StoresKeepValues
  <2>4. mem' = mem \/ (\E c \in Goroutines, j \in Keys, v \in Values : Set(c, j, v))
                   \/ \E c \in Goroutines : Promote(c) /\ ~closed
    BY DEF Next, Lookup, GetClosed, Promote, Return, Delete, Close, cache
  <2> QED
    BY <2>1, <2>2, <2>3, <2>4
<1> QED
  BY <1>1, CacheInvariant, PTL DEF Spec, ValuesStable

(***************************************************************************)
(* An entry of the active generation survives the next rotation: only a    *)
(* Delete of its key removes it.                                           *)
(***************************************************************************)
THEOREM ActiveEntriesSurvive == Spec => SurvivesOneRotation
<1>1. CacheInv /\ [Next]_cvars =>
        [\A k \in DOMAIN entries[active] : k \in Visible' \/ stored'[k] = Missing]_cvars
  <2> SUFFICES ASSUME CacheInv, Next, NEW k \in DOMAIN entries[active]
               PROVE  k \in Visible' \/ stored'[k] = Missing
    OBVIOUS
  <2>1. /\ TypeInv /\ active \in Gen /\ k \in Keys /\ DOMAIN entries = Gen
        /\ stored \in [Keys -> Values \cup {Missing}]
    BY DEF CacheInv, TypeInv, HeapType, ClientType
  <2>2. \A h \in Gen : DOMAIN entries'[h] \subseteq Visible'
    BY DEF Visible, Gen
  <2>3. ASSUME NEW j, NEW len, NEW b, NEW n, NEW g, NEW o, Storing(j, len, b, n, g, o)
        PROVE  k \in Visible'
    <3>1. EntriesAfter(j, len, n, g, o)
      BY <2>1, <2>3, StoresEntries
    <3>2. n \in Nat /\ n <= MaxGenBytes /\ g = Target(n)
      BY <2>3, ContentType, CacheAssumption DEF Storing
    <3>3. Old # active /\ (~Full(n) => g = active) /\ (Full(n) => g = Old)
      BY <2>1, <3>2, TargetType
    <3> QED
      BY <2>1, <2>2, <3>1, <3>3 DEF EntriesAfter
  <2>4. CASE entries' = entries
    BY <2>1, <2>2, <2>4
  <2>5. CASE \E c \in Goroutines, j \in Keys, v \in Values : Set(c, j, v)
    BY <2>3, <2>5, SetIsStoring
  <2>6. CASE \E c \in Goroutines : Promote(c) /\ ~closed
    BY <2>3, <2>6, PromoteIsStoring
  <2>7. CASE \E c \in Goroutines, j \in Keys : Delete(c, j)
    <3>1. PICK c \in Goroutines, j \in Keys : Delete(c, j)
      BY <2>7
    <3>2. /\ DOMAIN entries'[active] = DOMAIN entries[active] \ {j}
          /\ stored' = [stored EXCEPT ![j] = Missing]
      BY <2>1, <3>1 DEF Delete, Restrict
    <3> QED
      BY <2>1, <2>2, <3>2
  <2>8. \/ entries' = entries
        \/ \E c \in Goroutines, j \in Keys, v \in Values : Set(c, j, v)
        \/ \E c \in Goroutines : Promote(c) /\ ~closed
        \/ \E c \in Goroutines, j \in Keys : Delete(c, j)
    BY DEF Next, Lookup, GetClosed, Promote, Return, Close, cache
  <2> QED
    BY <2>4, <2>5, <2>6, <2>7, <2>8
<1> QED
  BY <1>1, CacheInvariant, PTL DEF Spec, SurvivesOneRotation

----------------------------------------------------------------------------
(* The cache implements a map that may forget *)

(***************************************************************************)
(* A key that is in a map is in the one where lookups find it.             *)
(***************************************************************************)
LEMMA NewestHas ==
  ASSUME TypeInv, NEW k \in Visible
  PROVE  /\ k \in Keys /\ Newest(k) \in Gen /\ k \in DOMAIN entries[Newest(k)]
         /\ k \notin DOMAIN entries[active] => Newest(k) = Old
<1>1. active \in Gen /\ DOMAIN entries[1] \subseteq Keys /\ DOMAIN entries[2] \subseteq Keys
  BY DEF TypeInv, HeapType, Gen
<1>2. Old \in Gen /\ (active = 1 => Old = 2) /\ (active = 2 => Old = 1)
  BY <1>1 DEF Gen, Old
<1> QED
  BY <1>1, <1>2 DEF Visible, Newest, Gen

(***************************************************************************)
(* A lookup of another key than the one stored finds what it found before. *)
(***************************************************************************)
LEMMA StoresNewest ==
  ASSUME CacheInv, NEW k, NEW len, NEW b, NEW n, NEW g, NEW o, Storing(k, len, b, n, g, o),
         NEW j \in Visible', j # k
  PROVE  LET h == Newest(j)'
         IN /\ j \in Visible /\ h = Newest(j)
            /\ entries'[h][j] = entries[h][j]
            /\ Bytes(mem', entries[h][j].val) = Bytes(mem, entries[h][j].val)
<1>1. TypeInv
  BY DEF CacheInv
<1>2. EntriesAfter(k, len, n, g, o)
  BY <1>1, StoresEntries
<1>3. n \in Nat /\ n <= MaxGenBytes /\ g = Target(n)
  BY ContentType, CacheAssumption DEF Storing
<1>4. /\ g \in Gen /\ Old \in Gen /\ Old # active /\ active \in Gen
      /\ (~Full(n) => g = active) /\ (Full(n) => g = Old)
  BY <1>1, <1>3, TargetType
<1>5. active' = g
  BY <1>2 DEF EntriesAfter
<1>6. CASE ~Full(n)
  <2>1. Old' = Old
    BY <1>4, <1>5, <1>6 DEF Old
  <2>2. /\ DOMAIN entries'[active] = DOMAIN entries[active] \cup {k}
        /\ entries'[Old] = entries[Old]
    BY <1>2, <1>4, <1>6 DEF EntriesAfter
  <2>3. Newest(j)' = Newest(j) /\ Newest(j) \in {active, Old}
    BY <1>4, <1>5, <1>6, <2>1, <2>2 DEF Newest
  <2>4. j \in Visible
    BY <1>2, <1>4, <1>6, <2>2 DEF Visible, Gen, EntriesAfter
  <2>5. j \in DOMAIN entries[Newest(j)] /\ Newest(j) \in Gen
    BY <1>1, <2>4, NewestHas
  <2>6. entries'[Newest(j)][j] = entries[Newest(j)][j]
    BY <1>2, <1>4, <1>6, <2>2, <2>3, <2>5 DEF EntriesAfter
  <2>7. ~(Rotates /\ Newest(j) = active')
    BY <1>4, <1>5, <1>6 DEF Rotates
  <2>8. Bytes(mem', entries[Newest(j)][j].val) = Bytes(mem, entries[Newest(j)][j].val)
    BY <2>5, <2>7, StoresKeepValues
  <2> QED
    BY <2>3, <2>4, <2>6, <2>8
<1>7. CASE Full(n)
  <2>1. Old' = active
    BY <1>4, <1>5, <1>7 DEF Old, Gen
  <2>2. entries'[active] = entries[active] /\ j \notin DOMAIN entries'[Old]
    BY <1>2, <1>4, <1>7 DEF EntriesAfter
  <2>3. j \in DOMAIN entries[active]
    BY <1>4, <2>2 DEF Visible, Gen
  <2>4. Newest(j)' = active /\ Newest(j) = active /\ j \in Visible
    BY <1>4, <1>5, <1>7, <2>1, <2>2, <2>3 DEF Newest, Visible, Gen
  <2>5. ~(Rotates /\ active = active')
    BY DEF Rotates
  <2>6. Bytes(mem', entries[active][j].val) = Bytes(mem, entries[active][j].val)
    BY <1>4, <2>3, <2>5, StoresKeepValues
  <2> QED
    BY <2>2, <2>4, <2>6
<1> QED
  BY <1>6, <1>7

(***************************************************************************)
(* After a store that leaves the value v of its key, lookups find what was *)
(* stored last.                                                            *)
(***************************************************************************)
LEMMA StoresFindable ==
  ASSUME CacheInv, NEW k, NEW len, NEW b, NEW n, NEW g, NEW o, Storing(k, len, b, n, g, o),
         \A j \in Visible : Holds(entries[Newest(j)][j].val, stored[j]),
         stored'[k] # Missing, b = Content(stored'[k]),
         \A j \in Keys \ {k} : stored'[j] = stored[j]
  PROVE  \A j \in Visible' : Holds(entries[Newest(j)][j].val, stored[j])'
<1>1. TypeInv
  BY DEF CacheInv
<1>2. EntriesAfter(k, len, n, g, o) /\ BytesAfter(k, len, b, n, g, o)
  BY <1>1, StoresEntries, StoresBytes
<1>3. Newest(k)' = g /\ entries'[g][k].val = ValSlice(k, len, n)
  BY <1>2 DEF EntriesAfter, Newest
<1>4. Holds(entries[Newest(k)][k].val, stored[k])'
  BY <1>2, <1>3 DEF BytesAfter, Holds
<1>5. ASSUME NEW j \in Visible', j # k
      PROVE  Holds(entries[Newest(j)][j].val, stored[j])'
  <2> DEFINE h == Newest(j)'
  <2>1. /\ j \in Visible /\ h = Newest(j) /\ entries'[h][j] = entries[h][j]
        /\ Bytes(mem', entries[h][j].val) = Bytes(mem, entries[h][j].val)
    BY <1>5, StoresNewest
  <2>2. j \in Keys
    BY <1>1, <2>1, NewestHas
  <2>3. Holds(entries[h][j].val, stored[j]) /\ stored'[j] = stored[j]
    BY <1>5, <2>1, <2>2
  <2> QED
    BY <2>1, <2>3 DEF Holds
<1> QED
  BY <1>4, <1>5

(***************************************************************************)
(* Set keeps what lookups find, when no Get is under way.                  *)
(***************************************************************************)
LEMMA SetAnswers ==
  ASSUME CacheInv, AnswersInv, NEW c \in Goroutines, NEW k \in Keys, NEW v \in Values, Set(c, k, v)
  PROVE  AnswersInv'
<1> SUFFICES ASSUME ~spoilt', ~closed'
             PROVE  /\ \A j \in Visible' : Holds(entries[Newest(j)][j].val, stored[j])'
                    /\ \A g \in Goroutines : pc'[g] \notin {"promote", "return"}
  BY DEF AnswersInv
<1>1. /\ ~spoilt /\ ~closed /\ pc' = pc /\ pc[c] = "idle"
      /\ \A h \in Goroutines \ {c} : pc[h] \notin {"promote", "return"}
      /\ stored' = [stored EXCEPT ![k] = v]
  BY DEF Set, Changes, Underway
<1>2. \A j \in Visible : Holds(entries[Newest(j)][j].val, stored[j])
  BY <1>1 DEF AnswersInv
<1>3. stored'[k] = v /\ v # Missing /\ \A j \in Keys \ {k} : stored'[j] = stored[j]
  BY <1>1, CacheAssumption DEF CacheInv, TypeInv, ClientType
<1>4. \A j \in Visible' : Holds(entries[Newest(j)][j].val, stored[j])'
  BY <1>2, <1>3, SetIsStoring, StoresFindable
<1> QED
  BY <1>1, <1>4

(***************************************************************************)
(* So does a promotion, and the Get it belongs to still holds its value.   *)
(***************************************************************************)
LEMMA PromoteAnswers ==
  ASSUME CacheInv, AnswersInv, NEW c \in Goroutines, Promote(c)
  PROVE  AnswersInv'
<1> SUFFICES ASSUME ~spoilt', ~closed' PROVE AnswersInv'
  BY DEF AnswersInv
<1> DEFINE k == loc[c].key
           s == loc[c].val
<1>1. /\ ~spoilt /\ ~OverwritesItself(k, s) /\ loc' = loc /\ stored' = stored
      /\ pc[c] = "promote" /\ pc' = [pc EXCEPT ![c] = "return"]
      /\ \A h \in Goroutines \ {c} : pc[h] \notin {"promote", "return"}
  BY DEF Promote, Goto, Underway
<1>2. ~closed
  BY DEF Promote, Store, cache
<1>3. /\ TypeInv /\ k \in Keys /\ Inside(s, k) /\ pc \in [Goroutines -> {"idle", "promote", "return", "fault"}]
      /\ stored \in [Keys -> Values \cup {Missing}]
  BY <1>2, PromoteIsStoring DEF CacheInv, TypeInv, ClientType
<1>4. /\ \A j \in Visible : Holds(entries[Newest(j)][j].val, stored[j])
      /\ Holds(s, stored[k]) /\ Promoting(c)
  BY <1>1, <1>2 DEF AnswersInv
<1>5. PICK n, g, o : Storing(k, s.len, Bytes(WithKey(k, n), s), n, g, o)
  BY <1>2, PromoteIsStoring
<1>6. Bytes(mem, s) = Content(stored[k]) /\ stored[k] # Missing
  BY <1>4 DEF Holds
<1>7. s = entries[Old][k].val /\ k \in DOMAIN entries[Old]
  BY <1>4 DEF Promoting
<1> HIDE DEF k, s
<1> DEFINE b == Bytes(WithKey(k, n), s)
<1>8. BytesAfter(k, s.len, b, n, g, o)
  BY <1>3, <1>5, StoresBytes
<1>9. /\ n \in Nat /\ n <= MaxGenBytes /\ g = Target(n) /\ o = ResetOffset(g, n)
      /\ n = Length[k] + s.len /\ Length[k] \in Nat
  BY <1>5, ContentType, CacheAssumption DEF Storing
<1>10. /\ Old \in Gen /\ Old # active
       /\ (~Full(n) => g = active) /\ (Full(n) => g = Old /\ o = 0)
  BY <1>3, <1>9, TargetType
<1>11. /\ s = Slice(s.gen, s.off, s.len) /\ s.gen = Old
       /\ s.off \in Nat /\ s.len \in Nat /\ s.off + s.len <= MaxGenBytes /\ Length[k] <= s.off
  BY <1>3, <1>7, <1>10, EntrySlices DEF Inside
<1>12. b = Content(stored[k])
  <2>1. s.gen # g \/ s.off >= o + Length[k]
    BY <1>9, <1>10, <1>11
  <2>2. b = Bytes(mem, s)
    BY <1>8, <1>10, <1>11, <2>1 DEF BytesAfter
  <2> QED
    BY <1>6, <2>2
<1>13. \A j \in Visible' : Holds(entries[Newest(j)][j].val, stored[j])'
  BY <1>1, <1>4, <1>5, <1>6, <1>12, StoresFindable
<1>14. Bytes(mem', s) = Content(stored[k])
  <2>1. CASE ~Full(n)
    BY <1>6, <1>8, <1>10, <1>11, <2>1 DEF BytesAfter
  <2>2. CASE Full(n) /\ s.off >= n
    BY <1>6, <1>8, <1>9, <1>10, <1>11, <2>2 DEF BytesAfter
  <2>3. CASE Full(n) /\ s.off = Length[k]
    <3>1. o + Length[k] = s.off
      BY <1>9, <1>10, <2>3
    <3>2. ValSlice(k, s.len, n) = s
      BY <1>9, <1>10, <1>11, <2>3, <3>1 DEF ValSlice
    <3> QED
      BY <1>8, <1>12, <3>2 DEF BytesAfter
  <2> QED
    BY <1>1, <1>9, <1>11, <2>1, <2>2, <2>3 DEF OverwritesItself
<1>15. Holds(loc[c].val, stored[loc[c].key])'
  BY <1>1, <1>6, <1>14 DEF Holds, k, s
<1>16. \A h \in Goroutines : pc'[h] \in {"promote", "return"} => h = c /\ pc'[h] = "return"
  BY <1>1, <1>3
<1> QED
  BY <1>13, <1>15, <1>16 DEF AnswersInv

(***************************************************************************)
(* A Get that finds its key holds what was stored last.                    *)
(***************************************************************************)
LEMMA LookupAnswers ==
  ASSUME CacheInv, AnswersInv, NEW c \in Goroutines, NEW k \in Keys, Lookup(c, k)
  PROVE  AnswersInv'
<1>1. /\ UNCHANGED <<cache, stored, spoilt>> /\ ~closed /\ pc[c] = "idle"
      /\ pc \in [Goroutines -> {"idle", "promote", "return", "fault"}] /\ DOMAIN loc = Goroutines
      /\ active \in Gen /\ TypeInv
  BY DEF Lookup, CacheInv, TypeInv, ClientType, HeapType
<1>2. /\ Old \in Gen
  BY <1>1 DEF Old, Gen
<1> SUFFICES ASSUME ~spoilt PROVE AnswersInv'
  BY <1>1 DEF AnswersInv
<1>3. /\ \A j \in Visible : Holds(entries[Newest(j)][j].val, stored[j])
      /\ \A g \in Goroutines :
           /\ pc[g] \in {"promote", "return"} => Holds(loc[g].val, stored[loc[g].key])
           /\ pc[g] = "promote" => Promoting(g)
  BY <1>1 DEF AnswersInv
<1>4. \A j \in Visible' : Holds(entries[Newest(j)][j].val, stored[j])'
  BY <1>1, <1>3 DEF cache, Visible, Newest, Old, Holds
<1>5. ASSUME NEW h \in Gen, k \in DOMAIN entries[h], h = Newest(k), NEW label \in {"return", "promote"},
             label = "promote" => h = Old /\ k \notin DOMAIN entries[active],
             loc' = [loc EXCEPT ![c] = [key |-> k, val |-> entries[h][k].val]],
             pc' = [pc EXCEPT ![c] = label]
      PROVE  AnswersInv'
  <2>1. k \in Visible
    BY <1>5 DEF Visible, Gen
  <2>2. loc'[c].key = k /\ loc'[c].val = entries[h][k].val /\ pc'[c] = label
    BY <1>1, <1>5
  <2>3. Holds(loc[c].val, stored[loc[c].key])'
    BY <1>1, <1>3, <1>5, <2>1, <2>2 DEF cache, Holds
  <2>4. pc'[c] = "promote" => Promoting(c)'
    BY <1>1, <1>5, <2>2 DEF cache, Promoting, Old
  <2>5. ASSUME NEW g \in Goroutines \ {c}
        PROVE  /\ pc'[g] \in {"promote", "return"} => Holds(loc[g].val, stored[loc[g].key])'
               /\ pc'[g] = "promote" => Promoting(g)'
    <3>1. pc'[g] = pc[g] /\ loc'[g] = loc[g]
      BY <1>1, <1>5
    <3> QED
      BY <1>1, <1>3, <3>1 DEF cache, Holds, Promoting, Old
  <2> QED
    BY <1>4, <2>3, <2>4, <2>5 DEF AnswersInv
<1>6. CASE k \in DOMAIN entries[active]
  BY <1>1, <1>5, <1>6 DEF Lookup, Goto, Newest
<1>7. CASE k \notin DOMAIN entries[active] /\ k \in DOMAIN entries[Old]
  BY <1>1, <1>2, <1>5, <1>7 DEF Lookup, Goto, Newest
<1>8. CASE k \notin DOMAIN entries[active] /\ k \notin DOMAIN entries[Old]
  <2>1. pc' = pc /\ loc' = loc
    BY <1>8 DEF Lookup
  <2> QED
    BY <1>1, <1>3, <1>4, <2>1 DEF AnswersInv, cache, Holds, Promoting, Old
<1> QED
  BY <1>6, <1>7, <1>8

(***************************************************************************)
(* A Delete, when no Get is under way.                                     *)
(***************************************************************************)
LEMMA DeleteAnswers ==
  ASSUME CacheInv, AnswersInv, NEW c \in Goroutines, NEW k \in Keys, Delete(c, k)
  PROVE  AnswersInv'
<1> SUFFICES ASSUME ~spoilt', ~closed'
             PROVE  /\ \A j \in Visible' : Holds(entries[Newest(j)][j].val, stored[j])'
                    /\ \A g \in Goroutines : pc'[g] \notin {"promote", "return"}
  BY DEF AnswersInv
<1>1. /\ ~spoilt /\ ~closed /\ pc' = pc /\ pc[c] = "idle" /\ mem' = mem /\ active' = active
      /\ \A h \in Goroutines \ {c} : pc[h] \notin {"promote", "return"}
      /\ stored' = [stored EXCEPT ![k] = Missing]
  BY DEF Delete, Changes, Underway
<1>2. /\ TypeInv /\ active \in Gen /\ stored \in [Keys -> Values \cup {Missing}]
  BY DEF CacheInv, TypeInv, HeapType, ClientType
<1>3. Old \in Gen /\ Old' = Old
  BY <1>1, <1>2 DEF Old, Gen
<1>4. \A h \in Gen : /\ DOMAIN entries'[h] = DOMAIN entries[h] \ {k}
                     /\ \A j \in DOMAIN entries'[h] : entries'[h][j] = entries[h][j]
  BY DEF Delete, Restrict
<1>5. ASSUME NEW j \in Visible'
      PROVE  Holds(entries[Newest(j)][j].val, stored[j])'
  <2>1. j \in Visible /\ j # k /\ Newest(j)' = Newest(j)
    BY <1>1, <1>2, <1>3, <1>4 DEF Visible, Newest, Gen
  <2>2. j \in Keys /\ Newest(j) \in Gen /\ j \in DOMAIN entries[Newest(j)]
    BY <1>2, <2>1, NewestHas
  <2>3. entries'[Newest(j)][j] = entries[Newest(j)][j] /\ stored'[j] = stored[j]
    BY <1>1, <1>2, <1>4, <2>1, <2>2
  <2>4. Holds(entries[Newest(j)][j].val, stored[j])
    BY <1>1, <2>1 DEF AnswersInv
  <2> QED
    BY <1>1, <2>1, <2>3, <2>4 DEF Holds
<1> QED
  BY <1>1, <1>5

(***************************************************************************)
(* Every step keeps the promise.                                           *)
(***************************************************************************)
LEMMA AnswersStep ==
  ASSUME CacheInv, AnswersInv, [Next]_cvars
  PROVE  AnswersInv'
<1>1. ASSUME NEW c \in Goroutines, NEW k \in Keys, GetClosed(c, k)
      PROVE  AnswersInv'
  BY <1>1 DEF GetClosed, cache, AnswersInv
<1>2. ASSUME NEW c \in Goroutines, Return(c)
      PROVE  AnswersInv'
  <2>1. UNCHANGED <<cache, stored, spoilt>>
    BY <1>2 DEF Return
  <2>2. pc' = [pc EXCEPT ![c] = "idle"] \/ pc' = [pc EXCEPT ![c] = "fault"]
    BY <1>2 DEF Return, Goto
  <2>3. loc' = [loc EXCEPT ![c] = Nowhere] /\ pc \in [Goroutines -> {"idle", "promote", "return", "fault"}]
        /\ DOMAIN loc = Goroutines
    BY <1>2 DEF Return, CacheInv, TypeInv, ClientType
  <2>4. \A g \in Goroutines : pc'[g] \in {"promote", "return"} => pc'[g] = pc[g] /\ loc'[g] = loc[g]
    BY <2>2, <2>3
  <2> QED
    BY <2>1, <2>4 DEF cache, AnswersInv, Holds, Promoting, Visible, Newest, Old
<1>3. ASSUME NEW c \in Goroutines, Close(c)
      PROVE  AnswersInv'
  BY <1>3 DEF Close, AnswersInv
<1>4. CASE UNCHANGED cvars
  BY <1>4 DEF cvars, AnswersInv, Holds, Promoting, Visible, Newest, Old
<1> QED
  BY <1>1, <1>2, <1>3, <1>4, SetAnswers, PromoteAnswers, LookupAnswers, DeleteAnswers DEF Next

(***************************************************************************)
(* Every step is one of the map, unless a value was spoilt.                *)
(***************************************************************************)
LEMMA StepIsMapStep ==
  ASSUME CacheInv, AnswersInv, Next
  PROVE  spoilt' \/ Map!MapNext \/ UNCHANGED Map!mvars
<1> DEFINE abs == [k \in Keys |-> IF stored[k] = Missing THEN Missing ELSE Content(stored[k])]
<1>1. stored \in [Keys -> Values \cup {Missing}] /\ Missing \notin Values
  BY CacheAssumption DEF CacheInv, TypeInv, ClientType
<1>2. ASSUME NEW c \in Goroutines, NEW k \in Keys, NEW v \in Values, Set(c, k, v)
      PROVE  Map!MapNext
  <2>1. stored' = [stored EXCEPT ![k] = v] /\ answer' = answer
    BY <1>2 DEF Set
  <2>2. abs' = [abs EXCEPT ![k] = Content(v)]
    BY <1>1, <2>1
  <2>3. Map!Put(k, Content(v))
    BY <2>1, <2>2 DEF Map!Put
  <2> QED
    BY <2>3 DEF Map!MapNext
<1>3. ASSUME NEW c \in Goroutines, NEW k \in Keys, Delete(c, k)
      PROVE  Map!MapNext
  <2>1. stored' = [stored EXCEPT ![k] = Missing] /\ answer' = answer
    BY <1>3 DEF Delete
  <2>2. abs' = [abs EXCEPT ![k] = Missing]
    BY <1>1, <2>1
  <2>3. Map!Remove(k)
    BY <2>1, <2>2 DEF Map!Remove
  <2> QED
    BY <2>3 DEF Map!MapNext
<1>4. ASSUME NEW k \in Keys, stored' = stored,
             answer' = [key |-> k, val |-> Missing] \/ answer' = [key |-> k, val |-> abs[k]]
      PROVE  Map!MapNext
  <2>1. Map!Lookup(k)
    BY <1>4 DEF Map!Lookup
  <2> QED
    BY <2>1 DEF Map!MapNext
<1>5. ASSUME NEW c \in Goroutines, NEW k \in Keys, Lookup(c, k) \/ GetClosed(c, k)
      PROVE  Map!MapNext \/ UNCHANGED Map!mvars
  <2>1. stored' = stored /\ (answer' = answer \/ answer' = [key |-> k, val |-> Missing])
    BY <1>5 DEF Lookup, GetClosed
  <2> QED
    BY <1>4, <2>1 DEF Map!mvars
<1>6. ASSUME NEW c \in Goroutines, Return(c)
      PROVE  spoilt' \/ Map!MapNext \/ UNCHANGED Map!mvars
  <2>1. stored' = stored /\ spoilt' = spoilt /\ pc[c] = "return" /\ loc[c].key \in Keys
    BY <1>6 DEF Return, CacheInv, TypeInv, ClientType
  <2>2. CASE closed
    BY <1>6, <2>1, <2>2 DEF Return, Map!mvars
  <2>3. CASE ~closed /\ ~spoilt
    <3>1. answer' = [key |-> loc[c].key, val |-> Bytes(mem, loc[c].val)]
      BY <1>6, <2>3 DEF Return
    <3>2. Holds(loc[c].val, stored[loc[c].key])
      BY <2>1, <2>3 DEF AnswersInv
    <3>3. abs[loc[c].key] = Bytes(mem, loc[c].val)
      BY <2>1, <3>2 DEF Holds
    <3> QED
      BY <1>4, <2>1, <3>1, <3>3
  <2> QED
    BY <2>1, <2>2, <2>3
<1>7. ASSUME NEW c \in Goroutines, Promote(c) \/ Close(c)
      PROVE  UNCHANGED Map!mvars
  BY <1>7 DEF Promote, Close, Map!mvars
<1> QED
  BY <1>2, <1>3, <1>5, <1>6, <1>7 DEF Next

(***************************************************************************)
(* Through rotations, promotions and Deletes a Get answers what was stored *)
(* last under its key, or a miss, as long as nobody else changes the cache *)
(* between a lookup and the use of its value, and no promotion is written  *)
(* over the value it promotes.                                             *)
(***************************************************************************)
THEOREM CacheImplementsMap == Spec => ImplementsMap
<1>1. Init => AnswersInv /\ Map!MapInit
  <2>1. Init => AnswersInv
    <3> SUFFICES ASSUME Init PROVE AnswersInv
      OBVIOUS
    <3>1. DOMAIN entries[1] = {} /\ DOMAIN entries[2] = {}
      BY DEF Init, Gen
    <3>2. \A g \in Goroutines : pc[g] = "idle"
      BY DEF Init
    <3> QED
      BY <3>1, <3>2 DEF AnswersInv, Visible
  <2>2. Init => Map!MapInit
    BY DEF Init, Map!MapInit
  <2> QED
    BY <2>1, <2>2
<1>2. CacheInv /\ AnswersInv /\ [Next]_cvars => AnswersInv'
  BY AnswersStep
<1>3. CacheInv /\ AnswersInv /\ [Next]_cvars => [spoilt' \/ Map!MapNext]_(Map!mvars)
  <2>1. UNCHANGED cvars => UNCHANGED Map!mvars
    BY DEF cvars, Map!mvars
  <2> QED
    BY <2>1, StepIsMapStep
<1> QED
  BY <1>1, <1>2, <1>3, CacheInvariant, PTL DEF Spec, ImplementsMap

----------------------------------------------------------------------------
(* One goroutine *)

(***************************************************************************)
(* No value is longer than a pair of a key and a value: what holds for     *)
(* values of one length, for instance.                                     *)
(***************************************************************************)
PairsOutweighValues ==
  \A k \in Keys, v, w \in Values : Length[v] <= Length[k] + Length[w]

(***************************************************************************)
(* An offset at which an entry may begin, with no goroutine at work: the   *)
(* start of the generation, or one behind the longest value.               *)
(***************************************************************************)
Clear(o) == o = 0 \/ \A v \in Values : Length[v] <= o

AValue(len) == \E v \in Values : len = Length[v]

ClearInv ==
  /\ \A h \in Gen : Clear(top[h])
  /\ \A h \in Gen : \A k \in DOMAIN entries[h] :
       Clear(entries[h][k].key.off) /\ AValue(entries[h][k].val.len)
  /\ \A g \in Goroutines : pc[g] \in {"promote", "return"} =>
       Clear(loc[g].val.off - Length[loc[g].key]) /\ AValue(loc[g].val.len)

(***************************************************************************)
(* A store leaves only such offsets behind.                                *)
(***************************************************************************)
LEMMA StoresKeepClear ==
  ASSUME PairsOutweighValues, CacheInv, ClearInv, NEW k, NEW len, NEW b, NEW n, NEW g, NEW o,
         Storing(k, len, b, n, g, o), AValue(len)
  PROVE  /\ \A h \in Gen : Clear(top'[h])
         /\ \A h \in Gen : \A j \in DOMAIN entries'[h] :
              Clear(entries'[h][j].key.off) /\ AValue(entries'[h][j].val.len)
<1>1. TypeInv
  BY DEF CacheInv
<1>2. EntriesAfter(k, len, n, g, o)
  BY <1>1, StoresEntries
<1>3. /\ k \in Keys /\ n \in Nat /\ n <= MaxGenBytes /\ g = Target(n) /\ o = ResetOffset(g, n)
      /\ n = Length[k] + len /\ Length[k] \in Nat /\ len \in Nat
  BY ContentType, CacheAssumption DEF Storing
<1>4. g \in Gen /\ o \in Nat /\ (o = 0 \/ o = top[g])
  BY <1>1, <1>3, TargetType
<1>5. Clear(o)
  BY <1>4 DEF ClearInv, Clear
<1>6. \A v \in Values : Length[v] \in Nat
  BY CacheAssumption
<1>7. Clear(o + n)
  BY <1>3, <1>4, <1>6 DEF Clear, AValue, PairsOutweighValues
<1>8. KeySlice(k, n).off = o /\ ValSlice(k, len, n).len = len
  BY <1>3 DEF KeySlice, ValSlice, Slice
<1>9. ASSUME NEW h \in Gen, NEW j \in DOMAIN entries'[h]
      PROVE  Clear(entries'[h][j].key.off) /\ AValue(entries'[h][j].val.len)
  <2>1. CASE h = g /\ j = k
    BY <1>2, <1>5, <1>8, <2>1 DEF EntriesAfter
  <2>2. CASE ~(h = g /\ j = k)
    <3>1. j \in DOMAIN entries[h] /\ entries'[h][j] = entries[h][j]
      BY <1>2, <2>2 DEF EntriesAfter
    <3> QED
      BY <3>1 DEF ClearInv
  <2> QED
    BY <2>1, <2>2
<1>10. \A h \in Gen : Clear(top'[h])
  BY <1>2, <1>7 DEF EntriesAfter, ClearInv
<1> QED
  BY <1>9, <1>10

(***************************************************************************)
(* So no promotion overwrites its own value, and with one goroutine there  *)
(* is nobody else to change the cache.                                     *)
(***************************************************************************)
LEMMA OneGoroutineStep ==
  ASSUME PairsOutweighValues, NEW c, Goroutines = {c},
         CacheInv, ClearInv, ~spoilt, [Next]_cvars
  PROVE  ClearInv' /\ ~spoilt'
<1>1. TypeInv /\ (pc[c] \in {"promote", "return"} => loc[c].key \in Keys /\ Inside(loc[c].val, loc[c].key))
  BY DEF CacheInv, TypeInv, ClientType
<1>2. /\ \A h \in Gen : \A k \in DOMAIN entries[h] :
           Clear(entries[h][k].key.off) /\ AValue(entries[h][k].val.len)
      /\ pc[c] \in {"promote", "return"} =>
           Clear(loc[c].val.off - Length[loc[c].key]) /\ AValue(loc[c].val.len)
  BY DEF ClearInv
<1>3. ~Underway(c)
  BY DEF Underway
<1>4. ASSUME NEW k \in Keys, NEW v \in Values, Set(c, k, v)
      PROVE  ClearInv' /\ ~spoilt'
  <2>1. pc[c] = "idle" /\ pc' = pc /\ ~spoilt'
    BY <1>3, <1>4 DEF Set, Changes
  <2>2. AValue(Length[v])
    BY DEF AValue
  <2> QED
    BY <1>4, <2>1, <2>2, SetIsStoring, StoresKeepClear DEF ClearInv
<1>5. ASSUME NEW k \in Keys, Lookup(c, k)
      PROVE  ClearInv' /\ ~spoilt'
  <2>1. UNCHANGED <<cache, spoilt>> /\ active \in Gen /\ Old \in Gen /\ DOMAIN loc = Goroutines
        /\ pc \in [Goroutines -> {"idle", "promote", "return", "fault"}]
    BY <1>5 DEF Lookup, CacheInv, TypeInv, ClientType, HeapType, Old, Gen
  <2>2. ASSUME NEW h \in Gen, k \in DOMAIN entries[h],
               loc' = [loc EXCEPT ![c] = [key |-> k, val |-> entries[h][k].val]]
        PROVE  Clear(loc'[c].val.off - Length[loc'[c].key]) /\ AValue(loc'[c].val.len)
    <3>1. /\ entries[h][k].key.off \in Nat /\ k \in Keys
          /\ entries[h][k].val.off = entries[h][k].key.off + Length[k]
      BY <1>1, <2>2, EntrySlices
    <3>2. Length[k] \in Nat
      BY CacheAssumption
    <3>3. entries[h][k].val.off - Length[k] = entries[h][k].key.off
      BY <3>1, <3>2
    <3>4. loc'[c].key = k /\ loc'[c].val = entries[h][k].val
      BY <2>1, <2>2
    <3> QED
      BY <1>2, <2>2, <3>3, <3>4
  <2>3. \/ pc' = pc /\ loc' = loc
        \/ Clear(loc'[c].val.off - Length[loc'[c].key]) /\ AValue(loc'[c].val.len)
    BY <1>5, <2>1, <2>2 DEF Lookup
  <2> QED
    BY <2>1, <2>3 DEF ClearInv, cache
<1>6. ASSUME Promote(c)
      PROVE  ClearInv' /\ ~spoilt'
  <2> DEFINE k == loc[c].key
             s == loc[c].val
  <2>1. pc[c] = "promote" /\ loc' = loc
    BY <1>6 DEF Promote
  <2>2. k \in Keys /\ Inside(s, k) /\ Clear(s.off - Length[k]) /\ AValue(s.len)
    BY <1>1, <1>2, <2>1
  <2>3. ~OverwritesItself(k, s)
    <3>1. Length[k] \in Nat /\ s.off \in Nat /\ s.len \in Nat
      BY <2>2, CacheAssumption DEF Inside
    <3>2. s.off - Length[k] = 0 \/ s.len <= s.off - Length[k]
      BY <2>2 DEF Clear, AValue
    <3>3. s.off = Length[k] \/ ~(s.off < Length[k] + s.len)
      BY <3>1, <3>2
    <3> QED
      BY <3>3 DEF OverwritesItself
  <2>4. spoilt' = spoilt
    BY <1>3, <1>6, <2>3 DEF Promote, CacheInv, TypeInv, ClientType
  <2>5. CASE closed
    BY <1>6, <2>1, <2>2, <2>4, <2>5 DEF Promote, cache, ClearInv
  <2>6. CASE ~closed
    <3>1. /\ \A h \in Gen : Clear(top'[h])
          /\ \A h \in Gen : \A j \in DOMAIN entries'[h] :
               Clear(entries'[h][j].key.off) /\ AValue(entries'[h][j].val.len)
      BY <1>6, <2>2, <2>6, PromoteIsStoring, StoresKeepClear
    <3> QED
      BY <2>1, <2>2, <2>4, <3>1 DEF ClearInv
  <2> QED
    BY <2>5, <2>6
<1>7. ASSUME NEW k \in Keys, GetClosed(c, k)
      PROVE  ClearInv' /\ ~spoilt'
  BY <1>7 DEF GetClosed, cache, ClearInv
<1>8. ASSUME Return(c)
      PROVE  ClearInv' /\ ~spoilt'
  <2>1. UNCHANGED <<cache, spoilt>> /\ pc'[c] \in {"idle", "fault"}
    BY <1>8 DEF Return, Goto, CacheInv, TypeInv, ClientType
  <2> QED
    BY <2>1 DEF cache, ClearInv
<1>9. ASSUME NEW k \in Keys, Delete(c, k)
      PROVE  ClearInv' /\ ~spoilt'
  <2>1. pc[c] = "idle" /\ pc' = pc /\ top' = top /\ ~spoilt'
    BY <1>3, <1>9 DEF Delete, Changes
  <2>2. \A h \in Gen : /\ DOMAIN entries'[h] = DOMAIN entries[h] \ {k}
                       /\ \A j \in DOMAIN entries'[h] : entries'[h][j] = entries[h][j]
    BY <1>9 DEF Delete, Restrict
  <2> QED
    BY <2>1, <2>2 DEF ClearInv
<1>10. ASSUME Close(c)
       PROVE  ClearInv' /\ ~spoilt'
  BY <1>3, <1>10 DEF Close, Changes, ClearInv
<1>11. CASE UNCHANGED cvars
  BY <1>11 DEF cvars, ClearInv
<1> QED
  BY <1>4, <1>5, <1>6, <1>7, <1>8, <1>9, <1>10, <1>11 DEF Next

(***************************************************************************)
(* A cache of one goroutine, where no value is longer than a whole pair,   *)
(* answers every Get as the tests of cache_test.go expect.  (For longer    *)
(* values it does not, see GetAnswersStored.)                              *)
(***************************************************************************)
THEOREM OneGoroutineReadsItsWrites ==
  ASSUME NEW c, Goroutines = {c}, PairsOutweighValues
  PROVE  Spec => GetAnswersStored
<1>1. Init => ClearInv /\ ~spoilt
  <2> SUFFICES ASSUME Init PROVE ClearInv /\ ~spoilt
    OBVIOUS
  <2>1. \A h \in Gen : DOMAIN entries[h] = {} /\ top[h] = 0
    BY DEF Init
  <2> QED
    BY <2>1 DEF Init, ClearInv, Clear
<1>2. CacheInv /\ (ClearInv /\ ~spoilt) /\ [Next]_cvars => (ClearInv /\ ~spoilt)'
  BY OneGoroutineStep
<1>3. (~spoilt)' /\ [spoilt' \/ Map!MapNext]_(Map!mvars) => [Map!MapNext]_(Map!mvars)
  OBVIOUS
<1> QED
  BY <1>1, <1>2, <1>3, CacheInvariant, CacheImplementsMap, PTL
     DEF Spec, ImplementsMap, GetAnswersStored, Map!MapSpec
=============================================================================

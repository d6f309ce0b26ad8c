--------------------------- MODULE KafkaFateProofs ---------------------------
(***************************************************************************)
(* Every message of the collection path has one fate, and the path is a    *)
(* Relay.  The argument is about boxes of messages: a step of an actor     *)
(* takes the first message of a box, puts it at the end of another or      *)
(* loses it; a crash empties boxes into the losses; a tell puts a message  *)
(* that was never told before.  Each of these keeps Fate.  That a message  *)
(* told is new needs OffersPast: earlier ones are of an earlier            *)
(* incarnation, or of a record the reader has passed.                      *)
(* From this follows what the path of one member never reorders, and how   *)
(* often restarts make it repeat itself.                                   *)
(***************************************************************************)
EXTENDS KafkaIngestProofs, FiniteSetTheorems

Filled == [Places -> Seq(Msg)]

-----------------------------------------------------------------------------
(* Boxes.                                                                  *)

\* The rest of a box holds what the box holds, but for the first.
LEMMA TailOf ==
    ASSUME NEW S, NEW s \in Seq(S), s # <<>>
    PROVE  /\ Head(s) \in S /\ Tail(s) \in Seq(S)
           /\ 1 \in DOMAIN s /\ Head(s) = s[1]
           /\ DOMAIN s \subseteq Nat /\ DOMAIN Tail(s) \subseteq Nat \ {0}
           /\ \A i \in DOMAIN Tail(s) : i + 1 \in DOMAIN s /\ Tail(s)[i] = s[i + 1]
           /\ \A i \in DOMAIN s : i = 1 \/ (i - 1 \in DOMAIN Tail(s) /\ Tail(s)[i - 1] = s[i])
  <1>1. /\ Head(s) \in S /\ Tail(s) \in Seq(S) /\ Len(Tail(s)) = Len(s) - 1
        /\ \A i \in 1 .. Len(Tail(s)) : Tail(s)[i] = s[i + 1]
        /\ Head(s) = s[1]
    BY HeadTailProperties
  <1>2. Len(s) \in Nat \ {0} /\ DOMAIN s = 1 .. Len(s) /\ DOMAIN Tail(s) = 1 .. Len(Tail(s))
    BY <1>1, EmptySeq, LenProperties
  <1> QED  BY <1>1, <1>2

LEMMA AppendTo ==
    ASSUME NEW S, NEW s \in Seq(S), NEW m \in S
    PROVE  /\ Append(s, m) \in Seq(S)
           /\ \A i \in DOMAIN s : i \in DOMAIN Append(s, m) /\ Append(s, m)[i] = s[i]
           /\ Len(s) + 1 \in DOMAIN Append(s, m) /\ Append(s, m)[Len(s) + 1] = m
           /\ \A i \in DOMAIN Append(s, m) : i \in DOMAIN s \/ i = Len(s) + 1
  <1>1. /\ Append(s, m) \in Seq(S) /\ Len(Append(s, m)) = Len(s) + 1
        /\ \A i \in 1 .. Len(s) : Append(s, m)[i] = s[i]
        /\ Append(s, m)[Len(s) + 1] = m
    BY AppendProperties
  <1>2. /\ Len(s) \in Nat /\ DOMAIN s = 1 .. Len(s)
        /\ DOMAIN Append(s, m) = 1 .. Len(Append(s, m))
    BY <1>1, LenProperties
  <1> QED  BY <1>1, <1>2

LEMMA EmptyBox == ASSUME NEW S PROVE <<>> \in Seq(S) /\ DOMAIN <<>> = {}
  <1>1. <<>> \in Seq(S) /\ Len(<<>>) = 0
    BY EmptySeq
  <1> QED  BY <1>1, LenProperties

LEMMA HeldMember ==
    ASSUME NEW b, NEW m
    PROVE  m \in HeldIn(b) <=> \E p \in Places : \E i \in DOMAIN b[p] : b[p][i] = m
  BY DEF HeldIn, Entries

\* Taken out of its box, a message is nowhere.
LEMMA FateTake ==
    ASSUME NEW b \in Filled, NEW ls, NEW os, Fate(b, ls, os),
           NEW p \in Places, b[p] # <<>>,
           NEW c \in Filled, c[p] = Tail(b[p]), \A q \in Places : q # p => c[q] = b[q]
    PROVE  LET m == Head(b[p])
           IN  m \in HeldIn(b) /\ m \in Msg /\ Fate(c, ls, os \ {m})
  <1> DEFINE m == Head(b[p])
  <1>1. b[p] \in Seq(Msg)
    BY DEF Filled
  <1>2. /\ m \in Msg /\ Tail(b[p]) \in Seq(Msg) /\ 1 \in DOMAIN b[p] /\ m = b[p][1]
        /\ DOMAIN b[p] \subseteq Nat /\ DOMAIN Tail(b[p]) \subseteq Nat \ {0}
        /\ \A i \in DOMAIN Tail(b[p]) :
             i + 1 \in DOMAIN b[p] /\ Tail(b[p])[i] = b[p][i + 1]
        /\ \A i \in DOMAIN b[p] :
             i = 1 \/ (i - 1 \in DOMAIN Tail(b[p]) /\ Tail(b[p])[i - 1] = b[p][i])
    BY <1>1, TailOf
  <1>3. c[p] = Tail(b[p]) /\ \A q \in Places : q # p => c[q] = b[q]
    OBVIOUS
  <1>4. \A q, r \in Places : \A i \in DOMAIN b[q], j \in DOMAIN b[r] :
          b[q][i] = b[r][j] => q = r /\ i = j
    BY DEF Fate
  <1> HIDE DEF m
  <1>5. ASSUME NEW q \in Places, NEW i \in DOMAIN c[q]
        PROVE  \E k \in DOMAIN b[q] :
                 /\ c[q][i] = b[q][k]
                 /\ (q = p /\ i \in Nat \ {0} /\ k = i + 1) \/ (q # p /\ k = i)
    <2>1. CASE q = p
      BY <1>2, <1>3, <1>5, <2>1
    <2>2. CASE q # p
      BY <1>3, <1>5, <2>2
    <2> QED  BY <2>1, <2>2
  <1>6. ASSUME NEW q \in Places, NEW r \in Places, NEW i \in DOMAIN c[q], NEW j \in DOMAIN c[r],
               c[q][i] = c[r][j]
        PROVE  q = r /\ i = j
    <2>1. PICK k \in DOMAIN b[q] : /\ c[q][i] = b[q][k]
                                   /\ (q = p /\ i \in Nat \ {0} /\ k = i + 1) \/ (q # p /\ k = i)
      BY <1>5
    <2>2. PICK l \in DOMAIN b[r] : /\ c[r][j] = b[r][l]
                                   /\ (r = p /\ j \in Nat \ {0} /\ l = j + 1) \/ (r # p /\ l = j)
      BY <1>5
    <2>3. b[q][k] = b[r][l]
      BY <1>6, <2>1, <2>2
    <2>4. q = r /\ k = l
      BY <1>4, <2>3
    <2> QED  BY <2>1, <2>2, <2>4
  <1>7. HeldIn(c) = HeldIn(b) \ {m}
    <2>1. ASSUME NEW x \in HeldIn(c) PROVE x \in HeldIn(b) /\ x # m
      <3>1. PICK q \in Places : \E i \in DOMAIN c[q] : c[q][i] = x
        BY HeldMember
      <3>2. PICK i \in DOMAIN c[q] : c[q][i] = x
        BY <3>1
      <3>3. PICK k \in DOMAIN b[q] : /\ x = b[q][k]
                                     /\ (q = p /\ i \in Nat \ {0} /\ k = i + 1) \/ (q # p /\ k = i)
        BY <1>5, <3>2
      <3>4. x # m
        BY <1>2, <1>4, <3>3
      <3> QED  BY <3>3, <3>4, HeldMember
    <2>2. ASSUME NEW x \in HeldIn(b), x # m PROVE x \in HeldIn(c)
      <3>1. PICK q \in Places : \E i \in DOMAIN b[q] : b[q][i] = x
        BY HeldMember
      <3>2. PICK i \in DOMAIN b[q] : b[q][i] = x
        BY <3>1
      <3>3. CASE q = p
        <4>1. i # 1
          BY <1>2, <2>2, <3>2, <3>3
        <4>2. i - 1 \in DOMAIN Tail(b[p]) /\ Tail(b[p])[i - 1] = x
          BY <1>2, <3>2, <3>3, <4>1
        <4> QED  BY <1>3, <3>3, <4>2, HeldMember
      <3>4. CASE q # p
        BY <1>3, <3>2, <3>4, HeldMember
      <3> QED  BY <3>3, <3>4
    <2> QED  BY <2>1, <2>2
  <1>8. m \in HeldIn(b)
    BY <1>2, HeldMember
  <1>9. Fate(c, ls, os \ {m})
    BY <1>6, <1>7, <1>8 DEF Fate
  <1> QED  BY <1>2, <1>8, <1>9 DEF m

\* A new message may be put anywhere.
LEMMA FatePut ==
    ASSUME NEW b \in Filled, NEW ls, NEW os, Fate(b, ls, os),
           NEW p \in Places, NEW m \in Msg, m \notin os,
           NEW c \in Filled, c[p] = Append(b[p], m), \A q \in Places : q # p => c[q] = b[q]
    PROVE  Fate(c, ls, os \cup {m})
  <1>1. b[p] \in Seq(Msg)
    BY DEF Filled
  <1>2. /\ Append(b[p], m) \in Seq(Msg)
        /\ \A i \in DOMAIN b[p] :
             i \in DOMAIN Append(b[p], m) /\ Append(b[p], m)[i] = b[p][i]
        /\ Len(b[p]) + 1 \in DOMAIN Append(b[p], m) /\ Append(b[p], m)[Len(b[p]) + 1] = m
        /\ \A i \in DOMAIN Append(b[p], m) : i \in DOMAIN b[p] \/ i = Len(b[p]) + 1
    BY <1>1, AppendTo
  <1>3. c[p] = Append(b[p], m) /\ \A q \in Places : q # p => c[q] = b[q]
    OBVIOUS
  <1>4. /\ \A q, r \in Places : \A i \in DOMAIN b[q], j \in DOMAIN b[r] :
             b[q][i] = b[r][j] => q = r /\ i = j
        /\ HeldIn(b) \subseteq os
    BY DEF Fate
  <1>5. ASSUME NEW q \in Places, NEW i \in DOMAIN c[q]
        PROVE  \/ i \in DOMAIN b[q] /\ c[q][i] = b[q][i] /\ c[q][i] # m
               \/ q = p /\ i = Len(b[p]) + 1 /\ c[q][i] = m
    <2>1. \A j \in DOMAIN b[q] : b[q][j] # m
      BY <1>4, HeldMember
    <2> QED  BY <1>2, <1>3, <1>5, <2>1
  <1>6. ASSUME NEW q \in Places, NEW r \in Places, NEW i \in DOMAIN c[q], NEW j \in DOMAIN c[r],
               c[q][i] = c[r][j]
        PROVE  q = r /\ i = j
    BY <1>4, <1>5, <1>6
  <1>7. HeldIn(c) = HeldIn(b) \cup {m}
    <2>1. ASSUME NEW x \in HeldIn(c) PROVE x \in HeldIn(b) \cup {m}
      BY <1>5, HeldMember
    <2>2. ASSUME NEW x \in HeldIn(b) PROVE x \in HeldIn(c)
      <3>1. PICK q \in Places : \E i \in DOMAIN b[q] : b[q][i] = x
        BY HeldMember
      <3>2. \E i \in DOMAIN c[q] : c[q][i] = x
        BY <1>2, <1>3, <3>1
      <3> QED  BY <3>2, HeldMember
    <2>3. m \in HeldIn(c)
      BY <1>2, <1>3, HeldMember
    <2> QED  BY <2>1, <2>2, <2>3
  <1>8. Fate(c, ls, os \cup {m})
    BY <1>6, <1>7 DEF Fate
  <1> QED  BY <1>8

\* A new message may be lost at once.
LEMMA FateLose ==
    ASSUME NEW b \in Filled, NEW ls, NEW os, Fate(b, ls, os),
           NEW m, Id(m) \notin os, NEW why
    PROVE  Fate(b, ls \cup {LostAs(m, why)}, os \cup {Id(m)})
  <1> DEFINE l == LostAs(m, why)
             new == ls \cup {l}
  <1>1. Id(l) = Id(m)
    BY DEF LostAs, Id
  <1> HIDE DEF l
  <1>2. /\ os = HeldIn(b) \cup {Id(k) : k \in ls}
        /\ \A k \in ls : Id(k) # Id(l) /\ Id(k) \notin HeldIn(b)
        /\ Id(l) \notin HeldIn(b)
    BY <1>1 DEF Fate
  <1>3. \A k, n \in new : Id(k) = Id(n) => k = n
    BY <1>2 DEF Fate
  <1>4. \A k \in new : Id(k) \notin HeldIn(b)
    BY <1>2
  <1>5. os \cup {Id(m)} = HeldIn(b) \cup {Id(k) : k \in new}
    BY <1>1, <1>2
  <1> QED  BY <1>3, <1>4, <1>5 DEF Fate, l

\* Boxes may be emptied into the losses, all for one reason.
LEMMA FateClear ==
    ASSUME NEW b \in Filled, NEW ls, NEW os, Fate(b, ls, os),
           NEW c \in Filled, NEW C \in SUBSET Places,
           \A p \in Places : c[p] = IF p \in C THEN <<>> ELSE b[p],
           NEW ms, {Id(m) : m \in ms} = UNION {Entries(b[p]) : p \in C}, NEW why
    PROVE  Fate(c, ls \cup AllLost(ms, why), os)
  <1> DEFINE new == AllLost(ms, why)
  <1>1. /\ \A p, q \in Places : \A i \in DOMAIN b[p], j \in DOMAIN b[q] :
             b[p][i] = b[q][j] => p = q /\ i = j
        /\ \A k, l \in ls : Id(k) = Id(l) => k = l
        /\ \A l \in ls : Id(l) \notin HeldIn(b)
        /\ os = HeldIn(b) \cup {Id(l) : l \in ls}
    BY DEF Fate
  <1>2. \A p \in Places : \A i \in DOMAIN c[p] :
          i \in DOMAIN b[p] /\ c[p][i] = b[p][i] /\ p \notin C
    BY EmptyBox
  <1>3. \A p, q \in Places : \A i \in DOMAIN c[p], j \in DOMAIN c[q] :
          c[p][i] = c[q][j] => p = q /\ i = j
    BY <1>1, <1>2
  <1>4. /\ \A l \in new : \E p \in C : \E i \in DOMAIN b[p] : b[p][i] = Id(l)
        /\ \A p \in C : \A i \in DOMAIN b[p] : \E l \in new : Id(l) = b[p][i]
    <2>1. \A m : Id(LostAs(m, why)) = Id(m)
      BY DEF LostAs, Id
    <2>2. /\ \A l \in new : \E m \in ms : Id(l) = Id(m)
          /\ \A m \in ms : \E l \in new : Id(l) = Id(m)
      BY <2>1 DEF AllLost
    <2> HIDE DEF new
    <2>3. ASSUME NEW l \in new PROVE \E p \in C : \E i \in DOMAIN b[p] : b[p][i] = Id(l)
      <3>1. Id(l) \in UNION {Entries(b[p]) : p \in C}
        BY <2>2
      <3>2. PICK p \in C : Id(l) \in Entries(b[p])
        BY <3>1
      <3> QED  BY <3>2 DEF Entries
    <2>4. ASSUME NEW p \in C, NEW i \in DOMAIN b[p] PROVE \E l \in new : Id(l) = b[p][i]
      <3>1. b[p][i] \in Entries(b[p])
        BY DEF Entries
      <3>2. b[p][i] \in {Id(m) : m \in ms}
        BY <3>1
      <3> QED  BY <2>2, <3>2
    <2> QED  BY <2>3, <2>4
  <1>5. \A k, l \in new : Id(k) = Id(l) => k = l
    BY DEF AllLost, LostAs, Id
  <1> HIDE DEF new
  <1>6. \A l \in new : Id(l) \in HeldIn(b) /\ Id(l) \notin HeldIn(c)
    BY <1>1, <1>2, <1>4, HeldMember
  <1>7. HeldIn(b) = HeldIn(c) \cup {Id(l) : l \in new}
    <2>1. ASSUME NEW x \in HeldIn(b) PROVE x \in HeldIn(c) \cup {Id(l) : l \in new}
      <3>1. PICK p \in Places : \E i \in DOMAIN b[p] : b[p][i] = x
        BY HeldMember
      <3>2. CASE p \in C
        BY <1>4, <3>1, <3>2
      <3>3. CASE p \notin C
        BY <3>1, <3>3, HeldMember
      <3> QED  BY <3>2, <3>3
    <2>2. HeldIn(c) \subseteq HeldIn(b)
      BY <1>2, HeldMember
    <2> QED  BY <1>6, <2>1, <2>2
  <1>8. \A k, l \in ls \cup new : Id(k) = Id(l) => k = l
    BY <1>1, <1>5, <1>6
  <1>9. \A l \in ls \cup new : Id(l) \notin HeldIn(c)
    BY <1>1, <1>6, <1>7
  <1>10. os = HeldIn(c) \cup {Id(l) : l \in ls \cup new}
    BY <1>1, <1>7
  <1> QED  BY <1>3, <1>8, <1>9, <1>10 DEF Fate, new

\* An actor moves the first message of a box on,
LEMMA FateMove ==
    ASSUME NEW b \in Filled, NEW ls, NEW os, Fate(b, ls, os),
           NEW p \in Places, b[p] # <<>>, NEW q \in Places,
           NEW t \in Filled, t[p] = Tail(b[p]), \A r \in Places : r # p => t[r] = b[r],
           NEW c \in Filled, c[q] = Append(t[q], Head(b[p])),
           \A r \in Places : r # q => c[r] = t[r]
    PROVE  Fate(c, ls, os)
  <1> DEFINE m == Head(b[p])
             others == os \ {m}
  <1>1. m \in HeldIn(b) /\ m \in Msg /\ Fate(t, ls, others)
    BY FateTake
  <1>2. c[q] = Append(t[q], m) /\ m \notin others
    OBVIOUS
  <1>3. others \cup {m} = os
    BY <1>1 DEF Fate
  <1> HIDE DEF m, others
  <1>4. Fate(c, ls, others \cup {m})
    BY <1>1, <1>2, FatePut
  <1> QED  BY <1>3, <1>4

\* or drops it.
LEMMA FateDrop ==
    ASSUME NEW b \in Filled, NEW ls, NEW os, Fate(b, ls, os),
           NEW p \in Places, b[p] # <<>>,
           NEW m, Id(m) = Head(b[p]), NEW why,
           NEW c \in Filled, c[p] = Tail(b[p]), \A r \in Places : r # p => c[r] = b[r]
    PROVE  Fate(c, ls \cup {LostAs(m, why)}, os)
  <1> DEFINE others == os \ {Id(m)}
  <1>1. Id(m) \in HeldIn(b) /\ Fate(c, ls, others)
    BY FateTake
  <1>2. Id(m) \notin others
    OBVIOUS
  <1>3. others \cup {Id(m)} = os
    BY <1>1 DEF Fate
  <1> HIDE DEF others
  <1>4. Fate(c, ls \cup {LostAs(m, why)}, others \cup {Id(m)})
    BY <1>1, <1>2, FateLose
  <1> QED  BY <1>3, <1>4

-----------------------------------------------------------------------------
(* The boxes of a state.                                                   *)

\* The boxes of given mailboxes k and i, producers s and topic o.
Box(k, i, s, o, p) == CASE p[1] = "kafka" -> Ids(k[p[2]])
                        [] p[1] = "input" -> Ids(i[p[2]])
                        [] p[1] = "send"  -> Ids(s[p[2]])
                        [] p[1] = "topic" -> Ids(o)
Layout(k, i, s, o) == [p \in Places |-> Box(k, i, s, o, p)]

LEMMA IdsOf ==
    ASSUME NEW S, \A m \in S : Id(m) \in Msg, NEW s \in Seq(S)
    PROVE  /\ Ids(s) \in Seq(Msg)
           /\ s # <<>> => /\ Ids(s) # <<>> /\ Head(Ids(s)) = Id(Head(s))
                          /\ Ids(Tail(s)) = Tail(Ids(s))
           /\ \A m \in S : Ids(Append(s, m)) = Append(Ids(s), Id(m))
  <1>1. /\ Len(s) \in Nat /\ DOMAIN s = 1 .. Len(s)
        /\ \A i \in 1 .. Len(s) : s[i] \in S
    BY LenProperties, ElementOfSeq
  <1>2. /\ Ids(s) \in [1 .. Len(s) -> Msg]
        /\ \A i \in 1 .. Len(s) : Ids(s)[i] = Id(s[i])
    BY <1>1 DEF Ids
  <1>3. Ids(s) \in Seq(Msg) /\ Len(Ids(s)) = Len(s)
    BY <1>1, <1>2
  <1>4. ASSUME s # <<>>
        PROVE  /\ Ids(s) # <<>> /\ Head(Ids(s)) = Id(Head(s))
               /\ Ids(Tail(s)) = Tail(Ids(s))
    <2>1. Len(s) \in Nat \ {0} /\ Ids(s) # <<>>
      BY <1>3, <1>4, EmptySeq
    <2>2. /\ Tail(s) \in Seq(S) /\ Len(Tail(s)) = Len(s) - 1 /\ Head(s) = s[1]
          /\ \A i \in 1 .. Len(Tail(s)) : Tail(s)[i] = s[i + 1]
      BY <1>4, HeadTailProperties
    <2>3. /\ Tail(Ids(s)) \in Seq(Msg) /\ Len(Tail(Ids(s))) = Len(s) - 1
          /\ Head(Ids(s)) = Ids(s)[1]
          /\ \A i \in 1 .. Len(Tail(Ids(s))) : Tail(Ids(s))[i] = Ids(s)[i + 1]
      BY <1>3, <2>1, HeadTailProperties
    <2>4. DOMAIN Tail(s) = 1 .. Len(s) - 1 /\ DOMAIN Tail(Ids(s)) = 1 .. Len(s) - 1
      BY <2>2, <2>3, LenProperties
    <2>5. /\ Tail(Ids(s)) \in [1 .. Len(s) - 1 -> Msg]
          /\ Ids(Tail(s)) = [i \in 1 .. Len(s) - 1 |-> Id(Tail(s)[i])]
      BY <2>3, <2>4, LenProperties DEF Ids
    <2>6. \A i \in 1 .. Len(s) - 1 : Tail(Ids(s))[i] = Id(Tail(s)[i])
      BY <1>2, <2>1, <2>2, <2>3
    <2>7. Ids(Tail(s)) = Tail(Ids(s))
      BY <2>5, <2>6
    <2> QED  BY <1>2, <2>1, <2>2, <2>3, <2>7
  <1>5. ASSUME NEW m \in S PROVE Ids(Append(s, m)) = Append(Ids(s), Id(m))
    <2>1. /\ Append(s, m) \in Seq(S) /\ Len(Append(s, m)) = Len(s) + 1
          /\ \A i \in 1 .. Len(s) : Append(s, m)[i] = s[i]
          /\ Append(s, m)[Len(s) + 1] = m
      BY AppendProperties
    <2>2. /\ Append(Ids(s), Id(m)) \in Seq(Msg) /\ Len(Append(Ids(s), Id(m))) = Len(s) + 1
          /\ \A i \in 1 .. Len(s) : Append(Ids(s), Id(m))[i] = Ids(s)[i]
          /\ Append(Ids(s), Id(m))[Len(s) + 1] = Id(m)
      BY <1>3, AppendProperties
    <2>3. /\ Append(Ids(s), Id(m)) \in [1 .. Len(s) + 1 -> Msg]
          /\ DOMAIN Append(s, m) = 1 .. Len(s) + 1
      BY <2>1, <2>2, LenProperties
    <2>4. \A i \in 1 .. Len(s) + 1 : Append(Ids(s), Id(m))[i] = Id(Append(s, m)[i])
      BY <1>1, <1>2, <2>1, <2>2
    <2> QED  BY <2>3, <2>4 DEF Ids
  <1> QED  BY <1>3, <1>4, <1>5

LEMMA IdMsg == /\ \A m \in Msg : Id(m) \in Msg /\ Id(m) = m
               /\ \A e \in Event : Id(e) \in Msg
  BY DEF Id, Msg, Event

LEMMA IdsEmpty == Ids(<<>>) = <<>>
  BY EmptyBox DEF Ids

LEMMA NodePlaces ==
    /\ \A n \in Nodes : <<"kafka", n>> \in Places /\ <<"input", n>> \in Places /\ <<"send", n>> \in Places
    /\ <<"topic", Home>> \in Places
  BY DEF Places

LEMMA BoxesLayout ==
    /\ Boxes = Layout(kmail, imail, pbuf, out)
    /\ Boxes' = Layout(kmail', imail', pbuf', out')
  BY DEF Boxes, Layout, Box, At, Places

LEMMA LayoutFilled ==
    ASSUME NEW k \in [Nodes -> Seq(Msg)], NEW i \in [Nodes -> Seq(Event)],
           NEW s \in [Nodes -> Seq(Event)], NEW o \in Seq(Event)
    PROVE  Layout(k, i, s, o) \in Filled
  <1>1. \A n \in Nodes : /\ Ids(k[n]) \in Seq(Msg) /\ Ids(i[n]) \in Seq(Msg)
                         /\ Ids(s[n]) \in Seq(Msg)
    BY IdMsg, IdsOf
  <1>2. Ids(o) \in Seq(Msg)
    BY IdMsg, IdsOf
  <1>3. \A p \in Places : Box(k, i, s, o, p) \in Seq(Msg)
    BY <1>1, <1>2 DEF Box, Places
  <1> QED  BY <1>3 DEF Layout, Filled

LEMMA BoxesAt ==
    ASSUME NEW n \in Nodes
    PROVE  /\ Boxes[<<"kafka", n>>] = Ids(kmail[n]) /\ Boxes'[<<"kafka", n>>] = Ids(kmail'[n])
           /\ Boxes[<<"input", n>>] = Ids(imail[n]) /\ Boxes'[<<"input", n>>] = Ids(imail'[n])
           /\ Boxes[<<"send", n>>] = Ids(pbuf[n]) /\ Boxes'[<<"send", n>>] = Ids(pbuf'[n])
           /\ Boxes[<<"topic", Home>>] = Ids(out) /\ Boxes'[<<"topic", Home>>] = Ids(out')
  BY DEF Boxes, At, Places

LEMMA BoxesFilled == (TypeOK => Boxes \in Filled) /\ (TypeOK' => Boxes' \in Filled)
  <1>1. ASSUME TypeOK PROVE Layout(kmail, imail, pbuf, out) \in Filled
    <2>1. /\ kmail \in [Nodes -> Seq(Msg)] /\ imail \in [Nodes -> Seq(Event)]
          /\ pbuf \in [Nodes -> Seq(Event)] /\ out \in Seq(Event)
      BY <1>1 DEF TypeOK
    <2> QED  BY <2>1, LayoutFilled
  <1>2. ASSUME TypeOK' PROVE Layout(kmail', imail', pbuf', out') \in Filled
    <2>1. /\ kmail' \in [Nodes -> Seq(Msg)] /\ imail' \in [Nodes -> Seq(Event)]
          /\ pbuf' \in [Nodes -> Seq(Event)] /\ out' \in Seq(Event)
      BY <1>2 DEF TypeOK
    <2> QED  BY <2>1, LayoutFilled
  <1> QED  BY <1>1, <1>2, BoxesLayout

\* What a change of one box leaves alone.
LEMMA ElsewhereKafka ==
    ASSUME NEW n \in Nodes, NEW k, NEW i, NEW s, NEW o,
           NEW k2, \A x \in Nodes : x # n => k2[x] = k[x]
    PROVE  \A q \in Places : q # <<"kafka", n>> => Layout(k2, i, s, o)[q] = Layout(k, i, s, o)[q]
  BY DEF Layout, Box, Places

LEMMA ElsewhereInput ==
    ASSUME NEW n \in Nodes, NEW k, NEW i, NEW s, NEW o,
           NEW i2, \A x \in Nodes : x # n => i2[x] = i[x]
    PROVE  \A q \in Places : q # <<"input", n>> => Layout(k, i2, s, o)[q] = Layout(k, i, s, o)[q]
  BY DEF Layout, Box, Places

LEMMA ElsewhereSend ==
    ASSUME NEW n \in Nodes, NEW k, NEW i, NEW s, NEW o,
           NEW s2, \A x \in Nodes : x # n => s2[x] = s[x]
    PROVE  \A q \in Places : q # <<"send", n>> => Layout(k, i, s2, o)[q] = Layout(k, i, s, o)[q]
  BY DEF Layout, Box, Places

LEMMA ElsewhereTopic ==
    ASSUME NEW k, NEW i, NEW s, NEW o, NEW o2
    PROVE  \A q \in Places : q # <<"topic", Home>> => Layout(k, i, s, o2)[q] = Layout(k, i, s, o)[q]
  BY DEF Layout, Box, Places

\* What a set of nodes holds, as boxes.
LEMMA EntriesOfIds ==
    ASSUME NEW S, NEW s \in Seq(S)
    PROVE  Entries(Ids(s)) = {Id(m) : m \in Entries(s)}
  BY DEF Entries, Ids

LEMMA HeldBoxes ==
    ASSUME TypeOK, NEW ns \in SUBSET Nodes
    PROVE  /\ {Id(m) : m \in MailOf(ns)} = UNION {Entries(Boxes[p]) : p \in {"kafka", "input"} \X ns}
           /\ {Id(m) : m \in BufferOf(ns)} = UNION {Entries(Boxes[p]) : p \in {"send"} \X ns}
  <1> DEFINE K(n) == Entries(Boxes[<<"kafka", n>>])
             I(n) == Entries(Boxes[<<"input", n>>])
             S(n) == Entries(Boxes[<<"send", n>>])
  <1>1. ASSUME NEW n \in ns
        PROVE  /\ K(n) = {Id(m) : m \in Entries(kmail[n])}
               /\ I(n) = {Id(m) : m \in Entries(imail[n])}
               /\ S(n) = {Id(m) : m \in Entries(pbuf[n])}
    <2>1. /\ Boxes[<<"kafka", n>>] = Ids(kmail[n])
          /\ Boxes[<<"input", n>>] = Ids(imail[n])
          /\ Boxes[<<"send", n>>] = Ids(pbuf[n])
      BY BoxesAt
    <2>2. /\ kmail[n] \in Seq(Msg) /\ imail[n] \in Seq(Event)
          /\ pbuf[n] \in Seq(Event)
      BY DEF TypeOK
    <2>3. Entries(Ids(kmail[n])) = {Id(m) : m \in Entries(kmail[n])}
      BY <2>2, EntriesOfIds
    <2>4. Entries(Ids(imail[n])) = {Id(m) : m \in Entries(imail[n])}
      BY <2>2, EntriesOfIds
    <2>5. Entries(Ids(pbuf[n])) = {Id(m) : m \in Entries(pbuf[n])}
      BY <2>2, EntriesOfIds
    <2> QED  BY <2>1, <2>3, <2>4, <2>5
  <1>2. {Id(m) : m \in MailOf(ns)} = UNION {K(n) \cup I(n) : n \in ns}
    <2>1. ASSUME NEW x
          PROVE  x \in {Id(m) : m \in MailOf(ns)} <=> \E n \in ns : x \in K(n) \/ x \in I(n)
      <3>1. x \in {Id(m) : m \in MailOf(ns)}
              <=> \E n \in ns : \/ x \in {Id(m) : m \in Entries(kmail[n])}
                                 \/ x \in {Id(m) : m \in Entries(imail[n])}
        BY DEF MailOf
      <3> HIDE DEF K, I
      <3> QED  BY <1>1, <3>1
    <2> HIDE DEF K, I
    <2> QED  BY <2>1
  <1>3. {Id(m) : m \in BufferOf(ns)} = UNION {S(n) : n \in ns}
    <2>1. ASSUME NEW x
          PROVE  x \in {Id(m) : m \in BufferOf(ns)} <=> \E n \in ns : x \in S(n)
      <3>1. x \in {Id(m) : m \in BufferOf(ns)}
              <=> \E n \in ns : x \in {Id(m) : m \in Entries(pbuf[n])}
        BY DEF BufferOf
      <3> HIDE DEF S
      <3> QED  BY <1>1, <3>1
    <2> HIDE DEF S
    <2> QED  BY <2>1
  <1>4. UNION {Entries(Boxes[p]) : p \in {"kafka", "input"} \X ns} = UNION {K(n) \cup I(n) : n \in ns}
    <2>1. ASSUME NEW p \in {"kafka", "input"} \X ns, NEW x \in Entries(Boxes[p])
          PROVE  \E n \in ns : x \in K(n) \cup I(n)
      <3>1. PICK n \in ns : p = <<"kafka", n>> \/ p = <<"input", n>>
        OBVIOUS
      <3> QED  BY <2>1, <3>1
    <2>2. ASSUME NEW n \in ns, NEW x \in K(n) \cup I(n)
          PROVE  \E p \in {"kafka", "input"} \X ns : x \in Entries(Boxes[p])
      <3>1. <<"kafka", n>> \in {"kafka", "input"} \X ns /\ <<"input", n>> \in {"kafka", "input"} \X ns
        OBVIOUS
      <3> QED  BY <2>2, <3>1
    <2> HIDE DEF K, I
    <2> QED  BY <2>1, <2>2
  <1>5. UNION {Entries(Boxes[p]) : p \in {"send"} \X ns} = UNION {S(n) : n \in ns}
    <2>1. ASSUME NEW p \in {"send"} \X ns, NEW x \in Entries(Boxes[p])
          PROVE  \E n \in ns : x \in S(n)
      <3>1. PICK n \in ns : p = <<"send", n>>
        OBVIOUS
      <3> QED  BY <2>1, <3>1
    <2>2. ASSUME NEW n \in ns, NEW x \in S(n)
          PROVE  \E p \in {"send"} \X ns : x \in Entries(Boxes[p])
      <3>1. <<"send", n>> \in {"send"} \X ns
        OBVIOUS
      <3> QED  BY <2>2, <3>1
    <2> HIDE DEF S
    <2> QED  BY <2>1, <2>2
  <1> QED  BY <1>2, <1>3, <1>4, <1>5

-----------------------------------------------------------------------------
(* Steps.                                                                  *)

\* A message told before is of an earlier stream, or of a record behind the reader.
OffersPast == \A m \in offers : m.inc < inc \/ (m.inc = inc /\ m.off <= told)

FateInv == TypeOK /\ OneFate /\ OffersPast

LEMMA PastInit == Init => OffersPast
  BY DEF Init, OffersPast

LEMMA PastNext == TypeOK /\ OffersPast /\ [Next]_vars => OffersPast'
  <1> SUFFICES ASSUME TypeOK, OffersPast, [Next]_vars PROVE OffersPast'
    OBVIOUS
  <1>1. told \in Nat /\ inc \in Nat /\ \A m \in offers : m.inc \in Nat /\ m.off \in Nat
    BY CountAssumption DEF TypeOK, Msg
  <1>2. CASE Tell
    BY <1>1, <1>2 DEF Tell, OffersPast
  <1>3. CASE HomeStart
    BY <1>1, <1>3 DEF HomeStart, OffersPast, fate_vars
  <1>4. CASE UNCHANGED <<told, inc, offers>>
    BY <1>4 DEF OffersPast
  <1>5. ~Tell /\ ~HomeStart => UNCHANGED <<told, inc, offers>>
    BY DEF Next, vars, stream_vars, mail_vars, view_vars, file_vars, fate_vars, Produce,
       Commit, CommitFails, HomeCrash, AddKafkaRoutee, AddInputRoutee, Crash,
       DropKafkaRoutee, DropInputRoutee, Rejoin, Load, LoadFails, WorkKafka, WorkInput,
       Flush, FlushFails, EditFile
  <1> QED  BY <1>2, <1>3, <1>4, <1>5

LEMMA FateInit == Init => OneFate
  <1> SUFFICES ASSUME Init PROVE Fate(Boxes, lost, offers)
    BY DEF OneFate
  <1>1. \A p \in Places : Boxes[p] = <<>>
    BY IdsEmpty DEF Init, Boxes, At, Places
  <1>2. lost = {} /\ offers = {}
    BY DEF Init
  <1>3. HeldIn(Boxes) = {}
    BY <1>1, EmptyBox DEF HeldIn, Entries
  <1> QED  BY <1>1, <1>2, <1>3, EmptyBox DEF Fate

\* A tell through a router: told is new.
LEMMA FateTell == FateInv /\ TypeOK' /\ Tell => OneFate'
  <1> SUFFICES ASSUME FateInv, TypeOK', Tell PROVE Fate(Boxes', lost', offers')
    BY DEF OneFate
  <1> DEFINE m == [off |-> told + 1, inc |-> inc]
  <1>1. m \in Msg /\ Id(m) = m /\ m \notin offers
    <2>1. m \in Msg
      BY CountAssumption DEF Tell, MayTell, FateInv, TypeOK, Msg
    <2>2. told \in Nat /\ inc \in Nat
      BY DEF FateInv, TypeOK
    <2>3. \A x \in offers : x.inc < inc \/ x.off <= told
      BY DEF FateInv, OffersPast
    <2>4. m \notin offers
      BY <2>2, <2>3
    <2> HIDE DEF m
    <2> QED  BY <2>1, <2>4, IdMsg
  <1>2. /\ ToRoutee(kview, kmail, kmail', m) /\ offers' = offers \cup {m}
        /\ UNCHANGED <<imail, pbuf, out>>
    BY DEF Tell
  <1> HIDE DEF m
  <1>3. Boxes \in Filled /\ Boxes' \in Filled /\ Fate(Boxes, lost, offers)
    BY BoxesFilled DEF FateInv, OneFate
  <1>4. ASSUME NEW why, kmail' = kmail, lost' = lost \cup {LostAs(m, why)}
        PROVE  Fate(Boxes', lost', offers')
    <2>1. Boxes' = Boxes
      BY <1>2, <1>4, BoxesLayout
    <2>2. Fate(Boxes, lost \cup {LostAs(m, why)}, offers \cup {Id(m)})
      BY <1>1, <1>3, FateLose
    <2> QED  BY <1>1, <1>2, <1>4, <2>1, <2>2
  <1>5. ASSUME NEW n \in Nodes, kmail' = [kmail EXCEPT ![n] = Append(@, m)], lost' = lost
        PROVE  Fate(Boxes', lost', offers')
    <2> DEFINE p == <<"kafka", n>>
    <2>1. kmail \in [Nodes -> Seq(Msg)]
      BY DEF FateInv, TypeOK
    <2>2. kmail'[n] = Append(kmail[n], m) /\ \A x \in Nodes : x # n => kmail'[x] = kmail[x]
      BY <1>5, <2>1
    <2>3. Boxes'[p] = Append(Boxes[p], m)
      <3>1. Boxes'[p] = Ids(kmail'[n]) /\ Boxes[p] = Ids(kmail[n])
        BY BoxesAt
      <3>2. Ids(Append(kmail[n], m)) = Append(Ids(kmail[n]), Id(m))
        BY <1>1, <2>1, IdMsg, IdsOf
      <3> QED  BY <1>1, <2>2, <3>1, <3>2
    <2>4. \A q \in Places : q # p => Boxes'[q] = Boxes[q]
      <3>1. \A q \in Places : q # p =>
              Layout(kmail', imail, pbuf, out)[q] = Layout(kmail, imail, pbuf, out)[q]
        BY <2>2, ElsewhereKafka
      <3> QED  BY <1>2, <3>1, BoxesLayout
    <2>5. p \in Places
      BY NodePlaces
    <2> HIDE DEF p
    <2>6. Fate(Boxes', lost, offers \cup {m})
      BY <1>1, <1>3, <2>3, <2>4, <2>5, FatePut
    <2> QED  BY <1>2, <1>5, <2>6
  <1> QED  BY <1>2, <1>4, <1>5 DEF ToRoutee, FateInv, TypeOK

\* What taking the first message of a box, or adding one, does to its ids.
LEMMA TakeIds ==
    ASSUME NEW S \in {Msg, Event}, NEW box \in [Nodes -> Seq(S)], NEW n \in Nodes, box[n] # <<>>
    PROVE  /\ Ids(box[n]) # <<>> /\ Head(Ids(box[n])) = Id(Head(box[n])) /\ Head(box[n]) \in S
           /\ Ids(Tail(box[n])) = Tail(Ids(box[n]))
  <1>1. box[n] \in Seq(S) /\ \A m \in S : Id(m) \in Msg
    BY IdMsg
  <1>2. Head(box[n]) \in S
    BY <1>1, HeadTailProperties
  <1> QED  BY <1>1, <1>2, IdsOf

LEMMA PutIds ==
    ASSUME NEW S \in {Msg, Event}, NEW s \in Seq(S), NEW m \in S
    PROVE  Ids(Append(s, m)) = Append(Ids(s), Id(m))
  <1>1. \A x \in S : Id(x) \in Msg
    BY IdMsg
  <1> QED  BY <1>1, IdsOf

LEMMA FateWorkInput == ASSUME FateInv, TypeOK', NEW n \in Nodes, WorkInput(n) PROVE OneFate'
  <1> DEFINE p == <<"input", n>>
             q == <<"send", n>>
             t == Layout(kmail, imail', pbuf, out)
  <1>1. /\ kmail \in [Nodes -> Seq(Msg)] /\ imail \in [Nodes -> Seq(Event)]
        /\ pbuf \in [Nodes -> Seq(Event)] /\ out \in Seq(Event)
        /\ imail' \in [Nodes -> Seq(Event)]
    BY DEF FateInv, TypeOK
  <1>2. /\ imail[n] # <<>> /\ imail' = [imail EXCEPT ![n] = Tail(@)]
        /\ pbuf' = [pbuf EXCEPT ![n] = Append(@, Head(imail[n]))]
        /\ UNCHANGED <<kmail, out, offers, lost>>
    BY DEF WorkInput, fate_vars
  <1>3. /\ Ids(imail[n]) # <<>> /\ Head(Ids(imail[n])) = Id(Head(imail[n])) /\ Head(imail[n]) \in Event
        /\ Ids(imail'[n]) = Tail(Ids(imail[n])) /\ \A x \in Nodes : x # n => imail'[x] = imail[x]
    <2>1. imail'[n] = Tail(imail[n]) /\ \A x \in Nodes : x # n => imail'[x] = imail[x]
      BY <1>1, <1>2
    <2>2. /\ Ids(imail[n]) # <<>> /\ Head(Ids(imail[n])) = Id(Head(imail[n])) /\ Head(imail[n]) \in Event
          /\ Ids(Tail(imail[n])) = Tail(Ids(imail[n]))
      BY <1>1, <1>2, TakeIds
    <2> QED  BY <2>1, <2>2
  <1>4. /\ Ids(pbuf'[n]) = Append(Ids(pbuf[n]), Id(Head(imail[n])))
        /\ \A x \in Nodes : x # n => pbuf'[x] = pbuf[x]
    <2>1. pbuf'[n] = Append(pbuf[n], Head(imail[n])) /\ \A x \in Nodes : x # n => pbuf'[x] = pbuf[x]
      BY <1>1, <1>2
    <2>2. Ids(Append(pbuf[n], Head(imail[n]))) = Append(Ids(pbuf[n]), Id(Head(imail[n])))
      BY <1>1, <1>3, PutIds
    <2> QED  BY <2>1, <2>2
  <1>5. /\ Boxes \in Filled /\ Boxes' \in Filled /\ t \in Filled /\ Fate(Boxes, lost, offers)
    BY <1>1, BoxesFilled, LayoutFilled DEF FateInv, OneFate
  <1>6. /\ Boxes[p] # <<>> /\ t[p] = Tail(Boxes[p])
        /\ Boxes'[q] = Append(t[q], Head(Boxes[p]))
    <2>1. Boxes[p] = Ids(imail[n]) /\ Boxes'[q] = Ids(pbuf'[n])
      BY BoxesAt
    <2>2. t[p] = Ids(imail'[n]) /\ t[q] = Ids(pbuf[n])
      BY DEF Layout, Box, Places
    <2> QED  BY <1>3, <1>4, <2>1, <2>2
  <1>7. \A r \in Places : r # p => t[r] = Boxes[r]
    BY <1>3, ElsewhereInput, BoxesLayout
  <1>8. \A r \in Places : r # q => Boxes'[r] = t[r]
    <2>1. Boxes' = Layout(kmail, imail', pbuf', out)
      BY <1>2, BoxesLayout
    <2> QED  BY <1>4, <2>1, ElsewhereSend
  <1>9. p \in Places /\ q \in Places
    BY NodePlaces
  <1> HIDE DEF p, q, t
  <1>10. Fate(Boxes', lost, offers)
    BY <1>5, <1>6, <1>7, <1>8, <1>9, FateMove
  <1> QED  BY <1>2, <1>10 DEF OneFate

LEMMA FateFlush == ASSUME FateInv, TypeOK', NEW n \in Nodes, Flush(n) PROVE OneFate'
  <1> DEFINE p == <<"send", n>>
             q == <<"topic", Home>>
             t == Layout(kmail, imail, pbuf', out)
  <1>1. /\ kmail \in [Nodes -> Seq(Msg)] /\ imail \in [Nodes -> Seq(Event)]
        /\ pbuf \in [Nodes -> Seq(Event)] /\ out \in Seq(Event)
        /\ pbuf' \in [Nodes -> Seq(Event)]
    BY DEF FateInv, TypeOK
  <1>2. /\ pbuf[n] # <<>> /\ pbuf' = [pbuf EXCEPT ![n] = Tail(@)]
        /\ out' = Append(out, Head(pbuf[n]))
        /\ UNCHANGED <<kmail, imail, offers, lost>>
    BY DEF Flush
  <1>3. /\ Ids(pbuf[n]) # <<>> /\ Head(Ids(pbuf[n])) = Id(Head(pbuf[n])) /\ Head(pbuf[n]) \in Event
        /\ Ids(pbuf'[n]) = Tail(Ids(pbuf[n])) /\ \A x \in Nodes : x # n => pbuf'[x] = pbuf[x]
    <2>1. pbuf'[n] = Tail(pbuf[n]) /\ \A x \in Nodes : x # n => pbuf'[x] = pbuf[x]
      BY <1>1, <1>2
    <2>2. /\ Ids(pbuf[n]) # <<>> /\ Head(Ids(pbuf[n])) = Id(Head(pbuf[n])) /\ Head(pbuf[n]) \in Event
          /\ Ids(Tail(pbuf[n])) = Tail(Ids(pbuf[n]))
      BY <1>1, <1>2, TakeIds
    <2> QED  BY <2>1, <2>2
  <1>4. Ids(out') = Append(Ids(out), Id(Head(pbuf[n])))
    BY <1>1, <1>2, <1>3, PutIds
  <1>5. /\ Boxes \in Filled /\ Boxes' \in Filled /\ t \in Filled /\ Fate(Boxes, lost, offers)
    BY <1>1, BoxesFilled, LayoutFilled DEF FateInv, OneFate
  <1>6. /\ Boxes[p] # <<>> /\ t[p] = Tail(Boxes[p])
        /\ Boxes'[q] = Append(t[q], Head(Boxes[p]))
    <2>1. Boxes[p] = Ids(pbuf[n]) /\ Boxes'[q] = Ids(out')
      BY BoxesAt
    <2>2. t[p] = Ids(pbuf'[n]) /\ t[q] = Ids(out)
      BY DEF Layout, Box, Places
    <2> QED  BY <1>3, <1>4, <2>1, <2>2
  <1>7. \A r \in Places : r # p => t[r] = Boxes[r]
    BY <1>3, ElsewhereSend, BoxesLayout
  <1>8. \A r \in Places : r # q => Boxes'[r] = t[r]
    <2>1. Boxes' = Layout(kmail, imail, pbuf', out')
      BY <1>2, BoxesLayout
    <2> QED  BY <2>1, ElsewhereTopic
  <1>9. p \in Places /\ q \in Places
    BY NodePlaces
  <1> HIDE DEF p, q, t
  <1>10. Fate(Boxes', lost, offers)
    BY <1>5, <1>6, <1>7, <1>8, <1>9, FateMove
  <1> QED  BY <1>2, <1>10 DEF OneFate

LEMMA FateFlushFails == ASSUME FateInv, TypeOK', NEW n \in Nodes, FlushFails(n) PROVE OneFate'
  <1> DEFINE p == <<"send", n>>
             m == Head(pbuf[n])
  <1>1. pbuf \in [Nodes -> Seq(Event)]
    BY DEF FateInv, TypeOK
  <1>2. /\ pbuf[n] # <<>> /\ pbuf' = [pbuf EXCEPT ![n] = Tail(@)]
        /\ lost' = lost \cup {LostAs(m, "send_failed")}
        /\ UNCHANGED <<kmail, imail, out, offers>>
    BY DEF FlushFails
  <1>3. /\ Ids(pbuf[n]) # <<>> /\ Head(Ids(pbuf[n])) = Id(Head(pbuf[n])) /\ Head(pbuf[n]) \in Event
        /\ Ids(pbuf'[n]) = Tail(Ids(pbuf[n])) /\ \A x \in Nodes : x # n => pbuf'[x] = pbuf[x]
    <2>1. pbuf'[n] = Tail(pbuf[n]) /\ \A x \in Nodes : x # n => pbuf'[x] = pbuf[x]
      BY <1>1, <1>2
    <2>2. /\ Ids(pbuf[n]) # <<>> /\ Head(Ids(pbuf[n])) = Id(Head(pbuf[n])) /\ Head(pbuf[n]) \in Event
          /\ Ids(Tail(pbuf[n])) = Tail(Ids(pbuf[n]))
      BY <1>1, <1>2, TakeIds
    <2> QED  BY <2>1, <2>2
  <1>4. /\ Boxes \in Filled /\ Boxes' \in Filled /\ Fate(Boxes, lost, offers)
    BY BoxesFilled DEF FateInv, OneFate
  <1>5. Boxes[p] # <<>> /\ Head(Boxes[p]) = Id(m) /\ Boxes'[p] = Tail(Boxes[p])
    <2>1. Boxes[p] = Ids(pbuf[n]) /\ Boxes'[p] = Ids(pbuf'[n])
      BY BoxesAt
    <2> QED  BY <1>3, <2>1
  <1>6. \A r \in Places : r # p => Boxes'[r] = Boxes[r]
    <2>1. Boxes' = Layout(kmail, imail, pbuf', out)
      BY <1>2, BoxesLayout
    <2>2. \A r \in Places : r # p =>
            Layout(kmail, imail, pbuf', out)[r] = Layout(kmail, imail, pbuf, out)[r]
      BY <1>3, ElsewhereSend
    <2> QED  BY <2>1, <2>2, BoxesLayout
  <1>7. p \in Places
    BY NodePlaces
  <1> HIDE DEF p, m
  <1>8. Fate(Boxes', lost \cup {LostAs(m, "send_failed")}, offers)
    BY <1>4, <1>5, <1>6, <1>7, FateDrop
  <1> QED  BY <1>2, <1>8 DEF OneFate

LEMMA FateWorkKafka == ASSUME FateInv, TypeOK', NEW n \in Nodes, WorkKafka(n) PROVE OneFate'
  <1> DEFINE p == <<"kafka", n>>
             m == Head(kmail[n])
             c == ClusterOf[m.off]
             e == [off |-> m.off, inc |-> m.inc, to |-> ports[n][c]]
             t == Layout(kmail', imail, pbuf, out)
  <1>1. /\ kmail \in [Nodes -> Seq(Msg)] /\ imail \in [Nodes -> Seq(Event)]
        /\ pbuf \in [Nodes -> Seq(Event)] /\ out \in Seq(Event)
        /\ kmail' \in [Nodes -> Seq(Msg)]
    BY DEF FateInv, TypeOK
  <1>2. /\ kmail[n] # <<>> /\ kmail' = [kmail EXCEPT ![n] = Tail(@)]
        /\ UNCHANGED <<pbuf, out, offers>>
    BY DEF WorkKafka
  <1>3. /\ Ids(kmail[n]) # <<>> /\ Head(Ids(kmail[n])) = Id(m) /\ m \in Msg
        /\ Ids(kmail'[n]) = Tail(Ids(kmail[n])) /\ \A x \in Nodes : x # n => kmail'[x] = kmail[x]
    <2>1. kmail'[n] = Tail(kmail[n]) /\ \A x \in Nodes : x # n => kmail'[x] = kmail[x]
      BY <1>1, <1>2
    <2>2. /\ Ids(kmail[n]) # <<>> /\ Head(Ids(kmail[n])) = Id(m) /\ m \in Msg
          /\ Ids(Tail(kmail[n])) = Tail(Ids(kmail[n]))
      BY <1>1, <1>2, TakeIds
    <2> QED  BY <2>1, <2>2
  <1>4. /\ Boxes \in Filled /\ Boxes' \in Filled /\ t \in Filled /\ Fate(Boxes, lost, offers)
    BY <1>1, BoxesFilled, LayoutFilled DEF FateInv, OneFate
  <1>5. Boxes[p] # <<>> /\ Head(Boxes[p]) = Id(m) /\ t[p] = Tail(Boxes[p])
    <2>1. Boxes[p] = Ids(kmail[n])
      BY BoxesAt
    <2>2. t[p] = Ids(kmail'[n])
      BY DEF Layout, Box, Places
    <2> QED  BY <1>3, <2>1, <2>2
  <1>6. \A r \in Places : r # p => t[r] = Boxes[r]
    BY <1>3, ElsewhereKafka, BoxesLayout
  <1>7. p \in Places
    BY NodePlaces
  <1>8. Id(e) = Id(m)
    BY DEF Id
  <1>9. \/ UNCHANGED imail /\ \E why : lost' = lost \cup {LostAs(m, why)}
        \/ e \in Event /\ ToRoutee(iview, imail, imail', e)
    <2>1. Forwardable(ports[n][c]) => e \in Event
      BY <1>3 DEF Forwardable, Msg, Event
    <2> QED  BY <2>1 DEF WorkKafka
  <1>10. ASSUME NEW x, Id(x) = Id(m), NEW why, UNCHANGED imail, lost' = lost \cup {LostAs(x, why)}
         PROVE  OneFate'
    <2>1. Boxes' = t
      BY <1>2, <1>10, BoxesLayout
    <2> HIDE DEF p, m, c, e, t
    <2>2. Fate(t, lost \cup {LostAs(x, why)}, offers)
      BY <1>4, <1>5, <1>6, <1>7, <1>10, FateDrop
    <2> QED  BY <1>2, <1>10, <2>1, <2>2 DEF OneFate
  <1>11. ASSUME e \in Event, NEW w \in Nodes, imail' = [imail EXCEPT ![w] = Append(@, e)],
                UNCHANGED lost
         PROVE  OneFate'
    <2> DEFINE q == <<"input", w>>
    <2> HIDE DEF m, c, e
    <2>1. Ids(imail'[w]) = Append(Ids(imail[w]), Id(m)) /\ \A x \in Nodes : x # w => imail'[x] = imail[x]
      <3>1. imail'[w] = Append(imail[w], e) /\ \A x \in Nodes : x # w => imail'[x] = imail[x]
        BY <1>1, <1>11
      <3>2. Ids(Append(imail[w], e)) = Append(Ids(imail[w]), Id(e))
        BY <1>1, <1>11, PutIds
      <3> QED  BY <1>8, <3>1, <3>2
    <2>2. Boxes'[q] = Append(t[q], Head(Boxes[p]))
      <3>1. Boxes'[q] = Ids(imail'[w])
        BY BoxesAt
      <3>2. t[q] = Ids(imail[w])
        BY DEF Layout, Box, Places
      <3> QED  BY <1>5, <2>1, <3>1, <3>2
    <2>3. \A r \in Places : r # q => Boxes'[r] = t[r]
      <3>1. Boxes' = Layout(kmail', imail', pbuf, out)
        BY <1>2, BoxesLayout
      <3>2. \A r \in Places : r # q =>
              Layout(kmail', imail', pbuf, out)[r] = Layout(kmail', imail, pbuf, out)[r]
        BY <2>1, ElsewhereInput
      <3> QED  BY <3>1, <3>2
    <2>4. q \in Places
      BY NodePlaces
    <2> HIDE DEF p, q, t
    <2>5. Fate(Boxes', lost, offers)
      BY <1>4, <1>5, <1>6, <1>7, <2>2, <2>3, <2>4, FateMove
    <2> QED  BY <1>2, <1>11, <2>5 DEF OneFate
  <1>12. ASSUME e \in Event, ToRoutee(iview, imail, imail', e) PROVE OneFate'
    <2>1. iview \subseteq Nodes
      BY DEF FateInv, TypeOK
    <2> QED  BY <1>8, <1>10, <1>11, <1>12, <2>1 DEF ToRoutee
  <1> QED  BY <1>9, <1>10, <1>12

\* A process that dies empties its boxes into the losses.
LEMMA FateDies ==
    ASSUME FateInv, TypeOK', NEW n \in Nodes,
           kmail' = [kmail EXCEPT ![n] = <<>>], imail' = [imail EXCEPT ![n] = <<>>],
           pbuf' = [pbuf EXCEPT ![n] = <<>>], UNCHANGED <<out, offers>>,
           lost' = lost \cup AllLost(MailOf({n}) \cup BufferOf({n}), "crashed")
    PROVE  OneFate'
  <1> DEFINE C  == {"kafka", "input", "send"} \X {n}
             ms == MailOf({n}) \cup BufferOf({n})
  <1>1. /\ Boxes \in Filled /\ Boxes' \in Filled /\ Fate(Boxes, lost, offers)
    BY BoxesFilled DEF FateInv, OneFate
  <1>2. ASSUME NEW p \in Places PROVE Boxes'[p] = IF p \in C THEN <<>> ELSE Boxes[p]
    <2>1. /\ kmail \in [Nodes -> Seq(Msg)] /\ imail \in [Nodes -> Seq(Event)]
          /\ pbuf \in [Nodes -> Seq(Event)]
      BY DEF FateInv, TypeOK
    <2>2. \A x \in Nodes : /\ kmail'[x] = IF x = n THEN <<>> ELSE kmail[x]
                           /\ imail'[x] = IF x = n THEN <<>> ELSE imail[x]
                           /\ pbuf'[x] = IF x = n THEN <<>> ELSE pbuf[x]
      BY <2>1
    <2>3. CASE p = <<"topic", Home>>
      <3>1. Boxes'[p] = Boxes[p]
        BY <2>3 DEF Boxes, At
      <3> QED  BY <2>3, <3>1
    <2>4. ASSUME NEW x \in Nodes, p = <<"kafka", x>>
          PROVE  Boxes'[p] = IF p \in C THEN <<>> ELSE Boxes[p]
      <3>1. Boxes'[p] = Ids(kmail'[x]) /\ Boxes[p] = Ids(kmail[x]) /\ (p \in C <=> x = n)
        BY <2>4, BoxesAt
      <3> QED  BY <2>2, <3>1, IdsEmpty
    <2>5. ASSUME NEW x \in Nodes, p = <<"input", x>>
          PROVE  Boxes'[p] = IF p \in C THEN <<>> ELSE Boxes[p]
      <3>1. Boxes'[p] = Ids(imail'[x]) /\ Boxes[p] = Ids(imail[x]) /\ (p \in C <=> x = n)
        BY <2>5, BoxesAt
      <3> QED  BY <2>2, <3>1, IdsEmpty
    <2>6. ASSUME NEW x \in Nodes, p = <<"send", x>>
          PROVE  Boxes'[p] = IF p \in C THEN <<>> ELSE Boxes[p]
      <3>1. Boxes'[p] = Ids(pbuf'[x]) /\ Boxes[p] = Ids(pbuf[x]) /\ (p \in C <=> x = n)
        BY <2>6, BoxesAt
      <3> QED  BY <2>2, <3>1, IdsEmpty
    <2> QED  BY <2>3, <2>4, <2>5, <2>6 DEF Places
  <1>3. {Id(m) : m \in ms} = UNION {Entries(Boxes[p]) : p \in C}
    <2> DEFINE D == {"kafka", "input"} \X {n}
               E == {"send"} \X {n}
    <2>1. /\ {Id(m) : m \in MailOf({n})} = UNION {Entries(Boxes[p]) : p \in D}
          /\ {Id(m) : m \in BufferOf({n})} = UNION {Entries(Boxes[p]) : p \in E}
      BY HeldBoxes DEF FateInv
    <2>2. ASSUME NEW x
          PROVE  x \in {Id(m) : m \in ms}
                   <=> x \in {Id(m) : m \in MailOf({n})} \/ x \in {Id(m) : m \in BufferOf({n})}
      OBVIOUS
    <2>3. \A p : p \in C <=> p \in D \/ p \in E
      OBVIOUS
    <2> HIDE DEF C, D, E, ms
    <2>4. ASSUME NEW x
          PROVE  x \in UNION {Entries(Boxes[p]) : p \in C}
                   <=> \/ x \in UNION {Entries(Boxes[p]) : p \in D}
                       \/ x \in UNION {Entries(Boxes[p]) : p \in E}
      <3>1. x \in UNION {Entries(Boxes[p]) : p \in C} <=> \E p \in C : x \in Entries(Boxes[p])
        OBVIOUS
      <3>2. x \in UNION {Entries(Boxes[p]) : p \in D} <=> \E p \in D : x \in Entries(Boxes[p])
        OBVIOUS
      <3>3. x \in UNION {Entries(Boxes[p]) : p \in E} <=> \E p \in E : x \in Entries(Boxes[p])
        OBVIOUS
      <3> QED  BY <2>3, <3>1, <3>2, <3>3
    <2>5. ASSUME NEW x
          PROVE  x \in {Id(m) : m \in ms} <=> x \in UNION {Entries(Boxes[p]) : p \in C}
      BY <2>1, <2>2, <2>4
    <2> QED  BY <2>5
  <1>4. C \in SUBSET Places
    BY DEF Places
  <1>5. lost' = lost \cup AllLost(ms, "crashed")
    OBVIOUS
  <1> HIDE DEF C, ms
  <1>6. Fate(Boxes', lost \cup AllLost(ms, "crashed"), offers)
    BY <1>1, <1>2, <1>3, <1>4, FateClear
  <1> QED  BY <1>5, <1>6 DEF OneFate

\* A start stops every routee, wherever it is.
LEMMA FateStart == FateInv /\ TypeOK' /\ HomeStart => OneFate'
  <1> SUFFICES ASSUME FateInv, TypeOK', HomeStart PROVE Fate(Boxes', lost', offers')
    BY DEF OneFate
  <1> DEFINE C  == {"kafka", "input"} \X Nodes
             ms == MailOf(Nodes)
  <1>1. /\ Boxes \in Filled /\ Boxes' \in Filled /\ Fate(Boxes, lost, offers)
    BY BoxesFilled DEF FateInv, OneFate
  <1>2. /\ kmail' = [x \in Nodes |-> <<>>] /\ imail' = [x \in Nodes |-> <<>>]
        /\ UNCHANGED <<pbuf, out, offers>> /\ lost' = lost \cup AllLost(ms, "stopped")
    BY DEF HomeStart
  <1>3. ASSUME NEW p \in Places PROVE Boxes'[p] = IF p \in C THEN <<>> ELSE Boxes[p]
    <2>1. CASE p = <<"topic", Home>>
      <3>1. Boxes'[p] = Boxes[p]
        BY <1>2, <2>1 DEF Boxes, At
      <3> QED  BY <2>1, <3>1
    <2>2. ASSUME NEW x \in Nodes, p = <<"kafka", x>> \/ p = <<"input", x>>
          PROVE  Boxes'[p] = IF p \in C THEN <<>> ELSE Boxes[p]
      <3>1. Boxes'[p] = Ids(kmail'[x]) \/ Boxes'[p] = Ids(imail'[x])
        BY <2>2, BoxesAt
      <3>2. kmail'[x] = <<>> /\ imail'[x] = <<>> /\ p \in C
        BY <1>2, <2>2
      <3> QED  BY <3>1, <3>2, IdsEmpty
    <2>3. ASSUME NEW x \in Nodes, p = <<"send", x>>
          PROVE  Boxes'[p] = IF p \in C THEN <<>> ELSE Boxes[p]
      <3>1. Boxes'[p] = Boxes[p] /\ p \notin C
        BY <1>2, <2>3, BoxesAt
      <3> QED  BY <3>1
    <2> QED  BY <2>1, <2>2, <2>3 DEF Places
  <1>4. {Id(m) : m \in ms} = UNION {Entries(Boxes[p]) : p \in C}
    BY HeldBoxes DEF FateInv
  <1>5. C \in SUBSET Places
    BY DEF Places
  <1> HIDE DEF C, ms
  <1>6. Fate(Boxes', lost \cup AllLost(ms, "stopped"), offers)
    BY <1>1, <1>3, <1>4, <1>5, FateClear
  <1> QED  BY <1>2, <1>6

LEMMA FateNext == FateInv /\ TypeOK' /\ [Next]_vars => OneFate'
  <1> SUFFICES ASSUME FateInv, TypeOK', [Next]_vars PROVE OneFate'
    OBVIOUS
  <1> USE DEF stream_vars, mail_vars, view_vars, file_vars, fate_vars
  <1>1. CASE Tell
    BY <1>1, FateTell
  <1>2. CASE HomeStart
    BY <1>2, FateStart
  <1>3. CASE HomeCrash
    BY <1>3, HomeAssumption, FateDies DEF HomeCrash
  <1>4. ASSUME NEW n \in Nodes, Crash(n) PROVE OneFate'
    BY <1>4, FateDies DEF Crash
  <1>5. ASSUME NEW n \in Nodes, WorkKafka(n) \/ WorkInput(n) \/ Flush(n) \/ FlushFails(n)
        PROVE  OneFate'
    BY <1>5, FateWorkKafka, FateWorkInput, FateFlush, FateFlushFails
  <1>6. CASE UNCHANGED <<kmail, imail, pbuf, out, lost, offers>>
    <2>1. Boxes' = Boxes
      BY <1>6 DEF Boxes, At
    <2> QED  BY <1>6, <2>1 DEF FateInv, OneFate
  <1>7. \/ Tell \/ HomeStart \/ HomeCrash
        \/ \E n \in Nodes : \/ Crash(n) \/ WorkKafka(n) \/ WorkInput(n)
                             \/ Flush(n) \/ FlushFails(n)
        \/ UNCHANGED <<kmail, imail, pbuf, out, lost, offers>>
    BY DEF Next, vars, Produce, Commit, CommitFails, AddKafkaRoutee, AddInputRoutee,
       DropKafkaRoutee, DropInputRoutee, Rejoin, Load, LoadFails, EditFile
  <1> QED  BY <1>1, <1>2, <1>3, <1>4, <1>5, <1>6, <1>7

LEMMA FateInvariant == Spec => []FateInv
  <1>1. Init => FateInv
    BY InitType, FateInit, PastInit DEF FateInv
  <1>2. FateInv /\ [Next]_vars => FateInv'
    BY NextType, FateNext, PastNext DEF FateInv
  <1> QED  BY <1>1, <1>2, PTL DEF Spec

\* Whatever crashes, restarts and routers that come and go: every message told is
\* in one place, once, or lost for one reason.
THEOREM MessagesHaveOneFate == Spec => []OneFate
  <1>1. FateInv => OneFate
    BY DEF FateInv
  <1> QED  BY <1>1, FateInvariant, PTL

-----------------------------------------------------------------------------
(* The path is a Relay.  By their fates, what is in transit is what was    *)
(* told and is neither lost nor in the output topic; so a step that tells  *)
(* nothing can only make it less, and a Flush takes out what it delivers.  *)

Transit == {Id(m) : m \in MailOf(Nodes) \cup BufferOf(Nodes)}
Arrived == Entries(Ids(out))
Gone    == {Id(l) : l \in lost}

TransitIs == \A x : x \in Transit <=> x \in offers /\ x \notin Gone /\ x \notin Arrived

LEMMA TransitLaw == FateInv => TransitIs
  <1> SUFFICES ASSUME FateInv, NEW x
               PROVE  x \in Transit <=> x \in offers /\ x \notin Gone /\ x \notin Arrived
    BY DEF TransitIs
  <1> DEFINE D == {"kafka", "input"} \X Nodes
             E == {"send"} \X Nodes
             t == <<"topic", Home>>
  <1>1. /\ {Id(m) : m \in MailOf(Nodes)} = UNION {Entries(Boxes[p]) : p \in D}
        /\ {Id(m) : m \in BufferOf(Nodes)} = UNION {Entries(Boxes[p]) : p \in E}
    BY HeldBoxes DEF FateInv
  <1>2. x \in Transit <=> \/ x \in {Id(m) : m \in MailOf(Nodes)}
                          \/ x \in {Id(m) : m \in BufferOf(Nodes)}
    BY DEF Transit
  <1>3. \A p : p \in Places <=> p \in D \/ p \in E \/ p = t
    BY DEF Places
  <1>4. t \in Places /\ t \notin D /\ t \notin E
    BY DEF Places
  <1>5. Boxes[t] = Ids(out)
    BY HomeAssumption, BoxesAt
  <1> HIDE DEF D, E, t
  <1>6. x \in Transit <=> \E p \in Places : p # t /\ x \in Entries(Boxes[p])
    <2>1. x \in UNION {Entries(Boxes[p]) : p \in D} <=> \E p \in D : x \in Entries(Boxes[p])
      OBVIOUS
    <2>2. x \in UNION {Entries(Boxes[p]) : p \in E} <=> \E p \in E : x \in Entries(Boxes[p])
      OBVIOUS
    <2> QED  BY <1>1, <1>2, <1>3, <1>4, <2>1, <2>2
  <1>7. x \in Arrived <=> x \in Entries(Boxes[t])
    BY <1>5 DEF Arrived
  <1>8. /\ \A p, q \in Places : \A i \in DOMAIN Boxes[p], j \in DOMAIN Boxes[q] :
             Boxes[p][i] = Boxes[q][j] => p = q /\ i = j
        /\ \A l \in lost : Id(l) \notin HeldIn(Boxes)
        /\ offers = HeldIn(Boxes) \cup Gone
    BY DEF FateInv, OneFate, Fate, Gone
  <1>9. x \in HeldIn(Boxes) <=> \E p \in Places : x \in Entries(Boxes[p])
    BY DEF HeldIn
  <1>10. x \in Gone => x \notin HeldIn(Boxes)
    BY <1>8 DEF Gone
  <1>11. \A p, q \in Places : x \in Entries(Boxes[p]) /\ x \in Entries(Boxes[q]) => p = q
    BY <1>8 DEF Entries
  <1> QED  BY <1>4, <1>6, <1>7, <1>8, <1>9, <1>10, <1>11

\* Nothing lost comes back.
LEMMA LostGrows == [Next]_vars => lost \subseteq lost'
  <1> SUFFICES ASSUME [Next]_vars PROVE lost \subseteq lost'
    OBVIOUS
  <1>1. CASE Tell
    BY <1>1 DEF Tell, ToRoutee
  <1>2. ASSUME NEW n \in Nodes, WorkKafka(n) PROVE lost \subseteq lost'
    BY <1>2 DEF WorkKafka, ToRoutee
  <1>3. ASSUME NEW n \in Nodes, Crash(n) \/ FlushFails(n) PROVE lost \subseteq lost'
    BY <1>3 DEF Crash, FlushFails
  <1>4. CASE HomeCrash \/ HomeStart
    BY <1>4 DEF HomeCrash, HomeStart
  <1>5. \/ Tell \/ HomeCrash \/ HomeStart
        \/ \E n \in Nodes : WorkKafka(n) \/ Crash(n) \/ FlushFails(n)
        \/ UNCHANGED lost
    BY DEF Next, vars, stream_vars, mail_vars, view_vars, file_vars, fate_vars, Produce,
       Commit, CommitFails, AddKafkaRoutee, AddInputRoutee, DropKafkaRoutee,
       DropInputRoutee, Rejoin, Load, LoadFails, WorkInput, Flush, EditFile
  <1> QED  BY <1>1, <1>2, <1>3, <1>4, <1>5

LEMMA RelayInit == Init => R!Init
  <1> SUFFICES ASSUME Init PROVE R!Init
    OBVIOUS
  <1>1. Transit = {}
    BY EmptyBox DEF Init, Transit, MailOf, BufferOf, Entries
  <1>2. [i \in DOMAIN out |-> Id(out[i])] = <<>>
    BY IdsEmpty DEF Init, Ids
  <1> QED  BY <1>1, <1>2 DEF Init, R!Init, Transit

\* Where nothing is told and nothing arrives, messages only disappear.
LEMMA TransitShrinks ==
    ASSUME TransitIs, TransitIs', lost \subseteq lost', UNCHANGED <<offers, out>>
    PROVE  Transit' \subseteq Transit
  <1>1. Arrived' = Arrived
    BY DEF Arrived
  <1>2. Gone \subseteq Gone'
    BY DEF Gone
  <1> QED  BY <1>1, <1>2 DEF TransitIs

\* A tell puts the message in transit, or loses it at once.
LEMMA TellTransit ==
    ASSUME FateInv, TransitIs, TransitIs', Tell
    PROVE  Transit' \in {Transit, Transit \cup {[off |-> told + 1, inc |-> inc]}}
  <1> DEFINE m == [off |-> told + 1, inc |-> inc]
  <1>1. offers' = offers \cup {m} /\ out' = out /\ ToRoutee(kview, kmail, kmail', m)
    BY DEF Tell
  <1>2. Id(m) = m /\ \A why : Id(LostAs(m, why)) = m
    BY DEF Id, LostAs
  <1> HIDE DEF m
  <1>3. Arrived' = Arrived
    BY <1>1 DEF Arrived
  <1>4. CASE lost' = lost
    <2>1. Gone' = Gone
      BY <1>4 DEF Gone
    <2>2. \A x : x \in Transit' <=> x \in Transit \/ (x = m /\ m \in Transit')
      BY <1>1, <1>3, <2>1 DEF TransitIs
    <2>3. m \in Transit' => Transit' = Transit \cup {m}
      BY <2>2
    <2>4. m \notin Transit' => Transit' = Transit
      BY <2>2
    <2> QED  BY <2>3, <2>4 DEF m
  <1>5. ASSUME NEW why, lost' = lost \cup {LostAs(m, why)}
        PROVE  Transit' \in {Transit, Transit \cup {m}}
    <2>1. Gone' = Gone \cup {m}
      BY <1>2, <1>5 DEF Gone
    <2>2. \A x : x \in Transit' => x \in Transit
      BY <1>1, <1>3, <2>1 DEF TransitIs
    <2>3. \A x : x \in Transit => x \in Transit' \/ x = m
      BY <1>1, <1>3, <2>1 DEF TransitIs
    <2>4. m \notin offers
      <3>1. told \in Nat /\ inc \in Nat
        BY DEF FateInv, TypeOK
      <3>2. \A x \in offers : x.inc < inc \/ x.off <= told
        BY DEF FateInv, OffersPast
      <3> QED  BY <3>1, <3>2 DEF m
    <2>5. m \notin Transit
      BY <2>4 DEF TransitIs
    <2>6. Transit' = Transit
      BY <2>2, <2>3, <2>5
    <2> QED  BY <2>6
  <1>6. lost' = lost \/ \E why : lost' = lost \cup {LostAs(m, why)}
    BY <1>1 DEF ToRoutee
  <1> QED  BY <1>4, <1>5, <1>6 DEF m

\* A send that succeeds takes the message it delivers out of transit.
LEMMA FlushTransit ==
    ASSUME FateInv, TransitIs, TransitIs', NEW n \in Nodes, Flush(n)
    PROVE  LET m == Id(Head(pbuf[n]))
           IN  m \in Transit /\ Transit' = Transit \ {m} /\ Ids(out') = Append(Ids(out), m)
  <1> DEFINE m == Id(Head(pbuf[n]))
  <1>1. pbuf \in [Nodes -> Seq(Event)] /\ pbuf[n] # <<>> /\ out \in Seq(Event)
    BY DEF FateInv, TypeOK, Flush
  <1>2. out' = Append(out, Head(pbuf[n])) /\ UNCHANGED <<offers, lost>>
    BY DEF Flush
  <1>3. Head(pbuf[n]) \in Entries(pbuf[n]) /\ Head(pbuf[n]) \in Event
    BY <1>1, TailOf DEF Entries
  <1>4. m \in Transit
    BY <1>3 DEF Transit, BufferOf
  <1>5. m \in Msg /\ Ids(out) \in Seq(Msg) /\ Ids(out') = Append(Ids(out), m)
    <2>1. Ids(out') = Append(Ids(out), m)
      BY <1>1, <1>2, <1>3, PutIds
    <2>2. \A e \in Event : Id(e) \in Msg
      BY IdMsg
    <2> QED  BY <1>1, <1>3, <2>1, <2>2, IdsOf
  <1> HIDE DEF m
  <1>6. \A x : x \in Arrived' <=> x \in Arrived \/ x = m
    <2>1. /\ \A i \in DOMAIN Ids(out) : i \in DOMAIN Ids(out') /\ Ids(out')[i] = Ids(out)[i]
          /\ Len(Ids(out)) + 1 \in DOMAIN Ids(out') /\ Ids(out')[Len(Ids(out)) + 1] = m
          /\ \A i \in DOMAIN Ids(out') : i \in DOMAIN Ids(out) \/ i = Len(Ids(out)) + 1
      BY <1>5, AppendTo
    <2>2. Arrived = Entries(Ids(out)) /\ Arrived' = Entries(Ids(out'))
      BY DEF Arrived, Ids, Id, Entries
    <2> HIDE DEF Arrived
    <2> QED  BY <2>1, <2>2 DEF Entries
  <1>7. Gone' = Gone
    BY <1>2 DEF Gone
  <1>8. \A x : x \in Transit' <=> x \in Transit /\ x # m
    BY <1>2, <1>4, <1>6, <1>7 DEF TransitIs
  <1> QED  BY <1>4, <1>5, <1>8 DEF m

LEMMA RelayStep ==
    ASSUME FateInv, TransitIs, TransitIs', [Next]_vars
    PROVE  [R!Next]_R!vars
  <1>1. lost \subseteq lost'
    BY LostGrows
  <1>2. CASE Tell
    <2>1. Transit' \in {Transit, Transit \cup {[off |-> told + 1, inc |-> inc]}}
      BY <1>2, TellTransit
    <2> QED  BY <1>2, <2>1 DEF Tell, MayTell, view_vars, R!Next, R!Offer, Transit
  <1>3. ASSUME NEW n \in Nodes, Flush(n)
        PROVE  [R!Next]_R!vars
    <2> DEFINE m == Id(Head(pbuf[n]))
    <2>1. m \in Transit /\ Transit' = Transit \ {m} /\ Ids(out') = Append(Ids(out), m)
      BY <1>3, FlushTransit
    <2>2. UNCHANGED stream_vars
      BY <1>3 DEF Flush
    <2> HIDE DEF m
    <2>3. R!Deliver(m)
      BY <2>1, <2>2 DEF R!Deliver, Transit, Ids, stream_vars
    <2> QED  BY <2>1, <2>3 DEF R!Next, Transit
  <1>4. CASE HomeStart
    <2>1. Transit' \subseteq Transit
      BY <1>1, <1>4, TransitShrinks DEF HomeStart
    <2>2. R!Restart
      BY <1>4, <2>1 DEF HomeStart, StartPosition, R!Restart, Transit
    <2> QED  BY <2>2 DEF R!Next
  <1>5. CASE Produce
    BY <1>5 DEF Produce, mail_vars, fate_vars, R!Next, R!Grow, MailOf, BufferOf
  <1>6. CASE Commit
    BY <1>6 DEF Commit, MayCommit, mail_vars, fate_vars, R!Next, R!Ack, MailOf, BufferOf
  <1>7. CASE CommitFails
    <2>1. CASE committed' = committed + 1 /\ hasGroup' = TRUE
      BY <1>7, <2>1 DEF CommitFails, MayCommit, mail_vars, fate_vars, R!Next, R!Ack,
         MailOf, BufferOf
    <2>2. CASE UNCHANGED <<committed, hasGroup>>
      BY <1>7, <2>2 DEF CommitFails, mail_vars, fate_vars, R!vars, MailOf, BufferOf
    <2> QED  BY <1>7, <2>1, <2>2 DEF CommitFails
  <1>8. CASE UNCHANGED <<produced, told, committed, hasGroup, inc, offers, out>>
    <2>1. Transit' \subseteq Transit
      BY <1>1, <1>8, TransitShrinks
    <2>2. R!Lose
      BY <1>8, <2>1 DEF R!Lose, Transit
    <2> QED  BY <2>2 DEF R!Next
  <1>9. \/ Tell \/ HomeStart \/ Produce \/ Commit \/ CommitFails
        \/ \E n \in Nodes : Flush(n)
        \/ UNCHANGED <<produced, told, committed, hasGroup, inc, offers, out>>
    <2>1. ASSUME NEW n \in Nodes,
                 \/ AddKafkaRoutee(n) \/ AddInputRoutee(n) \/ DropKafkaRoutee(n)
                 \/ DropInputRoutee(n) \/ Rejoin(n) \/ Load(n) \/ LoadFails(n)
                 \/ \E c \in Clusters, v \in Listing : EditFile(n, c, v)
          PROVE  UNCHANGED <<produced, told, committed, hasGroup, inc, offers, out>>
      BY <2>1 DEF stream_vars, fate_vars, AddKafkaRoutee, AddInputRoutee,
         DropKafkaRoutee, DropInputRoutee, Rejoin, Load, LoadFails, EditFile
    <2>2. ASSUME NEW n \in Nodes, Crash(n) \/ WorkKafka(n) \/ WorkInput(n) \/ FlushFails(n)
          PROVE  UNCHANGED <<produced, told, committed, hasGroup, inc, offers, out>>
      BY <2>2 DEF stream_vars, fate_vars, Crash, WorkKafka, WorkInput, FlushFails
    <2>3. CASE HomeCrash
      BY <2>3 DEF HomeCrash
    <2>4. CASE UNCHANGED vars
      BY <2>4 DEF vars, stream_vars, fate_vars
    <2> QED  BY <2>1, <2>2, <2>3, <2>4 DEF Next
  <1> QED  BY <1>2, <1>3, <1>4, <1>5, <1>6, <1>7, <1>8, <1>9

\* The actors, their routers, mailboxes and crashes amount to a Relay: whatever
\* they do, it sees a record offered once per stream, acknowledged after that,
\* and delivered at most once for every time it was offered.
THEOREM PathIsRelay == Spec => ImplementsRelay
  <1>1. Init => R!Init
    BY RelayInit
  <1>2. FateInv /\ FateInv' /\ [Next]_vars => [R!Next]_R!vars
    <2>1. FateInv => TransitIs
      BY TransitLaw
    <2>2. FateInv' => TransitIs'
      BY <2>1, PTL
    <2> QED  BY <2>1, <2>2, RelayStep
  <1> QED  BY <1>1, <1>2, FateInvariant, PTL DEF Spec, ImplementsRelay, R!Spec

-----------------------------------------------------------------------------
(* The order of one member's path.                                         *)

\* x was told before y.
Before(x, y)   == x.inc < y.inc \/ (x.inc = y.inc /\ x.off < y.off)
Sorted(s)      == \A i, j \in DOMAIN s : i < j => Before(s[i], s[j])
AllBefore(X, Y) == \A x \in X, y \in Y : Before(x, y)

\* Boxes a, b, c, d, the farthest one first, are one sorted path.
Path(a, b, c, d) ==
    /\ Sorted(a) /\ Sorted(b) /\ Sorted(c) /\ Sorted(d)
    /\ AllBefore(Entries(a), Entries(b) \cup Entries(c) \cup Entries(d))
    /\ AllBefore(Entries(b), Entries(c) \cup Entries(d))
    /\ AllBefore(Entries(c), Entries(d))

Ordered == Nodes = {Home} => Path(out, pbuf[Home], imail[Home], kmail[Home])

-----------------------------------------------------------------------------
(* Sorted boxes.                                                           *)

LEMMA SortedTail ==
    ASSUME NEW S, NEW s \in Seq(S), s # <<>>, Sorted(s)
    PROVE  /\ Sorted(Tail(s)) /\ Head(s) \in Entries(s) /\ Entries(Tail(s)) \subseteq Entries(s)
           /\ \A x \in Entries(Tail(s)) : Before(Head(s), x)
  <1>1. /\ 1 \in DOMAIN s /\ Head(s) = s[1]
        /\ DOMAIN s \subseteq Nat /\ DOMAIN Tail(s) \subseteq Nat \ {0}
        /\ \A i \in DOMAIN Tail(s) : i + 1 \in DOMAIN s /\ Tail(s)[i] = s[i + 1]
    BY TailOf
  <1>2. Sorted(Tail(s))
    <2> SUFFICES ASSUME NEW i \in DOMAIN Tail(s), NEW j \in DOMAIN Tail(s), i < j
                 PROVE  Before(Tail(s)[i], Tail(s)[j])
      BY DEF Sorted
    <2>1. i + 1 < j + 1 /\ i + 1 \in DOMAIN s /\ j + 1 \in DOMAIN s
      BY <1>1
    <2> QED  BY <1>1, <2>1 DEF Sorted
  <1>3. ASSUME NEW i \in DOMAIN Tail(s) PROVE Before(Head(s), Tail(s)[i])
    <2>1. 1 < i + 1 /\ i + 1 \in DOMAIN s
      BY <1>1
    <2> QED  BY <1>1, <2>1 DEF Sorted
  <1> QED  BY <1>1, <1>2, <1>3 DEF Entries

LEMMA SortedAppend ==
    ASSUME NEW S, NEW s \in Seq(S), NEW m \in S, Sorted(s), \A x \in Entries(s) : Before(x, m)
    PROVE  Sorted(Append(s, m)) /\ Entries(Append(s, m)) = Entries(s) \cup {m}
  <1>1. /\ \A i \in DOMAIN s : i \in DOMAIN Append(s, m) /\ Append(s, m)[i] = s[i]
        /\ Len(s) + 1 \in DOMAIN Append(s, m) /\ Append(s, m)[Len(s) + 1] = m
        /\ \A i \in DOMAIN Append(s, m) : i \in DOMAIN s \/ i = Len(s) + 1
    BY AppendTo
  <1>2. Len(s) \in Nat /\ DOMAIN s = 1 .. Len(s)
    BY LenProperties
  <1>3. ASSUME NEW i \in DOMAIN Append(s, m), NEW j \in DOMAIN Append(s, m), i < j
        PROVE  Before(Append(s, m)[i], Append(s, m)[j])
    <2>1. i \in DOMAIN s
      BY <1>1, <1>2, <1>3
    <2>2. CASE j \in DOMAIN s
      BY <1>1, <1>3, <2>1, <2>2 DEF Sorted
    <2>3. CASE j = Len(s) + 1
      BY <1>1, <2>1, <2>3 DEF Entries
    <2> QED  BY <1>1, <2>2, <2>3
  <1>4. Entries(Append(s, m)) = Entries(s) \cup {m}
    BY <1>1 DEF Entries
  <1> QED  BY <1>3, <1>4 DEF Sorted

LEMMA SortedNone == Sorted(<<>>) /\ Entries(<<>>) = {}
  BY EmptyBox DEF Sorted, Entries

LEMMA SortedConcat ==
    ASSUME NEW S, NEW s \in Seq(S), NEW t \in Seq(S), Sorted(s), Sorted(t),
           AllBefore(Entries(s), Entries(t))
    PROVE  /\ s \o t \in Seq(S) /\ Sorted(s \o t)
           /\ Entries(s \o t) = Entries(s) \cup Entries(t)
  <1>1. /\ s \o t \in Seq(S) /\ Len(s \o t) = Len(s) + Len(t)
        /\ \A i \in 1 .. Len(s) + Len(t) :
             (s \o t)[i] = IF i <= Len(s) THEN s[i] ELSE t[i - Len(s)]
    BY ConcatProperties
  <1>2. /\ Len(s) \in Nat /\ DOMAIN s = 1 .. Len(s) /\ Len(t) \in Nat /\ DOMAIN t = 1 .. Len(t)
        /\ DOMAIN (s \o t) = 1 .. Len(s) + Len(t)
    BY <1>1, LenProperties
  <1> DEFINE u == s \o t
  <1>3. /\ \A i \in DOMAIN s : i \in DOMAIN u /\ u[i] = s[i]
        /\ \A i \in DOMAIN t : i + Len(s) \in DOMAIN u /\ u[i + Len(s)] = t[i]
        /\ \A i \in DOMAIN u : \/ i \in DOMAIN s /\ u[i] = s[i]
                               \/ i > Len(s) /\ i - Len(s) \in DOMAIN t /\ u[i] = t[i - Len(s)]
    BY <1>1, <1>2
  <1> HIDE DEF u
  <1>4. Entries(u) = Entries(s) \cup Entries(t)
    BY <1>3 DEF Entries
  <1>5. ASSUME NEW i \in DOMAIN u, NEW j \in DOMAIN u, i < j PROVE Before(u[i], u[j])
    <2>0. i \in Nat /\ j \in Nat
      BY <1>2 DEF u
    <2>1. CASE j \in DOMAIN s
      <3>1. i \in DOMAIN s
        BY <1>2, <1>5, <2>0, <2>1 DEF u
      <3> QED  BY <1>3, <1>5, <2>1, <3>1 DEF Sorted
    <2>2. CASE i \in DOMAIN s /\ j \notin DOMAIN s
      BY <1>3, <2>2 DEF AllBefore, Entries
    <2>3. CASE i \notin DOMAIN s /\ j \notin DOMAIN s
      <3>1. /\ i - Len(s) \in DOMAIN t /\ u[i] = t[i - Len(s)]
            /\ j - Len(s) \in DOMAIN t /\ u[j] = t[j - Len(s)]
        BY <1>3, <2>3
      <3>2. i - Len(s) < j - Len(s)
        BY <1>2, <1>5, <2>0
      <3> QED  BY <3>1, <3>2 DEF Sorted
    <2> QED  BY <2>1, <2>2, <2>3
  <1> QED  BY <1>1, <1>4, <1>5 DEF Sorted, u

LEMMA SortedThree ==
    ASSUME NEW S, NEW s \in Seq(S), NEW c \in Seq(S), NEW d \in Seq(S),
           Sorted(s), Sorted(c), Sorted(d), AllBefore(Entries(s), Entries(c)),
           AllBefore(Entries(s), Entries(d)), AllBefore(Entries(c), Entries(d))
    PROVE  Sorted(s \o c \o d)
  <1>1. /\ s \o c \in Seq(S) /\ Sorted(s \o c)
        /\ Entries(s \o c) = Entries(s) \cup Entries(c)
    BY SortedConcat
  <1>2. AllBefore(Entries(s \o c), Entries(d))
    BY <1>1 DEF AllBefore
  <1> QED  BY <1>1, <1>2, SortedConcat

LEMMA PathSorted ==
    ASSUME NEW S, NEW a \in Seq(S), NEW b \in Seq(S), NEW c \in Seq(S), NEW d \in Seq(S),
           Path(a, b, c, d)
    PROVE  Sorted(a \o b \o c \o d)
  <1>1. a \o b \in Seq(S) /\ Sorted(a \o b) /\ Entries(a \o b) = Entries(a) \cup Entries(b)
    BY SortedConcat DEF Path, AllBefore
  <1>2. /\ AllBefore(Entries(a \o b), Entries(c)) /\ AllBefore(Entries(a \o b), Entries(d))
        /\ AllBefore(Entries(c), Entries(d)) /\ Sorted(c) /\ Sorted(d)
    BY <1>1 DEF Path, AllBefore
  <1> QED  BY <1>1, <1>2, SortedThree

\* What leaves boxes leaves the rest in order.
LEMMA PathDrop ==
    ASSUME NEW a, NEW b, NEW c, NEW d, Path(a, b, c, d),
           NEW b2, NEW c2, NEW d2, Sorted(b2), Sorted(c2), Sorted(d2),
           Entries(b2) \subseteq Entries(b), Entries(c2) \subseteq Entries(c),
           Entries(d2) \subseteq Entries(d)
    PROVE  Path(a, b2, c2, d2)
  BY DEF Path, AllBefore

\* Like x, a message m is before Y or behind it.
LEMMA SameTime ==
    ASSUME NEW x, NEW m, m.inc = x.inc, m.off = x.off
    PROVE  \A y : (Before(x, y) => Before(m, y)) /\ (Before(y, x) => Before(y, m))
  BY DEF Before

\* The first message of a box goes to the end of the next one.
LEMMA PathMoveLast ==
    ASSUME NEW S, NEW T, NEW a, NEW b, NEW c \in Seq(S), NEW d \in Seq(T),
           Path(a, b, c, d), d # <<>>,
           NEW m \in S, m.inc = Head(d).inc, m.off = Head(d).off
    PROVE  Path(a, b, Append(c, m), Tail(d))
  <1>1. /\ Sorted(Tail(d)) /\ Head(d) \in Entries(d) /\ Entries(Tail(d)) \subseteq Entries(d)
        /\ \A x \in Entries(Tail(d)) : Before(Head(d), x)
    BY SortedTail DEF Path
  <1>2. /\ \A x \in Entries(a) \cup Entries(b) \cup Entries(c) : Before(x, m)
        /\ \A x \in Entries(Tail(d)) : Before(m, x)
    BY <1>1, SameTime DEF Path, AllBefore
  <1>3. Sorted(Append(c, m)) /\ Entries(Append(c, m)) = Entries(c) \cup {m}
    BY <1>2, SortedAppend DEF Path
  <1> QED  BY <1>1, <1>2, <1>3 DEF Path, AllBefore

LEMMA PathMoveMiddle ==
    ASSUME NEW S, NEW T, NEW a, NEW b \in Seq(S), NEW c \in Seq(T), NEW d,
           Path(a, b, c, d), c # <<>>, Head(c) \in S
    PROVE  Path(a, Append(b, Head(c)), Tail(c), d)
  <1>1. /\ Sorted(Tail(c)) /\ Head(c) \in Entries(c) /\ Entries(Tail(c)) \subseteq Entries(c)
        /\ \A x \in Entries(Tail(c)) : Before(Head(c), x)
    BY SortedTail DEF Path
  <1> DEFINE m == Head(c)
  <1>2. /\ \A x \in Entries(a) \cup Entries(b) : Before(x, m)
        /\ \A x \in Entries(Tail(c)) \cup Entries(d) : Before(m, x)
    BY <1>1 DEF Path, AllBefore
  <1>3. Sorted(Append(b, m)) /\ Entries(Append(b, m)) = Entries(b) \cup {m}
    BY <1>2, SortedAppend DEF Path
  <1> QED  BY <1>1, <1>2, <1>3 DEF Path, AllBefore

LEMMA PathMoveFirst ==
    ASSUME NEW S, NEW T, NEW a \in Seq(S), NEW b \in Seq(T), NEW c, NEW d,
           Path(a, b, c, d), b # <<>>, Head(b) \in S
    PROVE  Path(Append(a, Head(b)), Tail(b), c, d)
  <1>1. /\ Sorted(Tail(b)) /\ Head(b) \in Entries(b) /\ Entries(Tail(b)) \subseteq Entries(b)
        /\ \A x \in Entries(Tail(b)) : Before(Head(b), x)
    BY SortedTail DEF Path
  <1> DEFINE m == Head(b)
  <1>2. /\ \A x \in Entries(a) : Before(x, m)
        /\ \A x \in Entries(Tail(b)) \cup Entries(c) \cup Entries(d) : Before(m, x)
    BY <1>1 DEF Path, AllBefore
  <1>3. Sorted(Append(a, m)) /\ Entries(Append(a, m)) = Entries(a) \cup {m}
    BY <1>2, SortedAppend DEF Path
  <1> QED  BY <1>1, <1>2, <1>3 DEF Path, AllBefore

\* A message behind all others goes to the end of the last box.
LEMMA PathPut ==
    ASSUME NEW S, NEW a, NEW b, NEW c, NEW d \in Seq(S), NEW m \in S, Path(a, b, c, d),
           \A x \in Entries(a) \cup Entries(b) \cup Entries(c) \cup Entries(d) : Before(x, m)
    PROVE  Path(a, b, c, Append(d, m))
  <1>1. Sorted(Append(d, m)) /\ Entries(Append(d, m)) = Entries(d) \cup {m}
    BY SortedAppend DEF Path
  <1> QED  BY <1>1 DEF Path, AllBefore

-----------------------------------------------------------------------------
(* Steps.                                                                  *)

LEMMA OrderedInit == Init => Ordered
  BY SortedNone, HomeAssumption DEF Init, Ordered, Path, AllBefore

\* All that is under way was told before what is told next.
LEMMA HeldPast ==
    ASSUME FateInv, NEW n \in Nodes
    PROVE  \A x \in Entries(out) \cup Entries(pbuf[n]) \cup Entries(imail[n]) \cup Entries(kmail[n]) :
             Before(x, [off |-> told + 1, inc |-> inc])
  <1> SUFFICES ASSUME NEW x \in Entries(out) \cup Entries(pbuf[n]) \cup Entries(imail[n])
                                  \cup Entries(kmail[n])
               PROVE  Before(x, [off |-> told + 1, inc |-> inc])
    OBVIOUS
  <1>2. \A s : \A y \in Entries(s) : Id(y) \in Entries(Ids(s))
    BY DEF Entries, Ids
  <1>3. Id(x) \in HeldIn(Boxes)
    <2>1. /\ <<"kafka", n>> \in Places /\ <<"input", n>> \in Places
          /\ <<"send", n>> \in Places /\ <<"topic", Home>> \in Places
      BY NodePlaces
    <2>2. /\ Boxes[<<"kafka", n>>] = Ids(kmail[n]) /\ Boxes[<<"input", n>>] = Ids(imail[n])
          /\ Boxes[<<"send", n>>] = Ids(pbuf[n]) /\ Boxes[<<"topic", Home>>] = Ids(out)
      BY BoxesAt
    <2>3. \E p \in Places : Id(x) \in Entries(Boxes[p])
      BY <1>2, <2>1, <2>2
    <2> QED  BY <2>3 DEF HeldIn
  <1>4. Id(x) \in offers
    BY <1>3 DEF FateInv, OneFate, Fate
  <1>5. Id(x).inc < inc \/ (Id(x).inc = inc /\ Id(x).off <= told)
    BY <1>4 DEF FateInv, OffersPast
  <1>6. Id(x).off \in Nat /\ told \in Nat
    BY <1>4, CountAssumption DEF FateInv, TypeOK, Msg
  <1>7. Id(x).off = x.off /\ Id(x).inc = x.inc
    BY DEF Id
  <1> QED  BY <1>5, <1>6, <1>7 DEF Before

\* The boxes of the only member.
LEMMA HomeBoxes ==
    TypeOK => /\ out \in Seq(Event) /\ pbuf[Home] \in Seq(Event)
              /\ imail[Home] \in Seq(Event) /\ kmail[Home] \in Seq(Msg)
              /\ kmail \in [Nodes -> Seq(Msg)] /\ imail \in [Nodes -> Seq(Event)]
              /\ pbuf \in [Nodes -> Seq(Event)]
  BY HomeAssumption DEF TypeOK

LEMMA OrderedTell == ASSUME FateInv, Ordered, Tell PROVE Ordered'
  <1> SUFFICES ASSUME Nodes = {Home} PROVE Path(out, pbuf[Home], imail[Home], kmail[Home])'
    BY DEF Ordered
  <1> DEFINE m == [off |-> told + 1, inc |-> inc]
  <1>1. UNCHANGED <<out, pbuf, imail>> /\ ToRoutee(kview, kmail, kmail', m)
    BY DEF Tell
  <1>2. \A x \in Entries(out) \cup Entries(pbuf[Home]) \cup Entries(imail[Home]) \cup Entries(kmail[Home]) :
          Before(x, m)
    BY HeldPast, HomeAssumption
  <1>3. m \in Msg
    BY CountAssumption DEF Tell, MayTell, FateInv, TypeOK, Msg
  <1>4. kmail[Home] \in Seq(Msg) /\ kmail \in [Nodes -> Seq(Msg)] /\ kview \subseteq Nodes
    BY HomeBoxes DEF FateInv, TypeOK
  <1>5. Path(out, pbuf[Home], imail[Home], kmail[Home])
    BY DEF Ordered
  <1> HIDE DEF m
  <1>6. kmail' = kmail \/ kmail' = [kmail EXCEPT ![Home] = Append(@, m)]
    BY <1>1, <1>4 DEF ToRoutee
  <1>7. CASE kmail' = [kmail EXCEPT ![Home] = Append(@, m)]
    <2>1. kmail'[Home] = Append(kmail[Home], m)
      BY <1>4, <1>7, HomeAssumption
    <2>2. Path(out, pbuf[Home], imail[Home], Append(kmail[Home], m))
      BY <1>2, <1>3, <1>4, <1>5, PathPut
    <2> QED  BY <1>1, <2>1, <2>2
  <1> QED  BY <1>1, <1>5, <1>6, <1>7

LEMMA OrderedWorkKafka == ASSUME FateInv, Ordered, NEW n \in Nodes, WorkKafka(n) PROVE Ordered'
  <1> SUFFICES ASSUME Nodes = {Home} PROVE Path(out, pbuf[Home], imail[Home], kmail[Home])'
    BY DEF Ordered
  <1> DEFINE m == Head(kmail[Home])
  <1>1. n = Home
    OBVIOUS
  <1>2. /\ imail[Home] \in Seq(Event) /\ kmail[Home] \in Seq(Msg) /\ kmail[Home] # <<>>
        /\ kmail \in [Nodes -> Seq(Msg)] /\ imail \in [Nodes -> Seq(Event)] /\ iview \subseteq Nodes
        /\ ports[Home] \in [Clusters -> Listing]
    BY <1>1, HomeBoxes DEF FateInv, TypeOK, WorkKafka
  <1>3. /\ kmail' = [kmail EXCEPT ![Home] = Tail(@)] /\ UNCHANGED <<out, pbuf>>
        /\ \/ UNCHANGED imail
           \/ \E v \in Targets : ToRoutee(iview, imail, imail', [off |-> m.off, inc |-> m.inc, to |-> v])
    BY <1>1 DEF WorkKafka, Forwardable
  <1>4. kmail'[Home] = Tail(kmail[Home])
    BY <1>2, <1>3, HomeAssumption
  <1>5. Path(out, pbuf[Home], imail[Home], kmail[Home])
    BY DEF Ordered
  <1>6. CASE UNCHANGED imail
    <2>1. Sorted(Tail(kmail[Home])) /\ Entries(Tail(kmail[Home])) \subseteq Entries(kmail[Home])
      BY <1>2, <1>5, SortedTail DEF Path
    <2>2. Sorted(pbuf[Home]) /\ Sorted(imail[Home])
      BY <1>5 DEF Path
    <2>3. Path(out, pbuf[Home], imail[Home], Tail(kmail[Home]))
      BY <1>5, <2>1, <2>2, PathDrop
    <2> QED  BY <1>3, <1>4, <1>6, <2>3
  <1>7. ASSUME NEW v \in Targets,
               imail' = [imail EXCEPT ![Home] = Append(@, [off |-> m.off, inc |-> m.inc, to |-> v])]
        PROVE  Path(out, pbuf[Home], imail[Home], kmail[Home])'
    <2> DEFINE e == [off |-> m.off, inc |-> m.inc, to |-> v]
    <2>1. m \in Msg
      BY <1>2, HeadTailProperties
    <2>2. e \in Event /\ e.off = m.off /\ e.inc = m.inc
      BY <2>1 DEF Msg, Event
    <2>3. imail'[Home] = Append(imail[Home], e)
      BY <1>2, <1>7, HomeAssumption
    <2> HIDE DEF e
    <2>4. Path(out, pbuf[Home], Append(imail[Home], e), Tail(kmail[Home]))
      BY <1>2, <1>5, <2>2, PathMoveLast
    <2> QED  BY <1>3, <1>4, <2>3, <2>4
  <1>8. ASSUME NEW v \in Targets,
               ToRoutee(iview, imail, imail', [off |-> m.off, inc |-> m.inc, to |-> v])
        PROVE  \/ UNCHANGED imail
               \/ imail' = [imail EXCEPT ![Home] = Append(@, [off |-> m.off, inc |-> m.inc, to |-> v])]
    BY <1>2, <1>8 DEF ToRoutee
  <1> QED  BY <1>3, <1>6, <1>7, <1>8

LEMMA OrderedSend ==
    ASSUME FateInv, Ordered, NEW n \in Nodes, WorkInput(n) \/ Flush(n) \/ FlushFails(n)
    PROVE  Ordered'
  <1> SUFFICES ASSUME Nodes = {Home} PROVE Path(out, pbuf[Home], imail[Home], kmail[Home])'
    BY DEF Ordered
  <1>1. n = Home
    OBVIOUS
  <1>2. /\ out \in Seq(Event) /\ pbuf[Home] \in Seq(Event) /\ imail[Home] \in Seq(Event)
        /\ imail \in [Nodes -> Seq(Event)] /\ pbuf \in [Nodes -> Seq(Event)]
    BY HomeBoxes DEF FateInv
  <1>3. Path(out, pbuf[Home], imail[Home], kmail[Home])
    BY DEF Ordered
  <1>4. CASE WorkInput(Home)
    <2>1. /\ imail[Home] # <<>> /\ UNCHANGED <<out, kmail>>
          /\ pbuf'[Home] = Append(pbuf[Home], Head(imail[Home])) /\ imail'[Home] = Tail(imail[Home])
      BY <1>2, <1>4, HomeAssumption DEF WorkInput, fate_vars
    <2>2. Head(imail[Home]) \in Event
      BY <1>2, <2>1, HeadTailProperties
    <2>3. Path(out, Append(pbuf[Home], Head(imail[Home])), Tail(imail[Home]), kmail[Home])
      BY <1>2, <1>3, <2>1, <2>2, PathMoveMiddle
    <2> QED  BY <2>1, <2>3
  <1>5. CASE Flush(Home)
    <2>1. /\ pbuf[Home] # <<>> /\ UNCHANGED <<imail, kmail>>
          /\ out' = Append(out, Head(pbuf[Home])) /\ pbuf'[Home] = Tail(pbuf[Home])
      BY <1>2, <1>5, HomeAssumption DEF Flush
    <2>2. Head(pbuf[Home]) \in Event
      BY <1>2, <2>1, HeadTailProperties
    <2>3. Path(Append(out, Head(pbuf[Home])), Tail(pbuf[Home]), imail[Home], kmail[Home])
      BY <1>2, <1>3, <2>1, <2>2, PathMoveFirst
    <2> QED  BY <2>1, <2>3
  <1>6. CASE FlushFails(Home)
    <2>1. /\ pbuf[Home] # <<>> /\ UNCHANGED <<out, imail, kmail>> /\ pbuf'[Home] = Tail(pbuf[Home])
      BY <1>2, <1>6, HomeAssumption DEF FlushFails
    <2>2. Sorted(Tail(pbuf[Home])) /\ Entries(Tail(pbuf[Home])) \subseteq Entries(pbuf[Home])
      BY <1>2, <1>3, <2>1, SortedTail DEF Path
    <2>3. Sorted(imail[Home]) /\ Sorted(kmail[Home])
      BY <1>3 DEF Path
    <2>4. Path(out, Tail(pbuf[Home]), imail[Home], kmail[Home])
      BY <1>3, <2>2, <2>3, PathDrop
    <2> QED  BY <2>1, <2>4
  <1> QED  BY <1>1, <1>4, <1>5, <1>6

LEMMA OrderedRestart == ASSUME FateInv, Ordered, HomeCrash \/ HomeStart PROVE Ordered'
  <1> SUFFICES ASSUME Nodes = {Home} PROVE Path(out, pbuf[Home], imail[Home], kmail[Home])'
    BY DEF Ordered
  <1>1. Path(out, pbuf[Home], imail[Home], kmail[Home])
    BY DEF Ordered
  <1>2. out' = out /\ kmail'[Home] = <<>> /\ imail'[Home] = <<>>
    BY HomeAssumption, HomeBoxes DEF FateInv, HomeCrash, HomeStart
  <1>3. pbuf'[Home] = pbuf[Home] \/ pbuf'[Home] = <<>>
    BY HomeAssumption, HomeBoxes DEF FateInv, HomeCrash, HomeStart
  <1>4. /\ Path(out, pbuf[Home], <<>>, <<>>) /\ Path(out, <<>>, <<>>, <<>>)
    <2>1. /\ Sorted(pbuf[Home]) /\ Sorted(<<>>)
          /\ \A X : Entries(<<>>) \subseteq X
      BY <1>1, SortedNone DEF Path
    <2> QED  BY <1>1, <2>1, PathDrop
  <1> QED  BY <1>2, <1>3, <1>4

LEMMA OrderedNext == FateInv /\ Ordered /\ [Next]_vars => Ordered'
  <1> SUFFICES ASSUME FateInv, Ordered, [Next]_vars PROVE Ordered'
    OBVIOUS
  <1>1. CASE UNCHANGED <<out, pbuf, imail, kmail>>
    BY <1>1 DEF Ordered
  <1>2. ASSUME NEW n \in Nodes, Crash(n) PROVE Ordered'
    BY <1>2 DEF Crash, Ordered
  <1>3. \/ Tell \/ HomeCrash \/ HomeStart
        \/ \E n \in Nodes : \/ Crash(n) \/ WorkKafka(n) \/ WorkInput(n) \/ Flush(n) \/ FlushFails(n)
        \/ UNCHANGED <<out, pbuf, imail, kmail>>
    BY DEF Next, vars, mail_vars, fate_vars, Produce, Commit, CommitFails, AddKafkaRoutee,
       AddInputRoutee, DropKafkaRoutee, DropInputRoutee, Rejoin, Load, LoadFails, EditFile
  <1> QED  BY <1>1, <1>2, <1>3, OrderedTell, OrderedWorkKafka, OrderedSend, OrderedRestart

\* With one member, whatever fails: what is in the output topic, in the producer and
\* in the mailboxes is in the order in which it was told.
THEOREM PathInOrder == Spec => []InOrder
  <1>1. FateInv /\ Ordered => InOrder
    <2> SUFFICES ASSUME FateInv, Ordered, Nodes = {Home}
                 PROVE  Sorted(out \o pbuf[Home] \o imail[Home] \o kmail[Home])
      BY DEF InOrder, Sorted, Before
    <2>1. /\ out \in Seq(Event) /\ pbuf[Home] \in Seq(Event)
          /\ imail[Home] \in Seq(Event) /\ kmail[Home] \in Seq(Msg)
      BY HomeBoxes DEF FateInv
    <2>2. \A X, Y : Seq(X) \subseteq Seq(X \cup Y) /\ Seq(Y) \subseteq Seq(X \cup Y)
      OBVIOUS
    <2> DEFINE S == Event \cup Msg
    <2>3. /\ out \in Seq(S) /\ pbuf[Home] \in Seq(S) /\ imail[Home] \in Seq(S)
          /\ kmail[Home] \in Seq(S)
      BY <2>1, <2>2
    <2> HIDE DEF S
    <2> QED  BY <2>3, PathSorted DEF Ordered
  <1>2. FateInv /\ Ordered /\ [Next]_vars => Ordered'
    BY OrderedNext
  <1>3. Init => Ordered
    BY OrderedInit
  <1> QED  BY <1>1, <1>2, <1>3, FateInvariant, PTL DEF Spec

-----------------------------------------------------------------------------
(* How much is told again.  A restart puts the reader back by two records  *)
(* at most, so what waits to be told again grows by two at most; telling   *)
(* one of these adds a message about a record that has one already.        *)

Offs  == {m.off : m \in offers}
Again == {r \in Offs : told < r}
Repeats == Cardinality(offers) + Cardinality(Again) <= Cardinality(Offs) + 2 * inc

Counted == IsFiniteSet(offers) /\ Repeats

\* Adding one.
LEMMA PlusOne ==
    ASSUME NEW X, IsFiniteSet(X), NEW x
    PROVE  /\ IsFiniteSet(X \cup {x}) /\ Cardinality(X) \in Nat
           /\ x \in X => Cardinality(X \cup {x}) = Cardinality(X)
           /\ x \notin X => Cardinality(X \cup {x}) = Cardinality(X) + 1
  <1>1. x \in X => X \cup {x} = X
    OBVIOUS
  <1> QED  BY <1>1, FS_AddElement, FS_CardinalityType

LEMMA OffsFinite == TypeOK => IsFiniteSet(Offs) /\ IsFiniteSet(Again) /\ Offs \subseteq Nat
  <1> SUFFICES ASSUME TypeOK PROVE IsFiniteSet(Offs) /\ IsFiniteSet(Again) /\ Offs \subseteq Nat
    OBVIOUS
  <1>1. Offs \subseteq 1 .. NumRecords
    BY DEF TypeOK, Offs, Msg
  <1>2. IsFiniteSet(1 .. NumRecords)
    BY CountAssumption, FS_Interval
  <1>3. Again \subseteq Offs
    BY DEF Again
  <1>4. Offs \subseteq Nat
    BY <1>1, CountAssumption
  <1>5. IsFiniteSet(Offs)
    BY <1>1, <1>2, FS_Subset
  <1> QED  BY <1>3, <1>4, <1>5, FS_Subset

LEMMA CountedInit == Init => Counted
  <1> SUFFICES ASSUME Init PROVE Counted
    OBVIOUS
  <1>1. offers = {} /\ inc = 0
    BY DEF Init
  <1>2. Offs = {} /\ Again = {}
    BY <1>1 DEF Offs, Again
  <1> QED  BY <1>1, <1>2, FS_EmptySet DEF Counted, Repeats

LEMMA CountedTell == ASSUME FateInv, TypeOK', Counted, Tell PROVE Counted'
  <1> DEFINE r == told + 1
             m == [off |-> r, inc |-> inc]
  <1>1. offers' = offers \cup {m} /\ told' = r /\ inc' = inc /\ m.off = r
    BY DEF Tell
  <1>2. told \in Nat /\ inc \in Nat
    BY DEF FateInv, TypeOK
  <1>3. m \notin offers
    <2>1. \A x \in offers : x.inc < inc \/ x.off <= told
      BY DEF FateInv, OffersPast
    <2> QED  BY <1>2, <2>1
  <1>4. /\ IsFiniteSet(Offs) /\ IsFiniteSet(Again) /\ Offs \subseteq Nat
    BY OffsFinite DEF FateInv
  <1> HIDE DEF m
  <1>5. Offs' = Offs \cup {r}
    BY <1>1 DEF Offs
  <1>6. IsFiniteSet(offers') /\ Cardinality(offers') = Cardinality(offers) + 1 /\ Cardinality(offers) \in Nat
    BY <1>1, <1>3, PlusOne DEF Counted
  <1>7. \A x : x \in Again' <=> x \in Offs' /\ r < x
    BY <1>1 DEF Again
  <1>8. \A x : x \in Again <=> x \in Offs /\ told < x
    BY DEF Again
  <1>9. CASE r \in Offs
    <2>1. Offs' = Offs
      BY <1>5, <1>9
    <2>2. r \notin Again' /\ Again = Again' \cup {r}
      <3>1. ASSUME NEW x PROVE x \in Again <=> x \in Again' \/ x = r
        <4>1. CASE x \in Offs
          <5>1. x \in Nat
            BY <1>4, <4>1
          <5> QED  BY <1>2, <1>7, <1>8, <2>1, <4>1, <5>1
        <4>2. CASE x \notin Offs
          BY <1>7, <1>8, <1>9, <2>1, <4>2
        <4> QED  BY <4>1, <4>2
      <3>2. r \notin Again'
        BY <1>2, <1>7
      <3> QED  BY <3>1, <3>2
    <2>3. IsFiniteSet(Again')
      BY <1>4, <2>2, FS_Subset
    <2>4. Cardinality(Again) = Cardinality(Again') + 1 /\ Cardinality(Again') \in Nat
      BY <2>2, <2>3, PlusOne
    <2>5. Cardinality(Offs) \in Nat
      BY <1>4, FS_CardinalityType
    <2> QED  BY <1>1, <1>2, <1>6, <2>1, <2>4, <2>5 DEF Counted, Repeats
  <1>10. CASE r \notin Offs
    <2>1. Cardinality(Offs') = Cardinality(Offs) + 1 /\ Cardinality(Offs) \in Nat
      BY <1>4, <1>5, <1>10, PlusOne
    <2>2. Again' = Again
      <3>1. ASSUME NEW x PROVE x \in Again' <=> x \in Again
        <4>1. CASE x \in Offs
          <5>1. x \in Nat
            BY <1>4, <4>1
          <5> QED  BY <1>2, <1>5, <1>7, <1>8, <1>10, <4>1, <5>1
        <4>2. CASE x \notin Offs
          <5>1. x \in Again' => x = r /\ r < x
            BY <1>5, <1>7, <4>2
          <5>2. ~(r < r)
            BY <1>2
          <5> QED  BY <1>8, <4>2, <5>1, <5>2
        <4> QED  BY <4>1, <4>2
      <3> QED  BY <3>1
    <2>3. Cardinality(Again) \in Nat
      BY <1>4, FS_CardinalityType
    <2> QED  BY <1>1, <1>2, <1>6, <2>1, <2>2, <2>3 DEF Counted, Repeats
  <1> QED  BY <1>9, <1>10

LEMMA CountedStart == ASSUME FateInv, TypeOK', Counted, HomeStart PROVE Counted'
  <1>1. /\ offers' = offers /\ inc' = inc + 1 /\ told' = StartPosition
    BY DEF HomeStart
  <1>2. told \in Nat /\ inc \in Nat /\ told' \in Nat /\ told <= told' + 2
    BY <1>1, CountAssumption DEF FateInv, TypeOK, StartPosition
  <1>3. /\ IsFiniteSet(Offs) /\ IsFiniteSet(Again) /\ Offs \subseteq Nat
    BY OffsFinite DEF FateInv
  <1>4. Offs' = Offs
    BY <1>1 DEF Offs
  <1> DEFINE A == Again \cup {told - 1}
             B == A \cup {told}
  <1>5. Again' \subseteq B
    <2>1. ASSUME NEW x \in Offs, told' < x PROVE told < x \/ x = told - 1 \/ x = told
      <3>1. x \in Nat
        BY <1>3
      <3>2. \A t, u, y \in Nat : t <= u + 2 /\ u < y => t < y \/ y = t - 1 \/ y = t
        OBVIOUS
      <3> QED  BY <1>2, <2>1, <3>1, <3>2
    <2>2. Again' = {x \in Offs : told' < x}
      BY <1>4 DEF Again
    <2>3. \A x \in Offs : told < x => x \in Again
      BY DEF Again
    <2> QED  BY <2>1, <2>2, <2>3
  <1>6. IsFiniteSet(A) /\ Cardinality(A) <= Cardinality(Again) + 1 /\ Cardinality(Again) \in Nat
    BY <1>3, PlusOne
  <1> HIDE DEF A
  <1>7. /\ IsFiniteSet(B) /\ Cardinality(B) <= Cardinality(A) + 1 /\ Cardinality(A) \in Nat
    <2>1. /\ IsFiniteSet(B) /\ Cardinality(A) \in Nat
          /\ told \in A => Cardinality(B) = Cardinality(A)
          /\ told \notin A => Cardinality(B) = Cardinality(A) + 1
      BY <1>6, PlusOne
    <2> HIDE DEF B
    <2> QED  BY <2>1
  <1>8. Cardinality(Again') <= Cardinality(B) /\ Cardinality(B) \in Nat /\ Cardinality(Again') \in Nat
    <2> HIDE DEF B
    <2>1. Cardinality(Again') <= Cardinality(B) /\ IsFiniteSet(Again')
      BY <1>5, <1>7, FS_Subset
    <2> QED  BY <1>7, <2>1, FS_CardinalityType
  <1>9. Cardinality(Offs) \in Nat /\ Cardinality(offers) \in Nat
    BY <1>3, FS_CardinalityType DEF Counted
  <1> HIDE DEF B
  <1> QED  BY <1>1, <1>2, <1>4, <1>6, <1>7, <1>8, <1>9 DEF Counted, Repeats

LEMMA CountedNext == FateInv /\ TypeOK' /\ Counted /\ [Next]_vars => Counted'
  <1> SUFFICES ASSUME FateInv, TypeOK', Counted, [Next]_vars PROVE Counted'
    OBVIOUS
  <1>1. CASE UNCHANGED <<offers, told, inc>>
    BY <1>1 DEF Counted, Repeats, Again, Offs
  <1>2. ~Tell /\ ~HomeStart => UNCHANGED <<told, inc, offers>>
    BY DEF Next, vars, stream_vars, mail_vars, view_vars, file_vars, fate_vars, Produce,
       Commit, CommitFails, HomeCrash, AddKafkaRoutee, AddInputRoutee, Crash,
       DropKafkaRoutee, DropInputRoutee, Rejoin, Load, LoadFails, WorkKafka, WorkInput,
       Flush, FlushFails, EditFile
  <1> QED  BY <1>1, <1>2, CountedTell, CountedStart

\* However often the process is restarted, and whatever it had told but not
\* committed: at most two messages more per restart than there are records told.
THEOREM RedeliveryBounded == Spec => []RedeliveryWindow
  <1>1. FateInv /\ Counted => RedeliveryWindow
    <2> SUFFICES ASSUME FateInv, Counted PROVE RedeliveryWindow
      OBVIOUS
    <2>1. IsFiniteSet(Offs) /\ IsFiniteSet(Again) /\ inc \in Nat
      BY OffsFinite DEF FateInv, TypeOK
    <2>2. Cardinality(Offs) \in Nat /\ Cardinality(Again) \in Nat /\ Cardinality(offers) \in Nat
      BY <2>1, FS_CardinalityType DEF Counted
    <2> QED  BY <2>1, <2>2 DEF Counted, Repeats, RedeliveryWindow, Offs
  <1>2. FateInv /\ FateInv' /\ Counted /\ [Next]_vars => Counted'
    <2>1. FateInv => TypeOK
      BY DEF FateInv
    <2>2. FateInv' => TypeOK'
      BY <2>1, PTL
    <2> QED  BY <2>2, CountedNext
  <1>3. Init => Counted
    BY CountedInit
  <1> QED  BY <1>1, <1>2, <1>3, FateInvariant, PTL DEF Spec
=============================================================================

------------------------- MODULE ClassicSession_proofs -------------------------
(***************************************************************************)
(* Proofs about the single-stream session, for every set of files, bundle  *)
(* size and server setting, and any number of changes, drops and runs.     *)
(*                                                                         *)
(* The invariant has a part for the lines under way, one for what a copy's *)
(* stamp says, and one for the versions the files had during the last      *)
(* pass, each resting on the ones before.                                  *)
(***************************************************************************)
EXTENDS ClassicSession, SequencesExt, SequenceTheorems, FiniteSetTheorems, TLAPS

------------------------------------------------------------------------------
(* Sequences of lines. *)

Fetched(type) == type \in {"body", "skip"}
Closing(type) == type \in {"offer", "done"}

\* An offer and DONE end what the server sends before it is answered, and bodies
\* come before everything else.
Ordered(s) ==
    \A i, j \in 1..Len(s) : i < j =>
        /\ ~Closing(s[i].type)
        /\ Fetched(s[j].type) => Fetched(s[i].type)

LEMMA LineAt ==
    ASSUME NEW S, NEW s \in Seq(S), NEW l
    PROVE  l \in ToSet(s) <=> \E i \in 1..Len(s) : l = s[i]
<1>1. DOMAIN s = 1..Len(s)
  BY LenProperties
<1> QED BY <1>1 DEF ToSet

LEMMA TailLines ==
    ASSUME NEW S, NEW s \in Seq(S), s # <<>>
    PROVE  /\ Tail(s) \in Seq(S) /\ Head(s) \in S /\ Head(s) \in ToSet(s)
           /\ ToSet(s) = {Head(s)} \union ToSet(Tail(s))
           /\ Len(s) = 1 => Tail(s) = <<>>
<1>1. /\ Tail(s) \in Seq(S) /\ Head(s) \in S /\ Head(s) = s[1]
      /\ Len(s) \in Nat /\ Len(s) >= 1 /\ Len(Tail(s)) = Len(s) - 1
      /\ \A i \in 1..Len(Tail(s)) : Tail(s)[i] = s[i + 1]
  BY HeadTailProperties, EmptySeq, LenProperties
<1>2. ASSUME NEW l \in ToSet(s) PROVE l \in {Head(s)} \union ToSet(Tail(s))
  <2>1. PICK i \in 1..Len(s) : l = s[i]
    BY DEF ToSet
  <2>2. CASE i = 1
    BY <1>1, <2>1, <2>2
  <2>3. CASE i # 1
    <3>1. i - 1 \in 1..Len(Tail(s)) /\ Tail(s)[i - 1] = l
      BY <1>1, <2>1, <2>3
    <3> QED BY <3>1, <1>1, LineAt
  <2> QED BY <2>2, <2>3
<1>3. ASSUME NEW l \in ToSet(Tail(s)) PROVE l \in ToSet(s)
  <2>1. PICK i \in 1..Len(Tail(s)) : l = Tail(s)[i]
    BY <1>1 DEF ToSet
  <2>2. i + 1 \in 1..Len(s) /\ l = s[i + 1]
    BY <1>1, <2>1
  <2> QED BY <2>2 DEF ToSet
<1>4. Head(s) \in ToSet(s)
  BY <1>1 DEF ToSet
<1>5. ASSUME Len(s) = 1 PROVE Tail(s) = <<>>
  <2>1. Len(Tail(s)) = 0
    BY <1>1, <1>5
  <2> QED BY <1>1, <2>1, EmptySeq
<1>6. ToSet(s) = {Head(s)} \union ToSet(Tail(s))
  BY <1>2, <1>3, <1>4
<1> QED BY <1>1, <1>4, <1>5, <1>6

LEMMA ConcatLines ==
    ASSUME NEW S, NEW s \in Seq(S), NEW t \in Seq(S)
    PROVE  s \o t \in Seq(S) /\ ToSet(s \o t) = ToSet(s) \union ToSet(t)
<1>1. /\ s \o t \in Seq(S) /\ Len(s \o t) = Len(s) + Len(t)
      /\ Len(s) \in Nat /\ Len(t) \in Nat
      /\ \A i \in 1..(Len(s) + Len(t)) :
             (s \o t)[i] = IF i <= Len(s) THEN s[i] ELSE t[i - Len(s)]
  BY ConcatProperties, LenProperties
<1>2. ASSUME NEW l \in ToSet(s \o t) PROVE l \in ToSet(s) \union ToSet(t)
  <2>1. PICK i \in 1..(Len(s) + Len(t)) : l = (s \o t)[i]
    BY <1>1 DEF ToSet
  <2>2. CASE i <= Len(s)
    BY <1>1, <2>1, <2>2 DEF ToSet
  <2>3. CASE ~(i <= Len(s))
    <3>1. i - Len(s) \in 1..Len(t) /\ l = t[i - Len(s)]
      BY <1>1, <2>1, <2>3
    <3> QED BY <3>1 DEF ToSet
  <2> QED BY <2>2, <2>3
<1>3. ASSUME NEW l \in ToSet(s) PROVE l \in ToSet(s \o t)
  <2>1. PICK i \in 1..Len(s) : l = s[i]
    BY DEF ToSet
  <2>2. i \in 1..Len(s \o t) /\ l = (s \o t)[i]
    BY <1>1, <2>1
  <2> QED BY <2>2 DEF ToSet
<1>4. ASSUME NEW l \in ToSet(t) PROVE l \in ToSet(s \o t)
  <2>1. PICK i \in 1..Len(t) : l = t[i]
    BY DEF ToSet
  <2>2. i + Len(s) \in 1..Len(s \o t) /\ l = (s \o t)[i + Len(s)]
    BY <1>1, <2>1
  <2> QED BY <2>2 DEF ToSet
<1> QED BY <1>1, <1>2, <1>3, <1>4

LEMMA FewLines ==
    ASSUME NEW S, NEW l \in S, NEW m \in S
    PROVE  /\ <<l>> \in Seq(S) /\ ToSet(<<l>>) = {l}
           /\ <<l, m>> \in Seq(S) /\ ToSet(<<l, m>>) = {l, m}
           /\ ToSet(<<>>) = {}
<1>1. /\ <<l>> \in Seq(S) /\ Len(<<l>>) = 1 /\ <<l>>[1] = l
      /\ <<l, m>> \in Seq(S) /\ Len(<<l, m>>) = 2 /\ <<l, m>>[1] = l /\ <<l, m>>[2] = m
      /\ Len(<<>>) = 0
  OBVIOUS
<1>2. 1..1 = {1} /\ 1..2 = {1, 2} /\ 1..0 = {}
  OBVIOUS
<1> QED BY <1>1, <1>2 DEF ToSet

LEMMA PrefixLines ==
    ASSUME NEW S, NEW s \in Seq(S), NEW k \in 0..Len(s)
    PROVE  /\ SubSeq(s, 1, k) \in Seq(S) /\ ToSet(SubSeq(s, 1, k)) \subseteq ToSet(s)
           /\ s = <<>> => SubSeq(s, 1, k) = <<>>
           /\ Ordered(s) => Ordered(SubSeq(s, 1, k))
           /\ Ordered(s) =>
                  \A l \in ToSet(SubSeq(s, 1, k)) : Closing(l.type) => SubSeq(s, 1, k) = s
<1> DEFINE t == SubSeq(s, 1, k)
<1>1. /\ t \in Seq(S) /\ Len(t) = k /\ Len(s) \in Nat
      /\ \A i \in 1..k : t[i] = s[i]
  BY LenProperties, SubSeqProperties
<1>2. ToSet(t) \subseteq ToSet(s)
  BY <1>1 DEF ToSet
<1>3. s = <<>> => t = <<>>
  BY <1>1, EmptySeq
<1>4. Ordered(s) => Ordered(t)
  BY <1>1 DEF Ordered
<1>5. ASSUME Ordered(s), NEW l \in ToSet(t), Closing(l.type) PROVE t = s
  <2>1. PICK i \in 1..k : l = s[i]
    BY <1>1 DEF ToSet
  <2>2. k = Len(s)
    <3>1. SUFFICES ASSUME k # Len(s) PROVE FALSE
      OBVIOUS
    <3>2. i \in 1..Len(s) /\ k + 1 \in 1..Len(s) /\ i < k + 1
      BY <1>1, <2>1, <3>1
    <3> QED BY <1>5, <2>1, <3>2 DEF Ordered
  <2> HIDE DEF t
  <2> QED BY <1>1, <2>2, SeqEqual
<1> QED BY <1>1, <1>2, <1>3, <1>4, <1>5

LEMMA OrderedTail ==
    ASSUME NEW S, NEW s \in Seq(S), s # <<>>, Ordered(s)
    PROVE  /\ Ordered(Tail(s))
           /\ Closing(Head(s).type) => Tail(s) = <<>>
           /\ ~Fetched(Head(s).type) => \A l \in ToSet(Tail(s)) : ~Fetched(l.type)
<1>1. /\ Tail(s) \in Seq(S) /\ Head(s) = s[1]
      /\ Len(s) \in Nat /\ Len(s) >= 1 /\ Len(Tail(s)) = Len(s) - 1
      /\ \A i \in 1..Len(Tail(s)) : Tail(s)[i] = s[i + 1]
  BY HeadTailProperties, EmptySeq, LenProperties
<1>2. Ordered(Tail(s))
  <2>1. ASSUME NEW i \in 1..Len(Tail(s)), NEW j \in 1..Len(Tail(s)), i < j
        PROVE  /\ ~Closing(Tail(s)[i].type)
               /\ Fetched(Tail(s)[j].type) => Fetched(Tail(s)[i].type)
    <3>1. i + 1 \in 1..Len(s) /\ j + 1 \in 1..Len(s) /\ i + 1 < j + 1
      BY <1>1, <2>1
    <3> QED BY <1>1, <3>1 DEF Ordered
  <2> QED BY <2>1 DEF Ordered
<1>3. ASSUME Closing(Head(s).type) PROVE Tail(s) = <<>>
  <2>1. SUFFICES ASSUME Len(s) >= 2 PROVE FALSE
    BY <1>1, EmptySeq
  <2>2. 1 \in 1..Len(s) /\ 2 \in 1..Len(s)
    BY <1>1, <2>1
  <2> QED BY <1>1, <1>3, <2>2 DEF Ordered
<1>4. ASSUME ~Fetched(Head(s).type), NEW l \in ToSet(Tail(s)) PROVE ~Fetched(l.type)
  <2>1. PICK i \in 1..Len(Tail(s)) : l = Tail(s)[i]
    BY <1>1 DEF ToSet
  <2>2. 1 \in 1..Len(s) /\ i + 1 \in 1..Len(s) /\ 1 < i + 1 /\ l = s[i + 1]
    BY <1>1, <2>1
  <2> QED BY <1>1, <1>4, <2>2 DEF Ordered
<1> QED BY <1>2, <1>3, <1>4

LEMMA OrderedAppend ==
    ASSUME NEW S, NEW s \in Seq(S), NEW l \in S, Ordered(s),
           \A m \in ToSet(s) : ~Closing(m.type),
           Fetched(l.type) => \A m \in ToSet(s) : Fetched(m.type)
    PROVE  Ordered(s \o <<l>>)
<1>1. /\ Len(s \o <<l>>) = Len(s) + 1 /\ Len(s) \in Nat
      /\ \A i \in 1..(Len(s) + 1) :
             (s \o <<l>>)[i] = IF i <= Len(s) THEN s[i] ELSE l
  BY ConcatProperties, LenProperties, FewLines
<1>2. ASSUME NEW i \in 1..Len(s \o <<l>>), NEW j \in 1..Len(s \o <<l>>), i < j
      PROVE  /\ ~Closing((s \o <<l>>)[i].type)
             /\ Fetched((s \o <<l>>)[j].type) => Fetched((s \o <<l>>)[i].type)
  <2>1. i \in 1..Len(s) /\ (s \o <<l>>)[i] = s[i] /\ s[i] \in ToSet(s)
    BY <1>1, <1>2 DEF ToSet
  <2>2. CASE j = Len(s) + 1
    BY <1>1, <2>1, <2>2
  <2>3. CASE j # Len(s) + 1
    BY <1>1, <1>2, <2>1, <2>3 DEF Ordered
  <2> QED BY <2>2, <2>3
<1> QED BY <1>2 DEF Ordered

LEMMA OrderedAppendTwo ==
    ASSUME NEW S, NEW s \in Seq(S), NEW l \in S, NEW m \in S, Ordered(s),
           \A n \in ToSet(s) : ~Closing(n.type),
           ~Closing(l.type), ~Fetched(l.type), ~Fetched(m.type)
    PROVE  Ordered(s \o <<l, m>>)
<1>1. s \o <<l>> \in Seq(S) /\ ToSet(s \o <<l>>) = ToSet(s) \union {l}
  <2>1. <<l>> \in Seq(S)
    BY FewLines
  <2>2. ToSet(<<l>>) = {l}
    BY FewLines
  <2>3. s \o <<l>> \in Seq(S) /\ ToSet(s \o <<l>>) = ToSet(s) \union ToSet(<<l>>)
    BY <2>1, ConcatLines, Zenon
  <2> QED BY <2>2, <2>3
<1>2. Ordered(s \o <<l>>)
  BY OrderedAppend
<1>3. \A n \in ToSet(s \o <<l>>) : ~Closing(n.type)
  BY <1>1
<1>4. Ordered((s \o <<l>>) \o <<m>>)
  BY <1>1, <1>2, <1>3, OrderedAppend
<1>5. s \o <<l, m>> = (s \o <<l>>) \o <<m>>
  <2>1. <<l, m>> = <<l>> \o <<m>>
    <3>1. /\ <<l>> \in Seq(S) /\ <<m>> \in Seq(S) /\ <<l, m>> \in Seq(S)
          /\ Len(<<l>>) = 1 /\ Len(<<m>>) = 1 /\ Len(<<l, m>>) = 2
          /\ <<l>>[1] = l /\ <<m>>[1] = m /\ <<l, m>>[1] = l /\ <<l, m>>[2] = m
      OBVIOUS
    <3>2. /\ <<l>> \o <<m>> \in Seq(S) /\ Len(<<l>> \o <<m>>) = 2
          /\ (<<l>> \o <<m>>)[1] = l /\ (<<l>> \o <<m>>)[2] = m
      BY <3>1, ConcatProperties
    <3>3. \A i \in 1..2 : <<l, m>>[i] = (<<l>> \o <<m>>)[i]
      BY <3>1, <3>2
    <3> QED BY <3>1, <3>2, <3>3, SeqEqual
  <2>2. <<l>> \in Seq(S) /\ <<m>> \in Seq(S)
    BY FewLines
  <2> QED BY <2>1, <2>2, ConcatAssociative
<1> QED BY <1>4, <1>5

------------------------------------------------------------------------------
(* Types. *)

DownLines ==
    [type : {"offer"}, items : SUBSET (File \X Versions)]
        \union [type : {"body"}, items : {{<<f, d>>} : f \in File, d \in Versions \union {Torn}}]
        \union [type : {"skip"}, items : {{<<f, 0>>} : f \in File}]
        \union [type : {"passend", "done", "go"}, items : {{}}]
UpLines ==
    [type : {"mask"}, items : SUBSET (File \X Versions)]
        \union [type : {"sync", "bye"}, items : {{}}]

LinesOK == down \in Seq(DownLines) /\ up \in Seq(UpLines)

TypeInv == ClassicTypeOK /\ LinesOK

\* What the three ways to change a channel do to its type and its lines.
LEMMA Sending ==
    ASSUME LinesOK, NEW ls \in Seq(DownLines), ToClient(ls)
    PROVE  /\ down' \in Seq(DownLines)
           /\ link => down' = down \o ls /\ ToSet(down') = ToSet(down) \union ToSet(ls)
           /\ ~link => down' = down
<1>1. down \o ls \in Seq(DownLines) /\ ToSet(down \o ls) = ToSet(down) \union ToSet(ls)
  BY ConcatLines DEF LinesOK
<1> QED BY <1>1 DEF ToClient, LinesOK

LEMMA Getting ==
    ASSUME LinesOK, NEW type, Gets(type)
    PROVE  /\ down # <<>> /\ down' = Tail(down) /\ down' \in Seq(DownLines)
           /\ Head(down) \in DownLines /\ Head(down).type = type
           /\ ToSet(down) = {Head(down)} \union ToSet(down')
  BY TailLines DEF Gets, LinesOK

LEMMA Answering ==
    ASSUME LinesOK, NEW line \in UpLines, ToServer(line)
    PROVE  up' \in Seq(UpLines)
  BY AppendProperties DEF ToServer, LinesOK

LEMMA Reading ==
    ASSUME LinesOK, up # <<>>
    PROVE  Head(up) \in UpLines /\ Tail(up) \in Seq(UpLines)
  BY TailLines DEF LinesOK

\* The lines that are sent.
LEMMA LineTypes ==
    /\ \A items \in SUBSET (File \X Versions) :
           /\ <<Line("offer", items)>> \in Seq(DownLines)
           /\ ToSet(<<Line("offer", items)>>) = {Line("offer", items)}
           /\ Line("mask", items) \in UpLines
    /\ \A f \in File, d \in Versions \union {Torn} :
           /\ <<Line("body", {<<f, d>>})>> \in Seq(DownLines)
           /\ ToSet(<<Line("body", {<<f, d>>})>>) = {Line("body", {<<f, d>>})}
    /\ \A f \in File :
           /\ <<Line("skip", {<<f, 0>>})>> \in Seq(DownLines)
           /\ ToSet(<<Line("skip", {<<f, 0>>})>>) = {Line("skip", {<<f, 0>>})}
    /\ <<Line("passend", {})>> \in Seq(DownLines)
    /\ ToSet(<<Line("passend", {})>>) = {Line("passend", {})}
    /\ <<Line("passend", {}), Line("done", {})>> \in Seq(DownLines)
    /\ ToSet(<<Line("passend", {}), Line("done", {})>>) = {Line("passend", {}), Line("done", {})}
    /\ <<Line("go", {})>> \in Seq(DownLines)
    /\ ToSet(<<Line("go", {})>>) = {Line("go", {})}
    /\ Line("sync", {}) \in UpLines /\ Line("bye", {}) \in UpLines
<1>1. ASSUME NEW items \in SUBSET (File \X Versions)
      PROVE  Line("offer", items) \in DownLines /\ Line("mask", items) \in UpLines
  BY DEF Line, DownLines, UpLines
<1>2. ASSUME NEW f \in File, NEW d \in Versions \union {Torn}
      PROVE  Line("body", {<<f, d>>}) \in DownLines
  BY DEF Line, DownLines
<1>3. ASSUME NEW f \in File PROVE Line("skip", {<<f, 0>>}) \in DownLines
  BY DEF Line, DownLines
<1>4. /\ Line("passend", {}) \in DownLines /\ Line("done", {}) \in DownLines
      /\ Line("go", {}) \in DownLines
      /\ Line("sync", {}) \in UpLines /\ Line("bye", {}) \in UpLines
  BY DEF Line, DownLines, UpLines
<1>5. \A l \in DownLines : <<l>> \in Seq(DownLines) /\ ToSet(<<l>>) = {l}
  BY FewLines
<1>6. \A l, m \in DownLines : <<l, m>> \in Seq(DownLines) /\ ToSet(<<l, m>>) = {l, m}
  BY FewLines
<1> QED BY <1>1, <1>2, <1>3, <1>4, <1>5, <1>6, Zenon

LEMMA TypeInit == ClassicInit => TypeInv
<1> SUFFICES ASSUME ClassicInit PROVE TypeInv
  OBVIOUS
<1>1. ClassicTypeOK
  <2>1. 1 \in Versions /\ MaxRuns \in Nat /\ MaxRuns >= 1 /\ MaxDrops \in Nat /\ MaxChanges \in Nat
    BY ClassicAssumption DEF Versions
  <2>2. source \in [File -> {0} \union Versions]
    BY <2>1, ClassicAssumption DEF ClassicInit
  <2>3. content \in [File -> {0, Torn} \union Versions] /\ stamp \in [File -> {Foreign} \union Versions]
    BY <2>1 DEF ClassicInit
  <2>4. /\ cfg \in Configs /\ changes \in 0..MaxChanges /\ drops \in 0..MaxDrops
        /\ run \in 1..MaxRuns /\ span \in [File -> SUBSET ({0} \union Versions)]
    BY <2>1 DEF ClassicInit
  <2>5. /\ frozen = FALSE /\ flag = FALSE /\ server = "accept" /\ phase = 1 /\ stop = "none"
        /\ todo = {} /\ bundle = {} /\ held = {} /\ sending = {} /\ opened = {}
        /\ link = FALSE /\ client = "idle" /\ pending = {} /\ seen = {} /\ rooted = FALSE
        /\ passed = {} /\ pruned = {} /\ delivered = FALSE
    BY DEF ClassicInit
  <2> QED BY <2>2, <2>3, <2>4, <2>5 DEF ClassicTypeOK, InSession, Running
<1>2. LinesOK
  BY DEF ClassicInit, LinesOK
<1> QED BY <1>1, <1>2 DEF TypeInv

LEMMA TypeSource ==
    ASSUME TypeInv, NEW f \in File, WriteFile(f) \/ RemoveFile(f)
    PROVE  TypeInv'
<1>1. PICK v \in {0} \union Versions : Change(f, v)
  <2>1. CASE WriteFile(f)
    <3>1. Change(f, changes + 2)
      BY <2>1 DEF WriteFile
    <3>2. changes + 2 \in Versions
      BY <3>1, ClassicAssumption DEF Change, Versions, TypeInv, ClassicTypeOK
    <3> QED BY <3>1, <3>2
  <2>2. CASE RemoveFile(f)
    BY <2>2 DEF RemoveFile
  <2> QED BY <2>1, <2>2
<1>2. changes' \in 0..MaxChanges /\ source' \in [File -> {0} \union Versions]
  BY <1>1, ClassicAssumption DEF Change, TypeInv, ClassicTypeOK
<1>3. span' \in [File -> SUBSET ({0} \union Versions)]
  BY <1>1 DEF Change, TypeInv, ClassicTypeOK
<1> QED BY <1>1, <1>2, <1>3 DEF Change, TypeInv, ClassicTypeOK, LinesOK,
           serverVars, walkVars, netVars, clientVars, mirrorVars, diskVars, historyVars

LEMMA TypeServer ==
    ASSUME TypeInv, ServerStep
    PROVE  TypeInv'
<1> USE DEF walkVars, sourceVars, serverVars, netVars, diskVars, mirrorVars, historyVars,
            clientVars, passVars
<1>1. ASSUME NEW n \in {1, 2}, StartPass(n)
      PROVE  /\ phase' \in {1, 2} /\ server' = "walk" /\ todo' \subseteq File
             /\ bundle' \subseteq File \X Versions /\ held' \subseteq File \X Versions
             /\ sending' \subseteq File /\ opened' \subseteq File \X Versions
             /\ span' \in [File -> SUBSET ({0} \union Versions)] /\ passed' \subseteq File
  BY <1>1 DEF StartPass, TypeInv, ClassicTypeOK
<1>2. CASE ReadSync
  <2>1. up' \in Seq(UpLines)
    BY <1>2, Reading DEF ReadSync, TypeInv
  <2>2. StartPass(1)
    BY <1>2 DEF ReadSync
  <2> QED BY <1>1, <1>2, <2>1, <2>2 DEF ReadSync, TypeInv, ClassicTypeOK, LinesOK, InSession, Walking
<1>3. CASE OfferBundle
  <2>1. <<Line("offer", bundle)>> \in Seq(DownLines)
    BY LineTypes DEF TypeInv, ClassicTypeOK
  <2>2. down' \in Seq(DownLines)
    BY <1>3, <2>1, Sending DEF OfferBundle, TypeInv
  <2> QED BY <1>3, <2>2 DEF OfferBundle, TypeInv, ClassicTypeOK, LinesOK, InSession, Walking
<1>4. CASE OfferLarge
  <2>1. <<Line("offer", held)>> \in Seq(DownLines)
    BY LineTypes DEF TypeInv, ClassicTypeOK
  <2>2. down' \in Seq(DownLines)
    BY <1>4, <2>1, Sending DEF OfferLarge, TypeInv
  <2> QED BY <1>4, <2>2 DEF OfferLarge, TypeInv, ClassicTypeOK, LinesOK, InSession, Walking
<1>5. CASE ReadMask
  <2>1. up' \in Seq(UpLines) /\ Head(up) \in UpLines
    BY <1>5, Reading DEF ReadMask, TypeInv
  <2>2. Head(up).items \subseteq File \X Versions
    BY <2>1, <1>5 DEF ReadMask, UpLines
  <2>3. FilesIn(Head(up).items) \subseteq File
    BY <2>2 DEF FilesIn
  <2> QED BY <1>5, <2>1, <2>3 DEF ReadMask, TypeInv, ClassicTypeOK, LinesOK, InSession, Walking
<1>6. CASE EndPass
  <2>1. down' \in Seq(DownLines)
    BY <1>6, LineTypes, Sending DEF EndPass, TypeInv
  <2> QED BY <1>6, <2>1 DEF EndPass, TypeInv, ClassicTypeOK, LinesOK, InSession, Walking
<1>7. CASE SeeFlag
  <2>1. down' \in Seq(DownLines)
    BY <1>7, LineTypes, Sending DEF SeeFlag, TypeInv
  <2>2. StartPass(2)
    BY <1>7 DEF SeeFlag
  <2> QED BY <1>1, <1>7, <2>1, <2>2 DEF SeeFlag, TypeInv, ClassicTypeOK, LinesOK, InSession, Walking
<1>8. CASE ReadBye
  <2>1. up' \in Seq(UpLines)
    BY <1>8, Reading DEF ReadBye, TypeInv
  <2> QED BY <1>8, <2>1 DEF ReadBye, TypeInv, ClassicTypeOK, LinesOK, InSession, Walking
<1>9. CASE AbortSession
  BY <1>9 DEF AbortSession, TypeInv, ClassicTypeOK, LinesOK, InSession, Walking
<1>10. ASSUME NEW f \in File, LookAt(f) PROVE TypeInv'
  <2>1. source[f] # 0 => {<<f, source[f]>>} \subseteq File \X Versions
    BY DEF TypeInv, ClassicTypeOK
  <2> QED BY <1>10, <2>1 DEF LookAt, TypeInv, ClassicTypeOK, LinesOK
<1>11. ASSUME NEW f \in File, OpenFile(f) PROVE TypeInv'
  <2>1. source[f] # 0 => {<<f, source[f]>>} \subseteq File \X Versions
    BY DEF TypeInv, ClassicTypeOK
  <2> QED BY <1>11, <2>1 DEF OpenFile, TypeInv, ClassicTypeOK, LinesOK
<1>12. ASSUME NEW f \in File, CannotOpen(f) PROVE TypeInv'
  <2>1. down' \in Seq(DownLines)
    BY <1>12, LineTypes, Sending DEF CannotOpen, TypeInv
  <2> QED BY <1>12, <2>1 DEF CannotOpen, Sent, TypeInv, ClassicTypeOK, LinesOK, InSession, Walking
<1>13. ASSUME NEW f \in File, NEW v \in Versions, SendBody(f, v) PROVE TypeInv'
  <2>1. down' \in Seq(DownLines)
    BY <1>13, LineTypes, Sending DEF SendBody, Readable, TypeInv, ClassicTypeOK
  <2> QED BY <1>13, <2>1 DEF SendBody, Sent, TypeInv, ClassicTypeOK, LinesOK, InSession, Walking
<1> QED BY <1>2, <1>3, <1>4, <1>5, <1>6, <1>7, <1>8, <1>9, <1>10, <1>11, <1>12, <1>13
        DEF ServerStep

LEMMA TypeClient ==
    ASSUME TypeInv, ClientStep
    PROVE  TypeInv'
<1> USE DEF walkVars, sourceVars, serverVars, netVars, diskVars, mirrorVars, historyVars,
            clientVars, passVars
<1>1. CASE Connect
  <2>1. up' \in Seq(UpLines) /\ down' \in Seq(DownLines)
    BY <1>1, LineTypes DEF Connect
  <2> QED BY <1>1, <2>1
          DEF Connect, TypeInv, ClassicTypeOK, LinesOK, InSession, Walking, Running, Receiving
<1>2. CASE Refused
  BY <1>2 DEF Refused, TypeInv, ClassicTypeOK, LinesOK
<1>3. CASE ReadOffer
  <2> DEFINE wanted == {i \in Head(down).items : content[i[1]] = 0 \/ stamp[i[1]] # i[2]}
  <2>1. /\ down' \in Seq(DownLines) /\ Head(down) \in DownLines /\ Head(down).type = "offer"
    BY <1>3, Getting DEF ReadOffer, TypeInv
  <2>2. Head(down).items \subseteq File \X Versions
    BY <2>1 DEF DownLines
  <2>3. wanted \subseteq File \X Versions /\ FilesIn(Head(down).items) \subseteq File
    BY <2>2 DEF FilesIn
  <2>4. /\ seen' = seen \union FilesIn(Head(down).items) /\ pending' = wanted
        /\ ToServer(Line("mask", wanted))
        /\ client' \in {"pass", "bodies"}
    BY <1>3 DEF ReadOffer
  <2>5. up' \in Seq(UpLines)
    BY <2>3, <2>4, LineTypes, Answering DEF TypeInv
  <2> HIDE DEF wanted
  <2> QED BY <1>3, <2>1, <2>3, <2>4, <2>5
          DEF ReadOffer, TypeInv, ClassicTypeOK, LinesOK, Running, Receiving
<1>4. ASSUME NEW f \in File, NEW v \in Versions, ReadBody(f, v) PROVE TypeInv'
  <2>1. down' \in Seq(DownLines)
    BY <1>4, Getting DEF ReadBody, TypeInv
  <2> QED BY <1>4, <2>1 DEF ReadBody, Got, TypeInv, ClassicTypeOK, LinesOK, Running, Receiving
<1>5. ASSUME NEW f \in File, ReadSkip(f) PROVE TypeInv'
  <2>1. down' \in Seq(DownLines)
    BY <1>5, Getting DEF ReadSkip, TypeInv
  <2> QED BY <1>5, <2>1 DEF ReadSkip, Got, TypeInv, ClassicTypeOK, LinesOK, Running, Receiving
<1>6. CASE ReadPassEnd
  <2>1. down' \in Seq(DownLines)
    BY <1>6, Getting DEF ReadPassEnd, TypeInv
  <2> QED BY <1>6, <2>1 DEF ReadPassEnd, TypeInv, ClassicTypeOK, LinesOK, Running, Receiving
<1>7. CASE ReadGo
  <2>1. down' \in Seq(DownLines)
    BY <1>7, Getting DEF ReadGo, TypeInv
  <2> QED BY <1>7, <2>1 DEF ReadGo, TypeInv, ClassicTypeOK, LinesOK, Running, Receiving
<1>8. CASE ReadDone
  <2>1. down' \in Seq(DownLines)
    BY <1>8, Getting DEF ReadDone, TypeInv
  <2> QED BY <1>8, <2>1 DEF ReadDone, TypeInv, ClassicTypeOK, LinesOK, Running, Receiving
<1>9. CASE MirrorDelete
  BY <1>9 DEF MirrorDelete, TypeInv, ClassicTypeOK, LinesOK, Running, Receiving
<1>10. CASE SendBye
  <2>1. up' \in Seq(UpLines)
    BY <1>10, LineTypes, Answering DEF SendBye, TypeInv
  <2> QED BY <1>10, <2>1 DEF SendBye, TypeInv, ClassicTypeOK, LinesOK
<1>11. CASE Fail
  BY <1>11 DEF Fail, TypeInv, ClassicTypeOK, LinesOK
<1> QED BY <1>1, <1>2, <1>3, <1>4, <1>5, <1>6, <1>7, <1>8, <1>9, <1>10, <1>11 DEF ClientStep

LEMMA TypeStep == TypeInv /\ [ClassicNext]_cvars => TypeInv'
<1> SUFFICES ASSUME TypeInv, [ClassicNext]_cvars PROVE TypeInv'
  OBVIOUS
<1> USE DEF walkVars, sourceVars, serverVars, netVars, diskVars, mirrorVars, historyVars,
            clientVars, passVars
<1>1. CASE SourceStep
  BY <1>1, TypeSource DEF SourceStep
<1>2. CASE Operator
  BY <1>2 DEF Operator, StopWriters, CreateFlag, TypeInv, ClassicTypeOK, LinesOK
<1>3. CASE IdleTimeout
  BY <1>3 DEF IdleTimeout, TypeInv, ClassicTypeOK, LinesOK
<1>4. CASE Drop
  <2>1. down' \in Seq(DownLines) /\ up' \in Seq(UpLines)
    BY <1>4, PrefixLines DEF Drop, TypeInv, LinesOK
  <2>2. drops' \in 0..MaxDrops
    BY <1>4, ClassicAssumption DEF Drop, TypeInv, ClassicTypeOK
  <2>3. link' = FALSE /\ UNCHANGED <<sourceVars, serverVars, clientVars, passVars>>
    BY <1>4 DEF Drop
  <2> QED BY <2>1, <2>2, <2>3 DEF TypeInv, ClassicTypeOK, LinesOK
<1>5. CASE Rerun
  BY <1>5, ClassicAssumption DEF Rerun, TypeInv, ClassicTypeOK, LinesOK, Running, Receiving
<1>6. CASE UNCHANGED cvars
  BY <1>6 DEF cvars, TypeInv, ClassicTypeOK, LinesOK
<1> QED BY <1>1, <1>2, <1>3, <1>4, <1>5, <1>6, TypeServer, TypeClient DEF ClassicNext

\* Every variable keeps its type.
THEOREM ClassicType == ClassicSpec => []ClassicTypeOK
<1>1. TypeInv => ClassicTypeOK
  BY DEF TypeInv
<1> QED BY <1>1, TypeInit, TypeStep, PTL DEF ClassicSpec

------------------------------------------------------------------------------
(* The lines under way.  Which they are fixes where the two sides are.       *)

InDown(type) == \E l \in ToSet(down) : l.type = type
InUp(type) == \E l \in ToSet(up) : l.type = type

AtRest == server \in {"command", "accept", "exited"}
Finished == client \in {"bye", "clean"} \/ (client = "incomplete" /\ pruned # {})

UpChannel ==
    /\ Len(up) <= 1
    /\ up # <<>> => server \in {"command", "mask"}
    /\ InUp("sync") => server = "command" /\ down = <<>> /\ seen = {} /\ pending = {}
    /\ InUp("mask") => server = "mask" /\ down = <<>>
    /\ InUp("bye") => server = "command" /\ delivered

DownChannel ==
    /\ Ordered(down)
    /\ link => server \in InSession
    /\ InDown("offer") => up = <<>> /\ server \in {"mask", "accept", "exited"}
    /\ InDown("done") => up = <<>> /\ AtRest
    /\ link /\ server = "bodies" => \A l \in ToSet(down) : Fetched(l.type)

Stages ==
    /\ client \in Receiving \union {"mirror"} => pruned = {}
    /\ client \in {"pass", "between", "mirror", "bye", "clean"} => pending = {}
    /\ client \in {"mirror", "bye"} => up = <<>>
    /\ client = "mirror" \/ Finished => down = <<>> /\ AtRest /\ ~InUp("sync")
    /\ client \in {"bye", "clean"} => delivered

Channel == UpChannel /\ DownChannel /\ Stages

LEMMA UpEmpty ==
    ASSUME LinesOK, UpChannel, server \notin {"command", "mask"}
    PROVE  up = <<>> /\ \A type : ~InUp(type)
  BY FewLines DEF UpChannel, InUp, ToSet

LEMMA UpHead ==
    ASSUME LinesOK, UpChannel, up # <<>>
    PROVE  /\ Tail(up) = <<>> /\ Head(up) \in ToSet(up) /\ InUp(Head(up).type)
           /\ \A l \in ToSet(up) : l = Head(up)
<1>1. Len(up) = 1
  <2>1. up \in Seq(UpLines)
    BY DEF LinesOK
  <2>2. Len(up) \in Nat \ {0}
    BY <2>1, EmptySeq, Zenon
  <2>3. Len(up) <= 1
    BY DEF UpChannel
  <2>4. \A n \in Nat \ {0} : n <= 1 => n = 1
    OBVIOUS
  <2> QED BY <2>2, <2>3, <2>4, Zenon
<1>2. Tail(up) = <<>> /\ Head(up) \in ToSet(up)
  BY <1>1, TailLines DEF LinesOK
<1>3. ToSet(up) = {Head(up)} \union ToSet(Tail(up))
  BY TailLines DEF LinesOK
<1>4. ToSet(<<>>) = {}
  BY FewLines
<1> QED BY <1>2, <1>3, <1>4 DEF InUp

LEMMA NoLines ==
    ToSet(<<>>) = {} /\ Len(<<>>) = 0 /\ Ordered(<<>>)
<1>1. Len(<<>>) = 0 /\ ToSet(<<>>) = {}
  BY FewLines
<1> QED BY <1>1 DEF Ordered

LEMMA OneLine ==
    ASSUME NEW l
    PROVE  Len(<<l>>) = 1 /\ ToSet(<<l>>) = {l} /\ Append(<<>>, l) = <<l>>
<1>1. <<l>> \in Seq({l}) /\ ToSet(<<l>>) = {l}
  BY FewLines
<1>2. Len(<<l>>) = 1 /\ Append(<<>>, l) = <<l>>
  OBVIOUS
<1> QED BY <1>1, <1>2

\* What the server sends outside a bundle's answer leaves the order as it is.
LEMMA SendingOne ==
    ASSUME LinesOK, DownChannel, NEW l \in DownLines, ToClient(<<l>>),
           server \in {"walk", "bodies", "cutover"}, Fetched(l.type) => server = "bodies"
    PROVE  /\ Ordered(down')
           /\ link => ToSet(down') = ToSet(down) \union {l}
           /\ ~link => down' = down
<1>1. <<l>> \in Seq(DownLines)
  BY FewLines
<1>2. ToSet(<<l>>) = {l}
  BY FewLines
<1>3. link => ToSet(down') = ToSet(down) \union {l}
  BY <1>1, <1>2, Sending
<1>4. \A m \in ToSet(down) : ~Closing(m.type)
  BY DEF DownChannel, InDown, AtRest, Closing
<1>5. link => Ordered(down \o <<l>>)
  <2> SUFFICES ASSUME link PROVE Ordered(down \o <<l>>)
    OBVIOUS
  <2>1. Fetched(l.type) => \A m \in ToSet(down) : Fetched(m.type)
    BY DEF DownChannel
  <2>2. down \in Seq(DownLines) /\ Ordered(down)
    BY DEF DownChannel, LinesOK
  <2> QED BY <2>1, <2>2, <1>4, OrderedAppend
<1>6. Ordered(down')
  BY <1>5 DEF ToClient, DownChannel
<1> QED BY <1>3, <1>6 DEF ToClient

LEMMA ChannelInit == ClassicInit => Channel
<1> SUFFICES ASSUME ClassicInit PROVE Channel
  OBVIOUS
<1>1. down = <<>> /\ up = <<>> /\ link = FALSE /\ client = "idle"
  BY DEF ClassicInit
<1>2. ToSet(down) = {} /\ ToSet(up) = {} /\ Len(up) = 0 /\ Ordered(down)
  BY <1>1, NoLines
<1> QED BY <1>1, <1>2 DEF Channel, UpChannel, DownChannel, Stages, InUp, InDown, Finished, Receiving

LEMMA ChannelServer ==
    ASSUME TypeInv, Channel, ServerStep
    PROVE  Channel'
<1> USE DEF walkVars, sourceVars, serverVars, netVars, diskVars, mirrorVars, historyVars,
            clientVars, passVars
<1>0. LinesOK /\ UpChannel /\ DownChannel /\ Stages
  BY DEF TypeInv, Channel
<1>1. ASSUME up' = <<>>
      PROVE  UpChannel' /\ ~InUp("sync")'
  BY <1>1, NoLines DEF UpChannel, InUp
<1>2. CASE ReadSync
  <2>1. up' = <<>> /\ down = <<>> /\ server' = "walk" /\ server = "command"
    BY <1>0, <1>2, UpHead DEF ReadSync, UpChannel, StartPass
  <2>2. ToSet(down) = {}
    BY <2>1, NoLines
  <2>3. UNCHANGED <<link, down, clientVars>> /\ InUp("sync")
    BY <1>0, <1>2, UpHead DEF ReadSync
  <2>4. DownChannel'
    BY <1>0, <2>1, <2>2, <2>3 DEF DownChannel, InDown, InSession, Walking
  <2>5. Stages'
    BY <1>0, <2>1, <2>3 DEF Stages, Finished
  <2> QED BY <1>1, <2>1, <2>4, <2>5 DEF Channel
<1>3. CASE OfferBundle \/ OfferLarge
  <2>1. PICK items \in SUBSET (File \X Versions) : ToClient(<<Line("offer", items)>>)
    BY <1>3 DEF OfferBundle, OfferLarge, TypeInv, ClassicTypeOK
  <2>2. server = "walk" /\ server' = "mask" /\ UNCHANGED <<link, up, clientVars>>
    BY <1>3 DEF OfferBundle, OfferLarge
  <2>3. up = <<>> /\ Line("offer", items) \in DownLines /\ Line("offer", items).type = "offer"
    BY <1>0, <2>2, UpEmpty DEF Line, DownLines
  <2>4. /\ Ordered(down')
        /\ link => ToSet(down') = ToSet(down) \union {Line("offer", items)}
        /\ ~link => down' = down
    BY <1>0, <2>1, <2>2, <2>3, SendingOne DEF Fetched
  <2>5. DownChannel'
    BY <1>0, <2>2, <2>3, <2>4 DEF DownChannel, InDown, AtRest, InSession, Walking
  <2>6. Stages'
    BY <1>0, <2>2 DEF Stages, Finished, AtRest
  <2> QED BY <1>1, <2>2, <2>3, <2>5, <2>6 DEF Channel
<1>4. CASE ReadMask
  <2>1. /\ up' = <<>> /\ down = <<>> /\ server' \in {"walk", "bodies"} /\ server = "mask"
        /\ UNCHANGED <<link, down, clientVars>>
    BY <1>0, <1>4, UpHead DEF ReadMask, UpChannel
  <2>2. ToSet(down) = {}
    BY <2>1, NoLines
  <2>3. DownChannel'
    BY <1>0, <2>1, <2>2 DEF DownChannel, InDown, InSession, Walking
  <2>4. Stages'
    BY <1>0, <2>1 DEF Stages, Finished, AtRest
  <2> QED BY <1>1, <2>1, <2>3, <2>4 DEF Channel
<1>5. CASE EndPass
  <2>1. server = "walk" /\ UNCHANGED <<link, up, clientVars>>
    BY <1>5 DEF EndPass
  <2>2. up = <<>> /\ \A m \in ToSet(down) : ~Closing(m.type)
    BY <1>0, <2>1, UpEmpty DEF DownChannel, InDown, AtRest, Closing
  <2>3. Stages'
    BY <1>0, <1>5, <2>1 DEF EndPass, Stages, Finished, AtRest
  <2>4. CASE cfg.cutover /\ phase = 1
    <3>1. server' = "cutover" /\ ToClient(<<Line("passend", {})>>)
      BY <1>5, <2>4 DEF EndPass
    <3>2. Line("passend", {}) \in DownLines /\ Line("passend", {}).type = "passend"
      BY DEF Line, DownLines
    <3>3. /\ Ordered(down')
          /\ link => ToSet(down') = ToSet(down) \union {Line("passend", {})}
          /\ ~link => down' = down
      BY <1>0, <2>1, <3>1, <3>2, SendingOne DEF Fetched
    <3>4. DownChannel'
      BY <1>0, <2>1, <2>2, <3>1, <3>2, <3>3
         DEF DownChannel, InDown, AtRest, InSession, Walking, Closing
    <3> QED BY <1>1, <2>1, <2>2, <2>3, <3>4 DEF Channel
  <2>5. CASE ~(cfg.cutover /\ phase = 1)
    <3>1. server' = "command" /\ ToClient(<<Line("passend", {}), Line("done", {})>>)
      BY <1>5, <2>5 DEF EndPass
    <3>2. /\ Line("passend", {}) \in DownLines /\ Line("passend", {}).type = "passend"
          /\ Line("done", {}) \in DownLines /\ Line("done", {}).type = "done"
      BY DEF Line, DownLines
    <3>3. link => ToSet(down') = ToSet(down) \union {Line("passend", {}), Line("done", {})}
      BY <1>0, <3>1, LineTypes, Sending
    <3>4. Ordered(down')
      <4>1. Ordered(down) /\ down \in Seq(DownLines)
        BY <1>0 DEF DownChannel, LinesOK
      <4>2. Ordered(down \o <<Line("passend", {}), Line("done", {})>>)
        BY <2>2, <3>2, <4>1, OrderedAppendTwo DEF Closing, Fetched
      <4> QED BY <3>1, <4>1, <4>2 DEF ToClient
    <3>5. DownChannel'
      BY <1>0, <2>1, <2>2, <3>1, <3>2, <3>3, <3>4
         DEF DownChannel, InDown, AtRest, InSession, Walking, Closing, ToClient
    <3> QED BY <1>1, <2>1, <2>2, <2>3, <3>5 DEF Channel
  <2> QED BY <2>4, <2>5
<1>6. CASE SeeFlag
  <2>1. /\ server = "cutover" /\ server' = "walk" /\ UNCHANGED <<link, up, clientVars>>
        /\ ToClient(<<Line("go", {})>>)
    BY <1>6 DEF SeeFlag, StartPass
  <2>2. up = <<>> /\ Line("go", {}) \in DownLines /\ Line("go", {}).type = "go"
    BY <1>0, <2>1, UpEmpty DEF Line, DownLines
  <2>3. /\ Ordered(down')
        /\ link => ToSet(down') = ToSet(down) \union {Line("go", {})}
        /\ ~link => down' = down
    BY <1>0, <2>1, <2>2, SendingOne DEF Fetched
  <2>4. DownChannel'
    BY <1>0, <2>1, <2>2, <2>3 DEF DownChannel, InDown, AtRest, InSession, Walking
  <2>5. Stages'
    BY <1>0, <2>1 DEF Stages, Finished, AtRest
  <2> QED BY <1>1, <2>1, <2>2, <2>4, <2>5 DEF Channel
<1>7. CASE ReadBye
  <2>1. /\ up' = <<>> /\ server' \in {"exited", "accept"} /\ link' = FALSE /\ server = "command"
        /\ UNCHANGED <<down, clientVars>>
    BY <1>0, <1>7, UpHead DEF ReadBye
  <2>2. DownChannel'
    BY <1>0, <2>1 DEF DownChannel, InDown, AtRest
  <2>3. Stages'
    BY <1>0, <1>1, <2>1 DEF Stages, Finished, AtRest
  <2> QED BY <1>1, <2>1, <2>2, <2>3 DEF Channel
<1>8. CASE AbortSession
  <2>1. ~link /\ up = <<>> /\ server' = "accept" /\ UNCHANGED <<link, down, up, clientVars>>
    BY <1>8 DEF AbortSession
  <2>2. DownChannel'
    BY <1>0, <2>1 DEF DownChannel, InDown, AtRest
  <2>3. Stages'
    BY <1>0, <1>1, <2>1 DEF Stages, Finished, AtRest
  <2> QED BY <1>1, <2>1, <2>2, <2>3 DEF Channel
<1>9. ASSUME NEW f \in File, LookAt(f) \/ OpenFile(f) PROVE Channel'
  <2>1. UNCHANGED <<server, netVars, clientVars>>
    BY <1>9 DEF LookAt, OpenFile
  <2> QED BY <1>0, <2>1
          DEF Channel, UpChannel, DownChannel, Stages, InUp, InDown, Finished, AtRest
<1>10. ASSUME NEW f \in File,
              CannotOpen(f) \/ \E v \in Versions : SendBody(f, v)
       PROVE  Channel'
  <2>1. /\ server = "bodies" /\ server' \in {"walk", "bodies"}
        /\ UNCHANGED <<link, up, clientVars>>
    BY <1>10 DEF CannotOpen, SendBody, Sent
  <2>2. PICK l \in DownLines : Fetched(l.type) /\ ToClient(<<l>>)
    <3>1. CASE CannotOpen(f)
      <4>1. Line("skip", {<<f, 0>>}) \in DownLines /\ Fetched(Line("skip", {<<f, 0>>}).type)
        BY DEF Line, DownLines, Fetched
      <4> QED BY <3>1, <4>1 DEF CannotOpen
    <3>2. ASSUME NEW v \in Versions, SendBody(f, v)
          PROVE  \E l \in DownLines : Fetched(l.type) /\ ToClient(<<l>>)
      <4>1. PICK d \in Versions \union {Torn} : ToClient(<<Line("body", {<<f, d>>})>>)
        BY <3>2 DEF SendBody, Readable, TypeInv, ClassicTypeOK
      <4>2. Line("body", {<<f, d>>}) \in DownLines /\ Fetched(Line("body", {<<f, d>>}).type)
        BY DEF Line, DownLines, Fetched
      <4> QED BY <4>1, <4>2
    <3> QED BY <1>10, <3>1, <3>2
  <2>3. /\ Ordered(down')
        /\ link => ToSet(down') = ToSet(down) \union {l}
        /\ ~link => down' = down
    BY <1>0, <2>1, <2>2, SendingOne
  <2>4. up = <<>>
    BY <1>0, <2>1, UpEmpty
  <2>5. DownChannel'
    BY <1>0, <2>1, <2>2, <2>3, <2>4 DEF DownChannel, InDown, AtRest, InSession, Walking, Fetched
  <2>6. Stages'
    BY <1>0, <2>1 DEF Stages, Finished, AtRest
  <2> QED BY <1>1, <2>1, <2>4, <2>5, <2>6 DEF Channel
<1> QED BY <1>2, <1>3, <1>4, <1>5, <1>6, <1>7, <1>8, <1>9, <1>10 DEF ServerStep

LEMMA ChannelClient ==
    ASSUME TypeInv, Channel, ClientStep
    PROVE  Channel'
<1> USE DEF walkVars, sourceVars, serverVars, netVars, diskVars, mirrorVars, historyVars,
            clientVars, passVars
<1>0. LinesOK /\ UpChannel /\ DownChannel /\ Stages
  BY DEF TypeInv, Channel
\* A line is read and nothing else is sent or received.
<1>1. ASSUME NEW type, Gets(type), UNCHANGED <<up, server, link>>
      PROVE  /\ DownChannel' /\ ToSet(down') \subseteq ToSet(down) /\ InDown(type)
             /\ Closing(type) => down' = <<>>
             /\ type \in {"offer", "done"} => up = <<>>
  <2>1. /\ down # <<>> /\ down' = Tail(down) /\ Head(down) \in ToSet(down)
        /\ Head(down).type = type /\ ToSet(down') \subseteq ToSet(down)
        /\ down \in Seq(DownLines)
    BY <1>0, <1>1, Getting DEF LinesOK
  <2>2. Ordered(down') /\ (Closing(type) => down' = <<>>)
    BY <1>0, <2>1, OrderedTail DEF DownChannel
  <2> QED BY <1>0, <1>1, <2>1, <2>2 DEF DownChannel, InDown, AtRest
<1>2. ASSUME NEW type, Gets(type), UNCHANGED <<up, server, seen, pending, delivered>>
      PROVE  UpChannel' /\ ~InUp("sync") /\ ~InUp("mask")
  BY <1>0, <1>2 DEF Gets, UpChannel, InUp
<1>3. CASE Connect
  <2>1. /\ server' = "command" /\ link' = TRUE /\ down' = <<>> /\ up' = <<Line("sync", {})>>
        /\ client' = "pass" /\ pruned' = {} /\ seen' = {} /\ pending' = {}
    BY <1>3 DEF Connect
  <2>2. ToSet(down') = {} /\ Ordered(down')
    BY <2>1, NoLines
  <2>3. Len(up') = 1 /\ ToSet(up') = {Line("sync", {})} /\ Line("sync", {}).type = "sync"
    BY <2>1, FewLines DEF Line
  <2>4. UpChannel'
    BY <2>1, <2>3 DEF UpChannel, InUp
  <2>5. DownChannel'
    BY <2>1, <2>2 DEF DownChannel, InDown, InSession
  <2>6. Stages'
    BY <2>1 DEF Stages, Finished
  <2> QED BY <2>4, <2>5, <2>6 DEF Channel
<1>4. CASE Refused
  <2>1. /\ client' = "refused"
        /\ UNCHANGED <<server, link, up, down, pruned, delivered, pending, seen>>
    BY <1>4 DEF Refused
  <2> QED BY <1>0, <2>1
          DEF Channel, UpChannel, DownChannel, Stages, InUp, InDown, Finished, AtRest, Receiving
<1>5. CASE ReadOffer
  <2> DEFINE wanted == {i \in Head(down).items : content[i[1]] = 0 \/ stamp[i[1]] # i[2]}
  <2>1. /\ down # <<>> /\ down' = Tail(down) /\ Head(down) \in ToSet(down)
        /\ Head(down).type = "offer" /\ Head(down) \in DownLines
        /\ down \in Seq(DownLines)
    BY <1>0, <1>5, Getting DEF ReadOffer, LinesOK
  <2>2. Ordered(down') /\ down' = <<>>
    BY <1>0, <2>1, OrderedTail DEF DownChannel, Closing
  <2>3. /\ client = "pass" /\ pending' = wanted /\ UNCHANGED <<server, link, pruned, delivered>>
        /\ client' = IF wanted = {} THEN "pass" ELSE "bodies"
        /\ ToServer(Line("mask", wanted))
    BY <1>5 DEF ReadOffer
  <2>4. up = <<>> /\ server \in {"mask", "accept", "exited"}
    BY <1>0, <2>1 DEF DownChannel, InDown
  <2> HIDE DEF wanted
  <2>5. Line("mask", wanted).type = "mask"
    BY DEF Line
  <2>6. link => /\ up' = <<Line("mask", wanted)>> /\ Len(up') = 1
                /\ ToSet(up') = {Line("mask", wanted)}
    BY <2>3, <2>4, OneLine DEF ToServer
  <2>7. link => server = "mask"
    BY <1>0, <2>4 DEF DownChannel, InSession, Walking
  <2>8. ~link => up' = <<>> /\ Len(up') = 0 /\ ToSet(up') = {}
    <3>1. ~link => up' = <<>>
      BY <2>3, <2>4 DEF ToServer
    <3> QED BY <3>1, NoLines
  <2>9. UpChannel'
    <3>1. Len(up') \in {0, 1}
      BY <2>6, <2>8, Zenon
    <3>4. Len(up') <= 1
      <4>1. \A n \in {0, 1} : n <= 1
        OBVIOUS
      <4> QED BY <3>1, <4>1, Zenon
    <3>2. CASE link
      <4>1. ToSet(up') = {Line("mask", wanted)}
        BY <2>6, <3>2
      <4> QED BY <2>2, <2>3, <2>5, <2>7, <3>4, <3>2, <4>1 DEF UpChannel, InUp
    <3>3. CASE ~link
      BY <2>8, <3>4, <3>3 DEF UpChannel, InUp
    <3> QED BY <3>2, <3>3
  <2>10. ToSet(down') = {}
    BY <2>2, NoLines
  <2>11. DownChannel'
    BY <1>0, <2>2, <2>3, <2>7, <2>10 DEF DownChannel, InDown, InSession, Walking
  <2>12. Stages'
    BY <1>0, <2>3 DEF Stages, Finished, Receiving
  <2> QED BY <2>9, <2>11, <2>12 DEF Channel
<1>6. ASSUME NEW f \in File, NEW type,
             Gets(type), Got(f), client = "bodies",
             UNCHANGED <<server, link, up, seen, pruned, delivered>>
      PROVE  Channel'
  <2>1. client' \in {"pass", "bodies"} /\ (client' = "pass" => pending' = {})
    BY <1>6 DEF Got
  <2>2. UpChannel'
    BY <1>0, <1>6 DEF Gets, UpChannel, InUp
  <2>3. Stages'
    BY <1>0, <1>6, <2>1 DEF Stages, Finished, Receiving
  <2> QED BY <1>1, <1>6, <2>2, <2>3 DEF Channel
<1>7. ASSUME NEW f \in File, NEW v \in Versions, ReadBody(f, v) PROVE Channel'
  BY <1>6, <1>7 DEF ReadBody
<1>8. ASSUME NEW f \in File, ReadSkip(f) PROVE Channel'
  BY <1>6, <1>8 DEF ReadSkip
<1>9. CASE ReadPassEnd
  <2>1. /\ Gets("passend") /\ client = "pass" /\ client' = "between"
        /\ UNCHANGED <<server, link, up, seen, pending, pruned, delivered>>
    BY <1>9 DEF ReadPassEnd
  <2>2. Stages'
    BY <1>0, <2>1 DEF Stages, Finished, Receiving
  <2> QED BY <1>1, <1>2, <2>1, <2>2 DEF Channel
<1>10. CASE ReadGo
  <2>1. /\ Gets("go") /\ client = "between" /\ client' = "pass" /\ seen' = {}
        /\ UNCHANGED <<server, link, up, pending, pruned, delivered>>
    BY <1>10 DEF ReadGo
  <2>2. Stages'
    BY <1>0, <2>1 DEF Stages, Finished, Receiving
  <2>3. UpChannel'
    BY <1>0, <2>1 DEF Gets, UpChannel, InUp
  <2> QED BY <1>1, <2>1, <2>2, <2>3 DEF Channel
<1>11. CASE ReadDone
  <2>1. /\ Gets("done") /\ client = "between" /\ client' = "mirror"
        /\ UNCHANGED <<server, link, up, seen, pending, pruned, delivered>>
    BY <1>11 DEF ReadDone
  <2>2. AtRest /\ up = <<>> /\ down' = <<>>
    BY <1>0, <1>1, <2>1 DEF DownChannel, Closing
  <2>3. Stages'
    BY <1>0, <1>2, <2>1, <2>2 DEF Stages, Finished, Receiving, AtRest, InUp
  <2> QED BY <1>1, <1>2, <2>1, <2>3 DEF Channel
<1>12. CASE MirrorDelete
  <2>1. /\ client = "mirror" /\ client' = "bye" /\ delivered' = TRUE
        /\ UNCHANGED <<server, link, up, down, seen, pending>>
    BY <1>12 DEF MirrorDelete
  <2>2. Stages'
    BY <1>0, <2>1 DEF Stages, Finished, Receiving, AtRest, InUp
  <2>3. UpChannel' /\ DownChannel'
    BY <1>0, <2>1 DEF UpChannel, DownChannel, InUp, InDown, AtRest
  <2> QED BY <2>2, <2>3 DEF Channel
<1>13. CASE SendBye
  <2>1. /\ client = "bye" /\ ToServer(Line("bye", {}))
        /\ client' \in {"clean", "incomplete"}
        /\ UNCHANGED <<server, link, down, seen, pending, pruned, delivered>>
    BY <1>13 DEF SendBye
  <2>2. up = <<>> /\ delivered /\ down = <<>> /\ AtRest
    BY <1>0, <2>1 DEF Stages, Finished
  <2>3. Line("bye", {}).type = "bye" /\ ToSet(down) = {}
    BY <2>2, NoLines DEF Line
  <2>4. link => /\ up' = <<Line("bye", {})>> /\ Len(up') = 1
                /\ ToSet(up') = {Line("bye", {})}
    BY <2>1, <2>2, OneLine DEF ToServer
  <2>5. link => server = "command"
    BY <1>0, <2>2 DEF DownChannel, InSession, Walking, AtRest
  <2>6. ~link => up' = <<>> /\ Len(up') = 0 /\ ToSet(up') = {}
    <3>1. ~link => up' = <<>>
      BY <2>1, <2>2 DEF ToServer
    <3> QED BY <3>1, NoLines
  <2>7. UpChannel'
    <3>1. Len(up') \in {0, 1}
      BY <2>4, <2>6, Zenon
    <3>4. Len(up') <= 1
      <4>1. \A n \in {0, 1} : n <= 1
        OBVIOUS
      <4> QED BY <3>1, <4>1, Zenon
    <3>2. CASE link
      <4>1. ToSet(up') = {Line("bye", {})}
        BY <2>4, <3>2
      <4> QED BY <2>1, <2>2, <2>3, <2>5, <3>4, <3>2, <4>1 DEF UpChannel, InUp
    <3>3. CASE ~link
      BY <2>6, <3>4, <3>3 DEF UpChannel, InUp
    <3> QED BY <3>2, <3>3
  <2>8. DownChannel'
    BY <1>0, <2>1, <2>3 DEF DownChannel, InDown
  <2>9. Stages'
    BY <1>0, <2>1, <2>2, <2>3, <2>4, <2>6 DEF Stages, Finished, Receiving, AtRest, InUp
  <2> QED BY <2>7, <2>8, <2>9 DEF Channel
<1>14. CASE Fail
  <2>1. /\ client \in Receiving /\ client' = "incomplete"
        /\ UNCHANGED <<server, link, up, down, seen, pending, pruned, delivered>>
    BY <1>14 DEF Fail
  <2>2. Stages'
    BY <1>0, <2>1 DEF Stages, Finished, Receiving
  <2>3. UpChannel' /\ DownChannel'
    BY <1>0, <2>1 DEF UpChannel, DownChannel, InUp, InDown, AtRest
  <2> QED BY <2>2, <2>3 DEF Channel
<1> QED BY <1>3, <1>4, <1>5, <1>7, <1>8, <1>9, <1>10, <1>11, <1>12, <1>13, <1>14
        DEF ClientStep

LEMMA ChannelStep == TypeInv /\ Channel /\ [ClassicNext]_cvars => Channel'
<1> SUFFICES ASSUME TypeInv, Channel, [ClassicNext]_cvars PROVE Channel'
  OBVIOUS
<1> USE DEF walkVars, sourceVars, serverVars, netVars, diskVars, mirrorVars, historyVars,
            clientVars, passVars
<1>0. LinesOK /\ UpChannel /\ DownChannel /\ Stages
  BY DEF TypeInv, Channel
<1>1. CASE SourceStep \/ Operator \/ UNCHANGED cvars
  <2>1. UNCHANGED <<server, link, up, down, client, seen, pending, pruned, delivered>>
    BY <1>1 DEF SourceStep, WriteFile, RemoveFile, Change, Operator, StopWriters, CreateFlag, cvars
  <2> QED BY <1>0, <2>1
          DEF Channel, UpChannel, DownChannel, Stages, InUp, InDown, Finished, AtRest
<1>2. CASE IdleTimeout
  <2>1. /\ server = "accept" /\ server' = "exited"
        /\ UNCHANGED <<link, up, down, client, seen, pending, pruned, delivered>>
    BY <1>2 DEF IdleTimeout
  <2>2. ~link /\ up = <<>>
    BY <1>0, <2>1, UpEmpty DEF DownChannel, InSession, Walking
  <2> QED BY <1>0, <2>1, <2>2
          DEF Channel, UpChannel, DownChannel, Stages, InUp, InDown, Finished, AtRest
<1>3. CASE Drop
  <2>1. PICK k \in 0..Len(down) : down' = SubSeq(down, 1, k)
    BY <1>3 DEF Drop
  <2>2. PICK m \in 0..Len(up) : up' = SubSeq(up, 1, m)
    BY <1>3 DEF Drop
  <2>3. link' = FALSE /\ UNCHANGED <<server, client, seen, pending, pruned, delivered>>
    BY <1>3 DEF Drop
  <2>4. /\ ToSet(down') \subseteq ToSet(down) /\ (down = <<>> => down' = <<>>)
        /\ Ordered(down')
    BY <1>0, <2>1, PrefixLines DEF LinesOK, DownChannel
  <2>5. ToSet(up') \subseteq ToSet(up) /\ (up = <<>> => up' = <<>>)
    BY <1>0, <2>2, PrefixLines DEF LinesOK
  <2>6. Len(up') <= 1
    <3>1. Len(up') = m /\ Len(up) \in Nat
      BY <1>0, <2>2, SubSeqProperties, LenProperties DEF LinesOK
    <3> QED BY <1>0, <3>1 DEF UpChannel
  <2>7. UpChannel'
    BY <1>0, <2>3, <2>4, <2>5, <2>6 DEF UpChannel, InUp
  <2>8. DownChannel'
    BY <1>0, <2>3, <2>4, <2>5 DEF DownChannel, InDown, AtRest
  <2>9. Stages'
    BY <1>0, <2>3, <2>4, <2>5 DEF Stages, Finished, AtRest, InUp
  <2> QED BY <2>7, <2>8, <2>9 DEF Channel
<1>4. CASE Rerun
  <2>1. client' = "idle" /\ UNCHANGED <<server, link, up, down, seen, pending, pruned, delivered>>
    BY <1>4 DEF Rerun
  <2> QED BY <1>0, <2>1
          DEF Channel, UpChannel, DownChannel, Stages, InUp, InDown, Finished, AtRest, Receiving
<1> QED BY <1>1, <1>2, <1>3, <1>4, ChannelServer, ChannelClient DEF ClassicNext

\* The server is out for good only if it is idle or done with a client that was
\* through with its mirror: a BYE is sent after it, and nothing else leads there.
DeliveredInv == TypeInv /\ Channel /\ OnceServerDelivered

LEMMA DeliveredStep == TypeInv /\ Channel /\ OnceServerDelivered /\ [ClassicNext]_cvars
                           => OnceServerDelivered'
<1> SUFFICES ASSUME TypeInv, Channel, OnceServerDelivered, [ClassicNext]_cvars
             PROVE  OnceServerDelivered'
  OBVIOUS
<1>1. CASE ReadBye
  <2>1. delivered
    BY <1>1, UpHead DEF ReadBye, TypeInv, Channel, UpChannel
  <2> QED BY <1>1, <2>1 DEF ReadBye, OnceServerDelivered, clientVars, historyVars
<1>2. CASE MirrorDelete
  BY <1>2 DEF MirrorDelete, OnceServerDelivered
<1>3. CASE ~ReadBye /\ ~MirrorDelete
  <2>1. delivered' = delivered
    BY <1>3 DEF ClassicNext, SourceStep, WriteFile, RemoveFile, Change, Operator, StopWriters,
       CreateFlag, ServerStep, ReadSync, OfferBundle, OfferLarge, ReadMask, EndPass, SeeFlag,
       AbortSession, LookAt, OpenFile, CannotOpen, SendBody, IdleTimeout, Drop, ClientStep,
       Connect, Refused, ReadOffer, ReadBody, ReadSkip, ReadPassEnd, ReadGo, ReadDone, SendBye,
       Fail, Rerun, cvars, clientVars, historyVars
  <2>2. stop' = "once" => stop = "once"
    BY <1>3 DEF ClassicNext, SourceStep, WriteFile, RemoveFile, Change, Operator, StopWriters,
       CreateFlag, ServerStep, ReadSync, OfferBundle, OfferLarge, ReadMask, EndPass, SeeFlag,
       AbortSession, LookAt, OpenFile, CannotOpen, SendBody, IdleTimeout, Drop, ClientStep,
       Connect, Refused, ReadOffer, ReadBody, ReadSkip, ReadPassEnd, ReadGo, ReadDone, SendBye,
       Fail, Rerun, cvars, serverVars
  <2> QED BY <2>1, <2>2 DEF OnceServerDelivered
<1> QED BY <1>1, <1>2, <1>3

\* A one-time server leaves for a BYE, which a client sends after its mirror.
THEOREM OnceDelivers == ClassicSpec => []OnceServerDelivered
<1>1. ClassicInit => DeliveredInv
  BY TypeInit, ChannelInit DEF DeliveredInv, ClassicInit, OnceServerDelivered
<1>2. DeliveredInv /\ [ClassicNext]_cvars => DeliveredInv'
  BY TypeStep, ChannelStep, DeliveredStep DEF DeliveredInv
<1>3. DeliveredInv => OnceServerDelivered
  BY DEF DeliveredInv
<1> QED BY <1>1, <1>2, <1>3, PTL DEF ClassicSpec

------------------------------------------------------------------------------
(* What a step adds. *)

LEMMA NewLine ==
    ASSUME TypeInv, [ClassicNext]_cvars, NEW l \in ToSet(down'), l \notin ToSet(down)
    PROVE  /\ link
           /\ \/ l.type = "offer" /\ OfferBundle /\ l.items = bundle
              \/ l.type = "offer" /\ OfferLarge /\ l.items = held
              \/ /\ l.type = "body"
                 /\ \E f \in File, v \in Versions :
                        /\ SendBody(f, v)
                        /\ \E d \in Readable(f, v) : l.items = {<<f, d>>}
              \/ l.type = "skip" /\ \E f \in File : CannotOpen(f) /\ l.items = {<<f, 0>>}
              \/ l.type = "passend" /\ EndPass
              \/ l.type = "done" /\ EndPass /\ ~(cfg.cutover /\ phase = 1)
              \/ l.type = "go" /\ SeeFlag
<1> USE DEF walkVars, sourceVars, serverVars, netVars, diskVars, mirrorVars, historyVars,
            clientVars, passVars
<1>0. LinesOK /\ bundle \subseteq File \X Versions /\ held \subseteq File \X Versions
  BY DEF TypeInv, ClassicTypeOK
<1>1. ASSUME NEW ls \in Seq(DownLines), ToClient(ls)
      PROVE  link /\ l \in ToSet(ls)
  BY <1>0, <1>1, Sending
<1>2. ASSUME NEW type, Gets(type) PROVE FALSE
  BY <1>0, <1>2, Getting
<1>3. ASSUME OfferBundle
      PROVE  link /\ l = Line("offer", bundle)
  BY <1>0, <1>1, <1>3, LineTypes DEF OfferBundle
<1>4. ASSUME OfferLarge
      PROVE  link /\ l = Line("offer", held)
  BY <1>0, <1>1, <1>4, LineTypes DEF OfferLarge
<1>5. ASSUME EndPass
      PROVE  /\ link
             /\ \/ l = Line("passend", {})
                \/ l = Line("done", {}) /\ ~(cfg.cutover /\ phase = 1)
  <2>1. CASE cfg.cutover /\ phase = 1
    BY <1>1, <1>5, <2>1, LineTypes DEF EndPass
  <2>2. CASE ~(cfg.cutover /\ phase = 1)
    BY <1>1, <1>5, <2>2, LineTypes DEF EndPass
  <2> QED BY <2>1, <2>2
<1>6. ASSUME SeeFlag
      PROVE  link /\ l = Line("go", {})
  BY <1>1, <1>6, LineTypes DEF SeeFlag
<1>7. ASSUME NEW f \in File, CannotOpen(f)
      PROVE  link /\ l = Line("skip", {<<f, 0>>})
  BY <1>1, <1>7, LineTypes DEF CannotOpen
<1>8. ASSUME NEW f \in File, NEW v \in Versions, SendBody(f, v)
      PROVE  /\ link
             /\ \E d \in Readable(f, v) : l = Line("body", {<<f, d>>})
  <2>1. PICK d \in Readable(f, v) : ToClient(<<Line("body", {<<f, d>>})>>)
    BY <1>8 DEF SendBody
  <2>2. d \in Versions \union {Torn}
    BY <2>1 DEF Readable, TypeInv, ClassicTypeOK
  <2>3. /\ <<Line("body", {<<f, d>>})>> \in Seq(DownLines)
        /\ ToSet(<<Line("body", {<<f, d>>})>>) = {Line("body", {<<f, d>>})}
    BY <2>2, LineTypes
  <2>4. link /\ l = Line("body", {<<f, d>>})
    BY <1>1, <2>1, <2>3
  <2> QED BY <2>4
<1>9. ASSUME Drop PROVE FALSE
  BY <1>0, <1>9, PrefixLines DEF Drop, LinesOK
<1>10. ASSUME Connect PROVE FALSE
  BY <1>10, NoLines DEF Connect
<1>11. down' # down
  OBVIOUS
<1>12. \/ OfferBundle \/ OfferLarge \/ EndPass \/ SeeFlag
       \/ \E f \in File : CannotOpen(f)
       \/ \E f \in File, v \in Versions : SendBody(f, v)
  BY <1>2, <1>9, <1>10, <1>11
     DEF ClassicNext, SourceStep, WriteFile, RemoveFile, Change, Operator, StopWriters,
         CreateFlag, ServerStep, ReadSync, ReadMask, ReadBye, AbortSession, LookAt, OpenFile,
         IdleTimeout, ClientStep, Refused, ReadOffer, ReadBody, ReadSkip, ReadPassEnd, ReadGo,
         ReadDone, MirrorDelete, SendBye, Fail, Rerun, cvars
<1>13. CASE OfferBundle
  BY <1>3, <1>13 DEF Line
<1>14. CASE OfferLarge
  BY <1>4, <1>14 DEF Line
<1>15. CASE EndPass
  BY <1>5, <1>15 DEF Line
<1>16. CASE SeeFlag
  BY <1>6, <1>16 DEF Line
<1>17. ASSUME NEW f \in File, CannotOpen(f)
       PROVE  link /\ l.type = "skip" /\ CannotOpen(f) /\ l.items = {<<f, 0>>}
  BY <1>7, <1>17 DEF Line
<1>18. ASSUME NEW f \in File, NEW v \in Versions, SendBody(f, v)
       PROVE  /\ link /\ l.type = "body" /\ SendBody(f, v)
              /\ \E d \in Readable(f, v) : l.items = {<<f, d>>}
  BY <1>8, <1>18 DEF Line
<1> QED BY <1>12, <1>13, <1>14, <1>15, <1>16, <1>17, <1>18, Zenon

LEMMA NewItem ==
    ASSUME TypeInv, [ClassicNext]_cvars,
           NEW i \in (bundle \union held)', i \notin bundle \union held
    PROVE  \E f \in File : LookAt(f) /\ source[f] # 0 /\ i = <<f, source[f]>>
<1> USE DEF walkVars, sourceVars, serverVars, netVars, diskVars, mirrorVars, historyVars,
            clientVars, passVars
<1>1. \E f \in File : LookAt(f)
  BY DEF ClassicNext, SourceStep, WriteFile, RemoveFile, Change, Operator, StopWriters,
         CreateFlag, ServerStep, ReadSync, StartPass, OfferBundle, OfferLarge, ReadMask, EndPass,
         SeeFlag, ReadBye, AbortSession, OpenFile, CannotOpen, SendBody, IdleTimeout, Drop,
         ClientStep, Connect, Refused, ReadOffer, ReadBody, ReadSkip, ReadPassEnd, ReadGo,
         ReadDone, MirrorDelete, SendBye, Fail, Rerun, cvars
<1>2. ASSUME NEW f \in File, LookAt(f)
      PROVE  source[f] # 0 /\ i = <<f, source[f]>>
  BY <1>2 DEF LookAt
<1> QED BY <1>1, <1>2

LEMMA NewOpened ==
    ASSUME TypeInv, [ClassicNext]_cvars, NEW i \in opened', i \notin opened
    PROVE  \E f \in File : OpenFile(f) /\ source[f] # 0 /\ i = <<f, source[f]>>
<1> USE DEF walkVars, sourceVars, serverVars, netVars, diskVars, mirrorVars, historyVars,
            clientVars, passVars
<1>1. \E f \in File : OpenFile(f)
  BY DEF ClassicNext, SourceStep, WriteFile, RemoveFile, Change, Operator, StopWriters,
         CreateFlag, ServerStep, ReadSync, StartPass, OfferBundle, OfferLarge, ReadMask, EndPass,
         SeeFlag, ReadBye, AbortSession, LookAt, CannotOpen, SendBody, IdleTimeout, Drop,
         ClientStep, Connect, Refused, ReadOffer, ReadBody, ReadSkip, ReadPassEnd, ReadGo,
         ReadDone, MirrorDelete, SendBye, Fail, Rerun, cvars
<1>2. ASSUME NEW f \in File, OpenFile(f)
      PROVE  source[f] # 0 /\ i = <<f, source[f]>>
  BY <1>2 DEF OpenFile
<1> QED BY <1>1, <1>2

LEMMA NewPending ==
    ASSUME TypeInv, [ClassicNext]_cvars, NEW i \in pending', i \notin pending
    PROVE  /\ ReadOffer
           /\ Head(down) \in ToSet(down) /\ Head(down).type = "offer" /\ i \in Head(down).items
<1> USE DEF walkVars, sourceVars, serverVars, netVars, diskVars, mirrorVars, historyVars,
            clientVars, passVars
<1>1. ReadOffer
  BY DEF ClassicNext, SourceStep, WriteFile, RemoveFile, Change, Operator, StopWriters,
         CreateFlag, ServerStep, ReadSync, OfferBundle, OfferLarge, ReadMask, EndPass,
         SeeFlag, ReadBye, AbortSession, LookAt, OpenFile, CannotOpen, SendBody, IdleTimeout,
         Drop, ClientStep, Connect, Refused, ReadBody, ReadSkip, ReadPassEnd, ReadGo,
         ReadDone, MirrorDelete, SendBye, Fail, Rerun, cvars, Got
<1>2. down \in Seq(DownLines) /\ down # <<>> /\ Head(down).type = "offer"
  BY <1>1 DEF ReadOffer, Gets, TypeInv, LinesOK
<1> QED BY <1>1, <1>2, TailLines DEF ReadOffer

LEMMA NewSource ==
    ASSUME TypeInv, [ClassicNext]_cvars, NEW f \in File
    PROVE  /\ changes \in Nat /\ source[f] \in Nat
           /\ changes' = changes \/ changes' = changes + 1
           /\ \/ source'[f] = source[f]
              \/ source'[f] = 0
              \/ source'[f] = changes + 2 /\ changes' = changes + 1
<1> USE DEF walkVars, sourceVars, serverVars, netVars, diskVars, mirrorVars, historyVars,
            clientVars, passVars
<1>1. changes \in Nat /\ source[f] \in Nat /\ source \in [File -> {0} \union Versions]
  BY ClassicAssumption DEF TypeInv, ClassicTypeOK, Versions
<1>2. CASE \E g \in File : WriteFile(g)
  BY <1>1, <1>2 DEF WriteFile, Change
<1>3. CASE \E g \in File : RemoveFile(g)
  BY <1>1, <1>3 DEF RemoveFile, Change
<1>4. CASE ~\E g \in File : WriteFile(g) \/ RemoveFile(g)
  <2>1. UNCHANGED <<source, changes>>
    BY <1>4
       DEF ClassicNext, SourceStep, Operator, StopWriters,
           CreateFlag, ServerStep, ReadSync, OfferBundle, OfferLarge, ReadMask, EndPass,
           SeeFlag, ReadBye, AbortSession, LookAt, OpenFile, CannotOpen, SendBody, IdleTimeout,
           Drop, ClientStep, Connect, Refused, ReadOffer, ReadBody, ReadSkip, ReadPassEnd, ReadGo,
           ReadDone, MirrorDelete, SendBye, Fail, Rerun, cvars
  <2> QED BY <1>1, <2>1
<1> QED BY <1>1, <1>2, <1>3, <1>4

LEMMA NewCopy ==
    ASSUME TypeInv, [ClassicNext]_cvars, NEW f \in File
    PROVE  \/ content'[f] = content[f] /\ stamp'[f] = stamp[f]
           \/ stamp'[f] = Foreign
           \/ \E v \in Versions : ReadBody(f, v)
<1> USE DEF walkVars, sourceVars, serverVars, netVars, diskVars, mirrorVars, historyVars,
            clientVars, passVars
<1>1. /\ content \in [File -> {0, Torn} \union Versions]
      /\ stamp \in [File -> {Foreign} \union Versions]
  BY DEF TypeInv, ClassicTypeOK
<1>2. CASE \E g \in File, v \in Versions : ReadBody(g, v)
  BY <1>1, <1>2 DEF ReadBody
<1>3. CASE MirrorDelete
  BY <1>1, <1>3 DEF MirrorDelete
<1>4. CASE Fail
  BY <1>1, <1>4 DEF Fail
<1>5. CASE ~(\E g \in File, v \in Versions : ReadBody(g, v)) /\ ~MirrorDelete /\ ~Fail
  <2>1. UNCHANGED <<content, stamp>>
    BY <1>5
       DEF ClassicNext, SourceStep, WriteFile, RemoveFile, Change, Operator, StopWriters,
           CreateFlag, ServerStep, ReadSync, OfferBundle, OfferLarge, ReadMask, EndPass,
           SeeFlag, ReadBye, AbortSession, LookAt, OpenFile, CannotOpen, SendBody, IdleTimeout,
           Drop, ClientStep, Connect, Refused, ReadOffer, ReadSkip, ReadPassEnd, ReadGo,
           ReadDone, SendBye, Rerun, cvars
  <2> QED BY <2>1
<1> QED BY <1>2, <1>3, <1>4, <1>5

------------------------------------------------------------------------------
(* What a stamp says.                                                        *)

\* Versions there have been.
Made == 0..(changes + 1)

Known ==
    /\ \A f \in File : source[f] \in Made /\ stamp[f] \in Made
    /\ \A i \in bundle \union held \union opened \union pending : i[2] \in Made
    /\ \A l \in ToSet(down) : l.type = "offer" => \A i \in l.items : i[2] \in Made

\* What is received under an offer that names the source's version is that version.
BodiesFit ==
    \A f \in File, v \in Versions :
        <<f, v>> \in pending /\ source[f] = v =>
            /\ \A l \in ToSet(down) : l.type = "body" =>
                   \A i \in l.items : i[1] = f => i[2] = v
            /\ server = "bodies" => \A i \in opened : i[1] = f => i[2] = v

FreshlyOpened == server \in {"walk", "mask"} => opened = {}

StampInv == Known /\ BodiesFit /\ FreshlyOpened /\ StampNeverHides

LEMMA StampInit == ClassicInit => StampInv
<1> SUFFICES ASSUME ClassicInit PROVE StampInv
  OBVIOUS
<1>1. /\ down = <<>> /\ ToSet(down) = {} /\ pending = {} /\ bundle = {} /\ held = {}
      /\ opened = {} /\ changes = 0
  BY NoLines DEF ClassicInit
<1>2. \A f \in File :
          /\ source[f] \in {0, 1} /\ stamp[f] \in {0, 1}
          /\ stamp[f] = 1 => content[f] = 1
  BY ClassicAssumption DEF ClassicInit, Foreign
<1>3. Known
  BY <1>1, <1>2 DEF Known, Made
<1>4. StampNeverHides
  BY <1>2 DEF StampNeverHides
<1> QED BY <1>1, <1>3, <1>4 DEF StampInv, BodiesFit, FreshlyOpened

LEMMA MadeGrows ==
    ASSUME TypeInv, [ClassicNext]_cvars
    PROVE  /\ Made \subseteq Made' /\ 0 \in Made' /\ changes + 2 \notin Made
           /\ changes' = changes + 1 => changes + 2 \in Made'
<1>1. changes \in Nat
  BY ClassicAssumption DEF TypeInv, ClassicTypeOK
<1>2. changes' = changes \/ changes' = changes + 1
  <2>1. CASE File = {}
    BY <2>1
       DEF ClassicNext, SourceStep, Operator, StopWriters,
           CreateFlag, ServerStep, ReadSync, OfferBundle, OfferLarge, ReadMask, EndPass,
           SeeFlag, ReadBye, AbortSession, IdleTimeout, Drop, ClientStep, Connect, Refused,
           ReadOffer, ReadPassEnd, ReadGo, ReadDone, MirrorDelete, SendBye, Fail, Rerun, cvars,
           sourceVars
  <2>2. CASE File # {}
    BY <2>2, NewSource
  <2> QED BY <2>1, <2>2
<1>3. /\ 0 \in 0..(changes + 1) /\ 0 \in 0..(changes + 2)
      /\ 0..(changes + 1) \subseteq 0..(changes + 2)
      /\ changes + 2 \notin 0..(changes + 1) /\ changes + 2 \in 0..(changes + 2)
      /\ changes + 1 # changes
  BY <1>1
<1>4. changes' = changes => Made' = 0..(changes + 1)
  BY DEF Made
<1>5. changes' = changes + 1 => Made' = 0..(changes + 2)
  BY <1>1 DEF Made
<1> QED BY <1>2, <1>3, <1>4, <1>5 DEF Made

LEMMA KnownStep == TypeInv /\ Known /\ [ClassicNext]_cvars => Known'
<1> SUFFICES ASSUME TypeInv, Known, [ClassicNext]_cvars PROVE Known'
  OBVIOUS
<1>1. /\ Made \subseteq Made' /\ 0 \in Made'
      /\ changes' = changes + 1 => changes + 2 \in Made'
  BY MadeGrows
<1>2. ASSUME NEW f \in File PROVE source'[f] \in Made'
  BY <1>1, NewSource DEF Known
<1>3. ASSUME NEW i \in bundle \union held \union opened \union pending PROVE i[2] \in Made'
  BY <1>1 DEF Known
<1>4. ASSUME NEW f \in File PROVE stamp'[f] \in Made'
  <2>1. CASE stamp'[f] = stamp[f]
    BY <1>1, <2>1 DEF Known
  <2>2. CASE stamp'[f] = Foreign
    BY <1>1, <2>2 DEF Foreign
  <2>3. ASSUME NEW v \in Versions, ReadBody(f, v) PROVE stamp'[f] \in Made'
    <3>1. stamp'[f] = v /\ <<f, v>> \in pending
      BY <2>3 DEF ReadBody, TypeInv, ClassicTypeOK
    <3> QED BY <1>3, <3>1
  <2> QED BY <2>1, <2>2, <2>3, NewCopy
<1>5. ASSUME NEW l \in ToSet(down), l.type = "offer", NEW i \in l.items
      PROVE  i[2] \in Made'
  BY <1>1, <1>5 DEF Known
<1>6. ASSUME NEW f \in File PROVE <<f, source[f]>>[2] \in Made'
  BY <1>1 DEF Known
<1>7. ASSUME NEW i \in (bundle \union held \union opened)' PROVE i[2] \in Made'
  BY <1>3, <1>6, NewItem, NewOpened
<1>8. ASSUME NEW i \in pending' PROVE i[2] \in Made'
  BY <1>3, <1>5, NewPending
<1>9. ASSUME NEW l \in ToSet(down'), l.type = "offer", NEW i \in l.items
      PROVE  i[2] \in Made'
  BY <1>3, <1>5, <1>9, NewLine
<1> QED BY <1>2, <1>4, <1>7, <1>8, <1>9 DEF Known

LEMMA BodiesFitStep ==
    TypeInv /\ Channel /\ StampInv /\ [ClassicNext]_cvars => BodiesFit'
<1> SUFFICES ASSUME TypeInv, Channel, StampInv, [ClassicNext]_cvars,
                    NEW f \in File, NEW v \in Versions,
                    <<f, v>> \in pending', source'[f] = v
             PROVE  /\ \A l \in ToSet(down') : l.type = "body" =>
                           \A i \in l.items : i[1] = f => i[2] = v
                    /\ server' = "bodies" => \A i \in opened' : i[1] = f => i[2] = v
  BY DEF BodiesFit
<1> USE DEF walkVars, sourceVars, serverVars, netVars, diskVars, mirrorVars, historyVars,
            clientVars, passVars
<1>0. /\ Known /\ BodiesFit /\ FreshlyOpened
      /\ v \in Nat /\ v # 0 /\ changes \in Nat
  BY ClassicAssumption DEF StampInv, TypeInv, ClassicTypeOK, Versions
<1>1. CASE <<f, v>> \notin pending
  <2>1. /\ ReadOffer /\ Head(down) \in ToSet(down) /\ Head(down).type = "offer"
    BY <1>1, NewPending
  <2>2. down' = <<>> /\ ToSet(<<>>) = {}
    <3>1. Gets("offer") /\ down \in Seq(DownLines)
      BY <2>1 DEF ReadOffer, TypeInv, LinesOK
    <3> QED BY <3>1, OrderedTail, NoLines DEF Gets, Channel, DownChannel, Closing
  <2>3. server' \in {"mask", "accept", "exited"}
    BY <2>1 DEF ReadOffer, Channel, DownChannel, InDown
  <2> QED BY <2>2, <2>3
<1>2. CASE <<f, v>> \in pending
  <2>1. source[f] = v
    <3>1. v \in Made
      BY <1>0, <1>2 DEF Known
    <3> QED BY <1>0, <3>1, NewSource, MadeGrows
  <2>2. /\ \A l \in ToSet(down) : l.type = "body" => \A i \in l.items : i[1] = f => i[2] = v
        /\ server = "bodies" => \A i \in opened : i[1] = f => i[2] = v
    BY <1>0, <1>2, <2>1 DEF BodiesFit
  <2>3. ASSUME NEW l \in ToSet(down'), l.type = "body", NEW i \in l.items, i[1] = f
        PROVE  i[2] = v
    <3>1. CASE l \in ToSet(down)
      BY <2>2, <2>3, <3>1
    <3>2. CASE l \notin ToSet(down)
      <4>1. PICK g \in File, w \in Versions :
                /\ SendBody(g, w)
                /\ \E d \in Readable(g, w) : l.items = {<<g, d>>}
        BY <2>3, <3>2, NewLine
      <4>2. server = "bodies" /\ <<g, w>> \in opened
        BY <4>1 DEF SendBody
      <4>3. g = f
        BY <2>3, <4>1
      <4>4. w = v
        BY <2>2, <4>2, <4>3
      <4> QED BY <2>1, <2>3, <4>1, <4>3, <4>4 DEF Readable
    <3> QED BY <3>1, <3>2
  <2>4. ASSUME server' = "bodies", NEW i \in opened', i[1] = f PROVE i[2] = v
    <3>1. CASE i \in opened
      <4>1. server \in {"bodies", "mask"}
        BY <2>4
           DEF ClassicNext, SourceStep, WriteFile, RemoveFile, Change, Operator, StopWriters,
               CreateFlag, ServerStep, ReadSync, StartPass, OfferBundle, OfferLarge, ReadMask,
               EndPass, SeeFlag, ReadBye, AbortSession, LookAt, OpenFile, CannotOpen, SendBody,
               Sent, IdleTimeout, Drop, ClientStep, Connect, Refused, ReadOffer, ReadBody,
               ReadSkip, ReadPassEnd, ReadGo, ReadDone, MirrorDelete, SendBye, Fail, Rerun, cvars
      <4> QED BY <1>0, <2>2, <2>4, <3>1, <4>1 DEF FreshlyOpened
    <3>2. CASE i \notin opened
      BY <2>1, <2>4, <3>2, NewOpened
    <3> QED BY <3>1, <3>2
  <2> QED BY <2>3, <2>4
<1> QED BY <1>1, <1>2

LEMMA FreshlyOpenedStep ==
    TypeInv /\ FreshlyOpened /\ [ClassicNext]_cvars => FreshlyOpened'
<1> SUFFICES ASSUME TypeInv, FreshlyOpened, [ClassicNext]_cvars, server' \in {"walk", "mask"}
             PROVE  opened' = {}
  BY DEF FreshlyOpened
<1> USE DEF walkVars, sourceVars, serverVars, netVars, diskVars, mirrorVars, historyVars,
            clientVars, passVars
<1>1. ASSUME NEW f \in File, OpenFile(f) PROVE FALSE
  BY <1>1 DEF OpenFile
<1>2. opened' = opened \/ opened' = {}
  BY <1>1
     DEF ClassicNext, SourceStep, WriteFile, RemoveFile, Change, Operator, StopWriters,
         CreateFlag, ServerStep, ReadSync, StartPass, OfferBundle, OfferLarge, ReadMask,
         EndPass, SeeFlag, ReadBye, AbortSession, LookAt, CannotOpen, SendBody,
         Sent, IdleTimeout, Drop, ClientStep, Connect, Refused, ReadOffer, ReadBody,
         ReadSkip, ReadPassEnd, ReadGo, ReadDone, MirrorDelete, SendBye, Fail, Rerun, cvars
<1>3. CASE server \notin {"walk", "mask"}
  BY <1>3
     DEF ClassicNext, SourceStep, WriteFile, RemoveFile, Change, Operator, StopWriters,
         CreateFlag, ServerStep, ReadSync, StartPass, OfferBundle, OfferLarge, ReadMask,
         EndPass, SeeFlag, ReadBye, AbortSession, LookAt, OpenFile, CannotOpen, SendBody,
         Sent, IdleTimeout, Drop, ClientStep, Connect, Refused, ReadOffer, ReadBody,
         ReadSkip, ReadPassEnd, ReadGo, ReadDone, MirrorDelete, SendBye, Fail, Rerun, cvars
<1> QED BY <1>2, <1>3 DEF FreshlyOpened

LEMMA StampStep ==
    TypeInv /\ Channel /\ StampInv /\ [ClassicNext]_cvars => StampNeverHides'
<1> SUFFICES ASSUME TypeInv, Channel, StampInv, [ClassicNext]_cvars, NEW f \in File,
                    source'[f] # 0, stamp'[f] = source'[f]
             PROVE  content'[f] = source'[f]
  BY DEF StampNeverHides
<1>0. /\ Known /\ BodiesFit /\ StampNeverHides
      /\ stamp[f] \in Made
      /\ content \in [File -> {0, Torn} \union Versions]
  BY DEF StampInv, Known, TypeInv, ClassicTypeOK
<1>1. CASE content'[f] = content[f] /\ stamp'[f] = stamp[f]
  <2>1. source'[f] = source[f]
    BY <1>0, <1>1, NewSource, MadeGrows
  <2> QED BY <1>0, <1>1, <2>1 DEF StampNeverHides
<1>2. CASE stamp'[f] = Foreign
  BY <1>2 DEF Foreign
<1>3. ASSUME NEW v \in Versions, ReadBody(f, v)
      PROVE  content'[f] = source'[f]
  <2>1. PICK d \in Versions \union {Torn} :
            /\ Head(down).items = {<<f, d>>}
            /\ content' = [content EXCEPT ![f] = d]
    BY <1>3 DEF ReadBody
  <2>2. /\ Gets("body") /\ <<f, v>> \in pending /\ source' = source
        /\ stamp' = [stamp EXCEPT ![f] = v]
    BY <1>3 DEF ReadBody, sourceVars
  <2>3. stamp'[f] = v /\ content'[f] = d
    BY <1>0, <2>1, <2>2 DEF TypeInv, ClassicTypeOK
  <2>4. Head(down) \in ToSet(down) /\ Head(down).type = "body"
    BY <2>2, TailLines DEF Gets, TypeInv, LinesOK
  <2>5. <<f, d>> \in Head(down).items /\ source[f] = v /\ <<f, d>>[1] = f /\ <<f, d>>[2] = d
    BY <2>1, <2>2, <2>3
  <2>6. \A i \in Head(down).items : i[1] = f => i[2] = v
    BY <1>0, <2>2, <2>4, <2>5 DEF BodiesFit
  <2>7. d = v
    BY <2>5, <2>6
  <2> QED BY <2>3, <2>5, <2>7
<1> QED BY <1>1, <1>2, <1>3, NewCopy

StampedInv == TypeInv /\ Channel /\ StampInv

\* Whatever is written to the source while it is looked at, opened and read, and
\* wherever connections break, a copy with the source's size and mtime is current.
THEOREM StampsAreTrue == ClassicSpec => []StampNeverHides
<1>1. ClassicInit => StampedInv
  BY TypeInit, ChannelInit, StampInit DEF StampedInv
<1>2. StampedInv /\ [ClassicNext]_cvars => StampedInv'
  BY TypeStep, ChannelStep, KnownStep, BodiesFitStep, FreshlyOpenedStep, StampStep
     DEF StampedInv, StampInv
<1>3. StampedInv => StampNeverHides
  BY DEF StampedInv, StampInv
<1> QED BY <1>1, <1>2, <1>3, PTL DEF ClassicSpec

------------------------------------------------------------------------------
(* The versions of the last pass.                                           *)

\* No GO is under way; the pass can end well; f had two versions during it.
NoGo == ~InDown("go")
Concluded == InDown("done") \/ client \in {"mirror", "bye", "clean"}
Tracking == (link /\ server \in Walking) \/ Concluded
Changed(f) == \E v, w \in span[f] : v # w

\* Of a file the pass has come to, and of one it will come to or has in hand.
Offered(f) == \E l \in ToSet(down) : l.type = "offer" /\ f \in FilesIn(l.items)
Covered(f) == 0 \in span[f] \/ f \in passed \/ Offered(f) \/ (f \in seen /\ NoGo)
Ahead(f) == server \in Walking /\ (f \in todo \/ f \in FilesIn(bundle \union held))

NoneMissed == Tracking => \A f \in File : Covered(f) \/ Ahead(f)

\* The versions the server holds, has offered and has sent are versions of the pass.
SpanKept ==
    server \in Walking =>
        /\ \A f \in File : source[f] \in span[f]
        /\ \A i \in bundle \union held \union opened : i[2] \in span[i[1]]

SpanOffered ==
    link /\ server \in Walking =>
        \A l \in ToSet(down) : l.type = "offer" => \A i \in l.items : i[2] \in span[i[1]]

SpanReceived ==
    Tracking /\ NoGo =>
        /\ \A i \in pending : i[2] \in span[i[1]]
        /\ \A l \in ToSet(down) : l.type = "body" =>
               \A i \in l.items : i[2] \in span[i[1]] \/ Changed(i[1])
        /\ \A l \in ToSet(down) : l.type = "skip" => FilesIn(l.items) \subseteq passed
        /\ \A f \in seen :
               f \in passed \/ Changed(f) \/ content[f] \in span[f] \/ f \in FilesIn(pending)

SpanInv == NoneMissed /\ SpanKept /\ SpanOffered /\ SpanReceived

\* What mirror_delete leaves.
Mirrored ==
    client \in {"bye", "clean"} =>
        \A f \in File :
            f \in passed \/ Changed(f) \/ content[f] \in span[f] \/ (~rooted /\ 0 \in span[f])

Begins == ReadSync \/ SeeFlag

LEMMA PassGrows ==
    ASSUME TypeInv, [ClassicNext]_cvars, ~Begins, NEW f \in File
    PROVE  /\ span[f] \subseteq span'[f] /\ passed \subseteq passed'
           /\ Changed(f) => Changed(f)'
           /\ server' \in Walking => server \in Walking
           /\ server \in Walking => source'[f] = source[f] \/ source'[f] \in span'[f]
<1> USE DEF walkVars, sourceVars, serverVars, netVars, diskVars, mirrorVars, historyVars,
            clientVars, passVars
<1>1. span \in [File -> SUBSET ({0} \union Versions)] /\ source \in [File -> {0} \union Versions]
  BY DEF TypeInv, ClassicTypeOK
<1>2. CASE SourceStep
  <2>1. PICK g \in File : \E w : Change(g, w)
    BY <1>2 DEF SourceStep, WriteFile, RemoveFile
  <2>2. /\ span[f] \subseteq span'[f] /\ passed' = passed /\ server' = server
        /\ server \in Walking => source'[f] = source[f] \/ source'[f] \in span'[f]
    <3>1. PICK w : Change(g, w)
      BY <2>1
    <3> QED BY <1>1, <3>1 DEF Change
  <2> QED BY <2>2 DEF Changed
<1>3. CASE ~SourceStep
  <2>1. UNCHANGED <<span, source>>
    BY <1>3
       DEF ClassicNext, Operator, StopWriters, Begins,
           CreateFlag, ServerStep, OfferBundle, OfferLarge, ReadMask, EndPass,
           ReadBye, AbortSession, LookAt, OpenFile, CannotOpen, SendBody, IdleTimeout,
           Drop, ClientStep, Connect, Refused, ReadOffer, ReadBody, ReadSkip, ReadPassEnd, ReadGo,
           ReadDone, MirrorDelete, SendBye, Fail, Rerun, cvars
  <2>2. passed \subseteq passed'
    BY <1>3
       DEF ClassicNext, Operator, StopWriters, Begins,
           CreateFlag, ServerStep, OfferBundle, OfferLarge, ReadMask, EndPass,
           ReadBye, AbortSession, LookAt, OpenFile, CannotOpen, SendBody, IdleTimeout,
           Drop, ClientStep, Connect, Refused, ReadOffer, ReadBody, ReadSkip, ReadPassEnd, ReadGo,
           ReadDone, MirrorDelete, SendBye, Fail, Rerun, cvars
  <2>3. server' \in Walking => server \in Walking
    BY <1>3
       DEF ClassicNext, Operator, StopWriters, Begins, Walking, Sent,
           CreateFlag, ServerStep, OfferBundle, OfferLarge, ReadMask, EndPass,
           ReadBye, AbortSession, LookAt, OpenFile, CannotOpen, SendBody, IdleTimeout,
           Drop, ClientStep, Connect, Refused, ReadOffer, ReadBody, ReadSkip, ReadPassEnd, ReadGo,
           ReadDone, MirrorDelete, SendBye, Fail, Rerun, cvars
  <2> QED BY <2>1, <2>2, <2>3 DEF Changed
<1> QED BY <1>2, <1>3

LEMMA PassedGrows ==
    ASSUME TypeInv, [ClassicNext]_cvars, ~Begins
    PROVE  passed \subseteq passed'
<1>1. ASSUME NEW f \in passed PROVE f \in passed'
  <2>1. f \in File
    BY DEF TypeInv, ClassicTypeOK
  <2> QED BY <2>1, PassGrows
<1> QED BY <1>1

LEMMA LineTyped ==
    ASSUME TypeInv, NEW l \in ToSet(down)
    PROVE  l \in DownLines
<1>1. PICK k \in 1..Len(down) : l = down[k]
  BY LineAt DEF TypeInv, LinesOK
<1> QED BY <1>1, ElementOfSeq DEF TypeInv, LinesOK

Reads ==
    \/ ReadOffer \/ ReadPassEnd \/ ReadGo \/ ReadDone
    \/ \E f \in File, v \in Versions : ReadBody(f, v)
    \/ \E f \in File : ReadSkip(f)

\* While a pass can still end well, only the line that is read goes.
LEMMA OthersStay ==
    ASSUME TypeInv, Channel, [ClassicNext]_cvars, NEW l \in ToSet(down), Tracking'
    PROVE  \/ l \in ToSet(down')
           \/ l = Head(down) /\ Reads
<1> USE DEF walkVars, sourceVars, serverVars, netVars, diskVars, mirrorVars, historyVars,
            clientVars, passVars
<1>0. LinesOK /\ DownChannel /\ Stages
  BY DEF TypeInv, Channel
<1>1. ASSUME Reads PROVE l = Head(down) \/ l \in ToSet(down')
  <2>1. PICK type : Gets(type)
    BY <1>1 DEF Reads, ReadOffer, ReadPassEnd, ReadGo, ReadDone, ReadBody, ReadSkip
  <2> QED BY <1>0, <2>1, Getting
<1>2. ASSUME NEW ls \in Seq(DownLines), ToClient(ls) PROVE l \in ToSet(down')
  BY <1>0, <1>2, Sending
<1>3. CASE OfferBundle \/ OfferLarge
  <2>1. PICK items \in SUBSET (File \X Versions) : ToClient(<<Line("offer", items)>>)
    BY <1>3 DEF OfferBundle, OfferLarge, TypeInv, ClassicTypeOK
  <2> QED BY <1>2, <2>1, LineTypes
<1>4. CASE EndPass \/ SeeFlag
  <2>1. \/ ToClient(<<Line("passend", {})>>)
        \/ ToClient(<<Line("passend", {}), Line("done", {})>>)
        \/ ToClient(<<Line("go", {})>>)
    BY <1>4 DEF EndPass, SeeFlag
  <2> QED BY <1>2, <2>1, LineTypes
<1>5. ASSUME NEW f \in File, CannotOpen(f) \/ \E v \in Versions : SendBody(f, v)
      PROVE  l \in ToSet(down')
  <2>1. \/ ToClient(<<Line("skip", {<<f, 0>>})>>)
        \/ \E d \in Versions \union {Torn} : ToClient(<<Line("body", {<<f, d>>})>>)
    <3>1. ASSUME NEW v \in Versions, SendBody(f, v)
          PROVE  \E d \in Versions \union {Torn} : ToClient(<<Line("body", {<<f, d>>})>>)
      BY <3>1 DEF SendBody, Readable, TypeInv, ClassicTypeOK
    <3> QED BY <1>5, <3>1 DEF CannotOpen
  <2> QED BY <1>2, <2>1, LineTypes
<1>6. CASE Drop
  <2>1. PICK k \in 0..Len(down) : down' = SubSeq(down, 1, k)
    BY <1>6 DEF Drop
  <2>2. ~link' /\ client' = client
    BY <1>6 DEF Drop
  <2>3. CASE client \in {"mirror", "bye", "clean"}
    BY <1>0, <2>3, NoLines DEF Stages, Finished
  <2>4. CASE client \notin {"mirror", "bye", "clean"}
    <3>1. PICK m \in ToSet(down') : m.type = "done"
      BY <2>2, <2>4 DEF Tracking, Concluded, InDown
    <3>2. down' = down
      BY <1>0, <2>1, <3>1, PrefixLines DEF LinesOK, DownChannel, Closing
    <3> QED BY <3>2
  <2> QED BY <2>3, <2>4
<1>7. CASE Connect
  <2>1. /\ ToSet(down') = {} /\ server' = "command" /\ client' = "pass"
    BY <1>7, NoLines DEF Connect
  <2> QED BY <2>1 DEF Tracking, Concluded, InDown, Walking
<1>8. CASE /\ ~OfferBundle /\ ~OfferLarge /\ ~EndPass /\ ~SeeFlag /\ ~Drop /\ ~Connect
           /\ ~\E f \in File : CannotOpen(f) \/ \E v \in Versions : SendBody(f, v)
           /\ ~Reads
  <2>1. down' = down
    BY <1>8
       DEF ClassicNext, SourceStep, WriteFile, RemoveFile, Change, Operator, StopWriters,
         CreateFlag, ServerStep, ReadSync, ReadMask, ReadBye, AbortSession, LookAt, OpenFile,
         IdleTimeout, ClientStep, Refused, MirrorDelete, SendBye, Fail, Rerun, Reads, cvars
  <2> QED BY <2>1
<1> QED BY <1>1, <1>3, <1>4, <1>5, <1>6, <1>7, <1>8

\* What a client gets to know of the end of a pass, the server has been through.
LEMMA TrackingOn ==
    ASSUME TypeInv, Channel, [ClassicNext]_cvars, ~Begins, Tracking'
    PROVE  /\ Tracking
           /\ Concluded => server \notin Walking
           /\ link' /\ server' \in Walking => link /\ server \in Walking
<1> USE DEF walkVars, sourceVars, serverVars, netVars, diskVars, mirrorVars, historyVars,
            clientVars, passVars
<1>1. Concluded => server \notin Walking
  BY DEF Channel, DownChannel, Stages, Concluded, AtRest, Walking, Finished
<1>2. link' => link \/ server' = "command"
  BY DEF ClassicNext, SourceStep, WriteFile, RemoveFile, Change, Operator, StopWriters,
         CreateFlag, ServerStep, ReadSync, StartPass, OfferBundle, OfferLarge, ReadMask, EndPass,
         SeeFlag, ReadBye, AbortSession, LookAt, OpenFile, CannotOpen, SendBody, IdleTimeout,
         Drop, ClientStep, Connect, Refused, ReadOffer, ReadBody, ReadSkip, ReadPassEnd, ReadGo,
         ReadDone, MirrorDelete, SendBye, Fail, Rerun, cvars
<1>3. server' \in Walking => server \in Walking
  BY DEF ClassicNext, SourceStep, WriteFile, RemoveFile, Change, Operator, StopWriters, Begins,
         CreateFlag, ServerStep, OfferBundle, OfferLarge, ReadMask, EndPass, Walking, Sent,
         ReadBye, AbortSession, LookAt, OpenFile, CannotOpen, SendBody, IdleTimeout,
         Drop, ClientStep, Connect, Refused, ReadOffer, ReadBody, ReadSkip, ReadPassEnd, ReadGo,
         ReadDone, MirrorDelete, SendBye, Fail, Rerun, cvars
<1>4. link' /\ server' \in Walking => link /\ server \in Walking
  BY <1>2, <1>3 DEF Walking
<1>5. ASSUME InDown("done")' PROVE Tracking
  <2>1. PICK l \in ToSet(down') : l.type = "done"
    BY <1>5 DEF InDown
  <2>2. CASE l \in ToSet(down)
    BY <2>1, <2>2 DEF InDown, Tracking, Concluded
  <2>3. CASE l \notin ToSet(down)
    <3>1. link /\ EndPass
      BY <2>1, <2>3, NewLine
    <3> QED BY <3>1 DEF EndPass, Tracking, Walking
  <2> QED BY <2>2, <2>3
<1>6. ASSUME client' \in {"mirror", "bye", "clean"} PROVE Tracking
  <2>1. client \in {"mirror", "bye", "clean"} \/ ReadDone
    BY <1>6
       DEF ClassicNext, SourceStep, WriteFile, RemoveFile, Change, Operator, StopWriters,
         CreateFlag, ServerStep, ReadSync, OfferBundle, OfferLarge, ReadMask, EndPass, SeeFlag,
         ReadBye, AbortSession, LookAt, OpenFile, CannotOpen, SendBody, IdleTimeout, Got,
         Drop, ClientStep, Connect, Refused, ReadOffer, ReadBody, ReadSkip, ReadPassEnd, ReadGo,
         MirrorDelete, SendBye, Fail, Rerun, cvars
  <2>2. ReadDone => InDown("done")
    BY TailLines DEF ReadDone, Gets, InDown, TypeInv, LinesOK
  <2> QED BY <2>1, <2>2 DEF Tracking, Concluded
<1>7. Tracking
  BY <1>4, <1>5, <1>6 DEF Tracking, Concluded
<1> QED BY <1>1, <1>4, <1>7

LEMMA NoGoOn ==
    ASSUME TypeInv, Channel, [ClassicNext]_cvars, ~Begins, Tracking'
    PROVE  /\ NoGo => NoGo'
           /\ NoGo' /\ ~NoGo => ReadGo
<1>1. ASSUME NoGo, ~NoGo' PROVE FALSE
  <2>1. PICK l \in ToSet(down') : l.type = "go"
    BY <1>1 DEF NoGo, InDown
  <2>2. l \notin ToSet(down)
    BY <1>1, <2>1 DEF NoGo, InDown
  <2> QED BY <2>1, <2>2, NewLine DEF Begins
<1>2. ASSUME NoGo', ~NoGo PROVE ReadGo
  <2>1. PICK l \in ToSet(down) : l.type = "go"
    BY <1>2 DEF NoGo, InDown
  <2>2. l \notin ToSet(down')
    BY <1>2, <2>1 DEF NoGo, InDown
  <2>3. Head(down).type = "go" /\ Reads
    BY <2>1, <2>2, OthersStay
  <2> QED BY <2>3 DEF Reads, ReadOffer, ReadPassEnd, ReadDone, ReadBody, ReadSkip, Gets
<1> QED BY <1>1, <1>2

LEMMA SpanKeptOn ==
    ASSUME TypeInv, SpanKept, [ClassicNext]_cvars, ~Begins
    PROVE  SpanKept'
<1> SUFFICES ASSUME server' \in Walking
             PROVE  /\ \A f \in File : source'[f] \in span'[f]
                    /\ \A i \in (bundle \union held \union opened)' : i[2] \in span'[i[1]]
  BY DEF SpanKept
<1>1. ASSUME NEW f \in File
      PROVE  /\ source[f] \in span[f] /\ span[f] \subseteq span'[f]
             /\ source'[f] \in span'[f]
  <2>1. server \in Walking /\ span[f] \subseteq span'[f]
    BY PassGrows
  <2>2. source[f] \in span[f]
    BY <2>1 DEF SpanKept
  <2> QED BY <2>1, <2>2, PassGrows
<1>2. ASSUME NEW i \in bundle \union held \union opened PROVE i[2] \in span'[i[1]]
  <2>1. i[1] \in File
    BY DEF TypeInv, ClassicTypeOK
  <2>2. i[2] \in span[i[1]]
    BY <2>1, PassGrows DEF SpanKept
  <2> QED BY <1>1, <2>1, <2>2
<1>3. ASSUME NEW i \in (bundle \union held \union opened)' PROVE i[2] \in span'[i[1]]
  <2>1. CASE i \in bundle \union held \union opened
    BY <1>2, <2>1
  <2>2. CASE i \notin bundle \union held \union opened
    <3>1. PICK f \in File : i = <<f, source[f]>>
      BY <2>2, NewItem, NewOpened
    <3> QED BY <1>1, <3>1
  <2> QED BY <2>1, <2>2
<1> QED BY <1>1, <1>3

LEMMA SpanOfferedOn ==
    ASSUME TypeInv, Channel, SpanKept, SpanOffered, [ClassicNext]_cvars, ~Begins
    PROVE  SpanOffered'
<1> SUFFICES ASSUME link', server' \in Walking,
                    NEW l \in ToSet(down'), l.type = "offer", NEW i \in l.items
             PROVE  i[2] \in span'[i[1]]
  BY DEF SpanOffered
<1>1. link /\ server \in Walking
  BY TrackingOn DEF Tracking
<1>2. i[1] \in File /\ i[2] \in span[i[1]]
  <2>1. CASE l \in ToSet(down)
    <3>1. l \in DownLines
      BY <2>1, LineTyped
    <3> QED BY <1>1, <2>1, <3>1 DEF SpanOffered, DownLines
  <2>2. CASE l \notin ToSet(down)
    <3>1. i \in bundle \union held
      BY <2>2, NewLine
    <3> QED BY <1>1, <3>1 DEF SpanKept, TypeInv, ClassicTypeOK
  <2> QED BY <2>1, <2>2
<1> QED BY <1>2, PassGrows

\* What happens to a version the client waits for.
LEMMA PendingGone ==
    ASSUME TypeInv, [ClassicNext]_cvars, NEW f \in FilesIn(pending), f \notin FilesIn(pending')
    PROVE  \/ \E v \in Versions : ReadBody(f, v)
           \/ ReadSkip(f)
           \/ ReadOffer
           \/ Connect
<1> USE DEF walkVars, sourceVars, serverVars, netVars, diskVars, mirrorVars, historyVars,
            clientVars, passVars
<1>1. PICK i \in pending : i[1] = f
  BY DEF FilesIn
<1>2. i \notin pending'
  BY <1>1 DEF FilesIn
<1>3. ASSUME NEW g \in File, Got(g) PROVE g = f
  BY <1>1, <1>2, <1>3 DEF Got
<1>4. CASE /\ ~ReadOffer /\ ~Connect /\ ~\E g \in File : ReadSkip(g)
           /\ ~\E g \in File, v \in Versions : ReadBody(g, v)
  <2>1. pending' = pending
    BY <1>4
       DEF ClassicNext, SourceStep, WriteFile, RemoveFile, Change, Operator, StopWriters,
         CreateFlag, ServerStep, ReadSync, OfferBundle, OfferLarge, ReadMask, EndPass, SeeFlag,
         ReadBye, AbortSession, LookAt, OpenFile, CannotOpen, SendBody, IdleTimeout,
         Drop, ClientStep, Refused, ReadPassEnd, ReadGo,
         ReadDone, MirrorDelete, SendBye, Fail, Rerun, cvars
  <2> QED BY <1>1, <1>2, <2>1
<1>5. ASSUME NEW g \in File, ReadSkip(g) PROVE ReadSkip(f)
  BY <1>3, <1>5 DEF ReadSkip
<1>6. ASSUME NEW g \in File, NEW v \in Versions, ReadBody(g, v) PROVE ReadBody(f, v)
  <2>1. g = f
    BY <1>3, <1>6 DEF ReadBody
  <2> QED BY <1>6, <2>1
<1> QED BY <1>4, <1>5, <1>6

LEMMA SeenOn ==
    ASSUME TypeInv, [ClassicNext]_cvars, ~ReadGo, ~Connect
    PROVE  /\ seen \subseteq seen'
           /\ ~ReadOffer => seen' = seen
           /\ \A f \in seen : \/ content'[f] = content[f]
                              \/ Fail
                              \/ \E v \in Versions : ReadBody(f, v)
<1> USE DEF walkVars, sourceVars, serverVars, netVars, diskVars, mirrorVars, historyVars,
            clientVars, passVars
<1>1. CASE ReadOffer
  BY <1>1 DEF ReadOffer
<1>2. CASE ~ReadOffer
  <2>1. seen' = seen
    BY <1>2
       DEF ClassicNext, SourceStep, WriteFile, RemoveFile, Change, Operator, StopWriters,
         CreateFlag, ServerStep, ReadSync, OfferBundle, OfferLarge, ReadMask, EndPass, SeeFlag,
         ReadBye, AbortSession, LookAt, OpenFile, CannotOpen, SendBody, IdleTimeout,
         Drop, ClientStep, Refused, ReadBody, ReadSkip, ReadPassEnd,
         ReadDone, MirrorDelete, SendBye, Fail, Rerun, cvars
  <2>2. ASSUME NEW f \in seen
        PROVE  content'[f] = content[f] \/ Fail \/ \E v \in Versions : ReadBody(f, v)
    <3>0. f \in File /\ content \in [File -> {0, Torn} \union Versions]
      BY DEF TypeInv, ClassicTypeOK
    <3>1. CASE MirrorDelete
      BY <3>0, <3>1 DEF MirrorDelete
    <3>2. ASSUME NEW g \in File, NEW v \in Versions, ReadBody(g, v)
          PROVE  content'[f] = content[f] \/ ReadBody(f, v)
      BY <3>0, <3>2 DEF ReadBody
    <3>3. CASE /\ ~MirrorDelete /\ ~Fail
               /\ ~\E g \in File, v \in Versions : ReadBody(g, v)
      <4>1. content' = content
        BY <1>2, <3>3
           DEF ClassicNext, SourceStep, WriteFile, RemoveFile, Change, Operator, StopWriters,
             CreateFlag, ServerStep, ReadSync, OfferBundle, OfferLarge, ReadMask, EndPass,
             SeeFlag, ReadBye, AbortSession, LookAt, OpenFile, CannotOpen, SendBody, IdleTimeout,
             Drop, ClientStep, Refused, ReadSkip, ReadPassEnd, ReadDone, SendBye, Rerun, cvars
      <4> QED BY <4>1
    <3> QED BY <3>1, <3>2, <3>3
  <2> QED BY <2>1, <2>2
<1> QED BY <1>1, <1>2

LEMMA OfferTaken ==
    ASSUME TypeInv, Channel, [ClassicNext]_cvars, ReadOffer
    PROVE  /\ down' = <<>> /\ ToSet(down') = {} /\ pending = {}
           /\ client \notin {"mirror", "bye", "clean"}
           /\ Head(down) \in ToSet(down) /\ Head(down).type = "offer"
           /\ Head(down).items \subseteq File \X Versions
           /\ \A l \in ToSet(down) : l = Head(down)
           /\ ToSet(down) = {Head(down)}
           /\ ~(client' \in {"mirror", "bye", "clean"})
           /\ source' = source /\ content' = content
<1>1. Gets("offer") /\ down \in Seq(DownLines) /\ Ordered(down) /\ LinesOK
  BY DEF ReadOffer, TypeInv, LinesOK, Channel, DownChannel
<1>2. down' = <<>> /\ ToSet(<<>>) = {}
  BY <1>1, OrderedTail, NoLines DEF Gets, Closing
<1>3. /\ Head(down) \in DownLines /\ Head(down).type = "offer"
      /\ ToSet(down) = {Head(down)} \union ToSet(down')
  BY <1>1, Getting
<1>4. Head(down).items \subseteq File \X Versions
  BY <1>3 DEF DownLines
<1>5. client = "pass" /\ client' \in {"pass", "bodies"} /\ source' = source /\ content' = content
  BY DEF ReadOffer, sourceVars, diskVars
<1>6. pending = {}
  BY <1>5 DEF Channel, Stages
<1> QED BY <1>2, <1>3, <1>4, <1>5, <1>6

LEMMA SpanReceivedOn ==
    ASSUME TypeInv, Channel, StampInv, SpanInv, [ClassicNext]_cvars, ~Begins
    PROVE  SpanReceived'
<1> SUFFICES ASSUME Tracking', NoGo' PROVE SpanReceived'
  BY DEF SpanReceived
<1> USE DEF walkVars, sourceVars, serverVars, netVars, diskVars, mirrorVars, historyVars,
            clientVars, passVars
<1>0. /\ Tracking /\ SpanKept /\ SpanOffered /\ SpanReceived
      /\ (link' /\ server' \in Walking => link /\ server \in Walking)
      /\ \A f \in File : /\ span[f] \subseteq span'[f] /\ passed \subseteq passed'
                         /\ Changed(f) => Changed(f)'
  BY TrackingOn, PassGrows DEF SpanInv
<1>1. CASE ReadGo
  <2>1. Gets("go") /\ pending' = pending /\ seen' = {} /\ client = "between"
    BY <1>1 DEF ReadGo
  <2>2. pending' = {}
    BY <2>1 DEF Channel, Stages
  <2>3. \A l \in ToSet(down') : ~Fetched(l.type)
    <3>1. down \in Seq(DownLines) /\ Ordered(down)
      BY DEF TypeInv, LinesOK, Channel, DownChannel
    <3> QED BY <2>1, <3>1, OrderedTail DEF Gets, Fetched
  <2> QED BY <2>1, <2>2, <2>3 DEF SpanReceived, Fetched
<1>2. CASE ~ReadGo
  <2>0. NoGo
    BY <1>2, NoGoOn
  <2>1. ~Connect /\ ~Fail
    <3>1. Connect => ToSet(down') = {} /\ client' = "pass" /\ server' = "command"
      BY NoLines DEF Connect
    <3>2. Fail => ToSet(down') = {} /\ client' = "incomplete" /\ ~link'
      BY NoLines DEF Fail
    <3> QED BY <3>1, <3>2 DEF Tracking, Concluded, InDown, Walking
  <2>2. ASSUME ReadOffer
        PROVE  /\ link /\ server \in Walking
               /\ \A i \in Head(down).items : i[2] \in span[i[1]] /\ i[1] \in File
    <3>1. link /\ server \in Walking
      BY <1>0, <2>2, OfferTaken DEF Tracking, Concluded, InDown
    <3>2. Head(down) \in ToSet(down) /\ Head(down).type = "offer"
      BY <2>2, OfferTaken
    <3>3. Head(down).items \subseteq File \X Versions
      BY <2>2, OfferTaken
    <3> QED BY <1>0, <3>1, <3>2, <3>3 DEF SpanOffered
  <2>3. ASSUME NEW i \in pending' PROVE i[2] \in span'[i[1]]
    <3>1. i[1] \in File /\ i[2] \in span[i[1]]
      <4>1. CASE i \in pending
        BY <1>0, <2>0, <4>1 DEF SpanReceived, TypeInv, ClassicTypeOK
      <4>2. CASE i \notin pending
        BY <2>2, <4>2, NewPending
      <4> QED BY <4>1, <4>2
    <3> QED BY <1>0, <3>1
  <2>4. ASSUME NEW l \in ToSet(down'), l.type = "body", NEW i \in l.items
        PROVE  i[2] \in span'[i[1]] \/ Changed(i[1])'
    <3>1. i[1] \in File /\ (i[2] \in span[i[1]] \/ Changed(i[1]))
      <4>1. CASE l \in ToSet(down)
        <5>1. l \in DownLines
          BY <4>1, LineTyped
        <5>2. i[1] \in File
          BY <2>4, <5>1 DEF DownLines
        <5> QED BY <1>0, <2>0, <2>4, <4>1, <5>2 DEF SpanReceived
      <4>2. CASE l \notin ToSet(down)
        <5>1. PICK f \in File, v \in Versions :
                  /\ SendBody(f, v)
                  /\ \E d \in Readable(f, v) : l.items = {<<f, d>>}
          BY <2>4, <4>2, NewLine
        <5>2. <<f, v>> \in opened /\ server \in Walking
          BY <5>1 DEF SendBody, Walking
        <5>3. v \in span[f] /\ source[f] \in span[f]
          BY <1>0, <5>2 DEF SpanKept
        <5> QED BY <2>4, <5>1, <5>3 DEF Changed, Readable
      <4> QED BY <4>1, <4>2
    <3> QED BY <1>0, <3>1
  <2>5. ASSUME NEW l \in ToSet(down'), l.type = "skip"
        PROVE  FilesIn(l.items) \subseteq passed'
    <3>1. CASE l \in ToSet(down)
      <4>1. FilesIn(l.items) \subseteq passed
        BY <1>0, <2>0, <2>5, <3>1 DEF SpanReceived
      <4>2. passed \subseteq passed'
        BY PassedGrows
      <4> QED BY <4>1, <4>2
    <3>2. CASE l \notin ToSet(down)
      <4>1. PICK f \in File : CannotOpen(f) /\ l.items = {<<f, 0>>}
        BY <2>5, <3>2, NewLine
      <4>2. f \in passed'
        BY <4>1 DEF CannotOpen
      <4> QED BY <4>1, <4>2 DEF FilesIn
    <3> QED BY <3>1, <3>2
  <2>6. ASSUME NEW f \in File, NEW v \in Versions, ReadBody(f, v)
        PROVE  Changed(f)' \/ content'[f] \in span'[f]
    <3>1. PICK d \in Versions \union {Torn} :
              Head(down).items = {<<f, d>>} /\ content' = [content EXCEPT ![f] = d]
      BY <2>6 DEF ReadBody
    <3>2. Gets("body")
      BY <2>6 DEF ReadBody
    <3>3. Head(down) \in ToSet(down) /\ Head(down).type = "body"
      BY <3>2, TailLines DEF Gets, TypeInv, LinesOK
    <3>4. content'[f] = d
      BY <3>1 DEF TypeInv, ClassicTypeOK
    <3>5. <<f, d>> \in Head(down).items /\ <<f, d>>[1] = f /\ <<f, d>>[2] = d
      BY <3>1
    <3>6. d \in span[f] \/ Changed(f)
      BY <1>0, <2>0, <3>3, <3>5 DEF SpanReceived
    <3> QED BY <1>0, <3>4, <3>6
  <2>7. ASSUME NEW f \in File, ReadSkip(f) PROVE f \in passed'
    <3>1. Head(down).items = {<<f, 0>>} /\ Gets("skip")
      BY <2>7 DEF ReadSkip
    <3>2. Head(down) \in ToSet(down) /\ Head(down).type = "skip"
      BY <3>1, TailLines DEF Gets, TypeInv, LinesOK
    <3>3. f \in FilesIn(Head(down).items)
      BY <3>1 DEF FilesIn
    <3>4. f \in passed
      BY <1>0, <2>0, <3>2, <3>3 DEF SpanReceived
    <3> QED BY <3>4, PassedGrows
  <2>8. ASSUME NEW f \in seen
        PROVE  \/ f \in passed' \/ Changed(f)' \/ content'[f] \in span'[f]
               \/ f \in FilesIn(pending')
    <3>0. f \in File /\ passed \subseteq passed'
      BY PassedGrows DEF TypeInv, ClassicTypeOK
    <3>1. f \in passed \/ Changed(f) \/ content[f] \in span[f] \/ f \in FilesIn(pending)
      BY <1>0, <2>0 DEF SpanReceived
    <3>2. CASE f \in passed \/ Changed(f)
      BY <1>0, <3>0, <3>2
    <3>3. CASE content[f] \in span[f]
      <4>1. content'[f] = content[f] \/ \E v \in Versions : ReadBody(f, v)
        BY <1>2, <2>1, SeenOn
      <4> QED BY <1>0, <2>6, <3>0, <3>3, <4>1
    <3>4. CASE f \in FilesIn(pending) /\ f \notin FilesIn(pending')
      <4>1. ~ReadOffer
        <5>1. ReadOffer => FilesIn(pending) = {}
          BY OfferTaken DEF FilesIn
        <5> QED BY <3>4, <5>1
      <4>2. ReadSkip(f) \/ \E v \in Versions : ReadBody(f, v)
        BY <2>1, <3>4, <4>1, PendingGone
      <4> QED BY <2>6, <2>7, <3>0, <4>2
    <3> QED BY <3>1, <3>2, <3>3, <3>4
  <2>9. ASSUME NEW f \in seen', f \notin seen
        PROVE  \/ Changed(f)' \/ content'[f] \in span'[f]
               \/ f \in FilesIn(pending')
    <3>1. ReadOffer
      BY <1>2, <2>1, <2>9, SeenOn
    <3>2. PICK i \in Head(down).items : i[1] = f
      BY <2>9, <3>1 DEF ReadOffer, FilesIn
    <3>3. /\ f \in File /\ i[2] \in Versions /\ i[2] \in span[f] /\ source[f] \in span[f]
          /\ content' = content
      BY <1>0, <2>2, <3>1, <3>2, OfferTaken DEF SpanKept
    <3>4. CASE content[f] = 0 \/ stamp[f] # i[2]
      <4>1. i \in pending'
        BY <3>1, <3>2, <3>4 DEF ReadOffer
      <4> QED BY <3>2, <4>1 DEF FilesIn
    <3>5. CASE content[f] # 0 /\ stamp[f] = i[2] /\ source[f] = i[2]
      <4>1. i[2] # 0
        BY <3>3, ClassicAssumption DEF Versions
      <4>2. content[f] = i[2]
        BY <3>3, <3>5, <4>1 DEF StampInv, StampNeverHides
      <4> QED BY <1>0, <3>3, <4>2
    <3>6. CASE source[f] # i[2]
      BY <1>0, <3>3, <3>6 DEF Changed
    <3> QED BY <3>4, <3>5, <3>6
  <2> QED BY <2>3, <2>4, <2>5, <2>8, <2>9 DEF SpanReceived
<1> QED BY <1>1, <1>2


LEMMA OfferedOn ==
    ASSUME TypeInv, Channel, [ClassicNext]_cvars, Tracking', NEW f \in File, Offered(f)
    PROVE  Covered(f)'
<1>1. PICK l \in ToSet(down) : l.type = "offer" /\ f \in FilesIn(l.items)
  BY DEF Offered
<1>2. CASE l \in ToSet(down')
  BY <1>1, <1>2 DEF Covered, Offered
<1>3. CASE l \notin ToSet(down')
  <2>1. l = Head(down) /\ Reads
    BY <1>3, OthersStay
  <2>2. ReadOffer
    BY <1>1, <2>1 DEF Reads, ReadPassEnd, ReadGo, ReadDone, ReadBody, ReadSkip, Gets
  <2>3. f \in seen'
    BY <1>1, <2>1, <2>2 DEF ReadOffer
  <2>4. NoGo'
    BY <2>2, OfferTaken DEF NoGo, InDown
  <2> QED BY <2>3, <2>4 DEF Covered
<1> QED BY <1>2, <1>3

LEMMA SeenStays ==
    ASSUME TypeInv, Channel, [ClassicNext]_cvars, ~Begins, Tracking', NoGo, NEW f \in seen
    PROVE  f \in seen' /\ NoGo'
<1>1. ~ReadGo
  BY TailLines DEF ReadGo, Gets, NoGo, InDown, TypeInv, LinesOK
<1>2. ~Connect
  <2>1. Connect => ToSet(down') = {} /\ client' = "pass" /\ server' = "command"
    BY NoLines DEF Connect
  <2> QED BY <2>1 DEF Tracking, Concluded, InDown, Walking
<1> QED BY <1>1, <1>2, SeenOn, NoGoOn

LEMMA LookedAt ==
    ASSUME TypeInv, SpanKept, NEW f \in File, LookAt(f)
    PROVE  0 \in span'[f] \/ f \in passed' \/ f \in FilesIn((bundle \union held)')
<1> USE DEF sourceVars, serverVars, passVars
<1>1. CASE <<f, source[f]>> \in (bundle \union held)'
  <2>1. <<f, source[f]>>[1] = f
    OBVIOUS
  <2> QED BY <1>1, <2>1 DEF FilesIn
<1>2. CASE source[f] = 0
  BY <1>2 DEF LookAt, SpanKept, Walking
<1>3. CASE f \in passed'
  BY <1>3
<1> QED BY <1>1, <1>2, <1>3 DEF LookAt

\* A file the walk has yet to come to, or has in hand, is not lost on the way.
LEMMA AheadOn ==
    ASSUME TypeInv, Channel, SpanKept, [ClassicNext]_cvars, ~Begins, Tracking',
           NEW f \in File, Ahead(f)
    PROVE  Covered(f)' \/ Ahead(f)'
<1> USE DEF walkVars, sourceVars, serverVars, netVars, diskVars, mirrorVars, historyVars,
            clientVars, passVars
<1>0. link /\ server \in Walking
  BY TrackingOn DEF Ahead, Tracking
<1>1. ASSUME NEW g \in File, LookAt(g) PROVE Covered(f)' \/ Ahead(f)'
  <2>1. /\ server' = "walk" /\ todo' = todo \ {g}
        /\ bundle \union held \subseteq (bundle \union held)'
    BY <1>1 DEF LookAt
  <2>2. FilesIn(bundle \union held) \subseteq FilesIn((bundle \union held)')
    BY <2>1 DEF FilesIn
  <2>3. CASE f = g
    BY <1>1, <2>1, <2>3, LookedAt DEF Covered, Ahead, Walking
  <2>4. CASE f # g
    BY <2>1, <2>2, <2>4 DEF Ahead, Walking
  <2> QED BY <2>3, <2>4
<1>2. ASSUME NEW items \in SUBSET (File \X Versions), ToClient(<<Line("offer", items)>>),
             f \in FilesIn(items)
      PROVE  Covered(f)'
  <2>0. /\ <<Line("offer", items)>> \in Seq(DownLines)
        /\ ToSet(<<Line("offer", items)>>) = {Line("offer", items)}
    BY LineTypes
  <2>1. Line("offer", items) \in ToSet(down')
    BY <1>0, <1>2, <2>0, Sending DEF TypeInv
  <2>2. Line("offer", items).type = "offer" /\ Line("offer", items).items = items
    BY DEF Line
  <2> QED BY <1>2, <2>1, <2>2 DEF Covered, Offered
<1>3. FilesIn(bundle \union held) = FilesIn(bundle) \union FilesIn(held)
  BY DEF FilesIn
<1>4. CASE OfferBundle
  <2>1. /\ ToClient(<<Line("offer", bundle)>>) /\ bundle' = {} /\ held' = held /\ todo' = todo
        /\ server' = "mask" /\ bundle \in SUBSET (File \X Versions)
    BY <1>4 DEF OfferBundle, TypeInv, ClassicTypeOK
  <2>2. (bundle \union held)' = held
    BY <2>1
  <2> QED BY <1>2, <1>3, <2>1, <2>2 DEF Ahead, Walking
<1>5. CASE OfferLarge
  <2>1. /\ ToClient(<<Line("offer", held)>>) /\ bundle = {} /\ held' = {} /\ todo' = todo
        /\ server' = "mask" /\ held \in SUBSET (File \X Versions)
    BY <1>5 DEF OfferLarge, TypeInv, ClassicTypeOK
  <2>2. bundle \union held = held
    BY <2>1
  <2> QED BY <1>2, <2>1, <2>2 DEF Ahead, Walking
<1>6. CASE EndPass
  <2>1. todo = {} /\ bundle \union held = {}
    BY <1>6 DEF EndPass
  <2> QED BY <2>1 DEF Ahead, FilesIn
<1>7. CASE /\ ~OfferBundle /\ ~OfferLarge /\ ~EndPass /\ ~\E g \in File : LookAt(g)
  <2>1. todo' = todo /\ bundle' = bundle /\ held' = held
    BY <1>7
       DEF ClassicNext, SourceStep, WriteFile, RemoveFile, Change, Operator, StopWriters, Begins,
         CreateFlag, ServerStep, ReadMask, ReadBye, AbortSession, OpenFile, CannotOpen, SendBody,
         IdleTimeout, Drop, ClientStep, Connect, Refused, ReadOffer, ReadBody, ReadSkip,
         ReadPassEnd, ReadGo, ReadDone, MirrorDelete, SendBye, Fail, Rerun, Sent, cvars
  <2>2. server' \in Walking
    BY <1>0, <1>7
       DEF ClassicNext, SourceStep, WriteFile, RemoveFile, Change, Operator, StopWriters, Begins,
         CreateFlag, ServerStep, ReadMask, ReadBye, AbortSession, OpenFile, CannotOpen, SendBody,
         IdleTimeout, Drop, ClientStep, Connect, Refused, ReadOffer, ReadBody, ReadSkip,
         ReadPassEnd, ReadGo, ReadDone, MirrorDelete, SendBye, Fail, Rerun, Sent, cvars, Walking
  <2>3. (bundle \union held)' = bundle \union held
    BY <2>1
  <2> QED BY <2>1, <2>2, <2>3 DEF Ahead
<1> QED BY <1>1, <1>4, <1>5, <1>6, <1>7

LEMMA NoneMissedOn ==
    ASSUME TypeInv, Channel, SpanInv, [ClassicNext]_cvars, ~Begins
    PROVE  NoneMissed'
<1> SUFFICES ASSUME Tracking', NEW f \in File PROVE Covered(f)' \/ Ahead(f)'
  BY DEF NoneMissed
<1>1. Tracking /\ span[f] \subseteq span'[f] /\ passed \subseteq passed'
  BY TrackingOn, PassGrows
<1>2. Covered(f) \/ Ahead(f)
  BY <1>1 DEF SpanInv, NoneMissed
<1>3. CASE Ahead(f)
  BY <1>3, AheadOn DEF SpanInv
<1>4. CASE Offered(f)
  BY <1>4, OfferedOn
<1>5. CASE f \in seen /\ NoGo
  BY <1>5, SeenStays DEF Covered
<1>6. CASE 0 \in span[f] \/ f \in passed
  BY <1>1, <1>6 DEF Covered
<1> QED BY <1>2, <1>3, <1>4, <1>5, <1>6 DEF Covered

\* A pass begins with every file ahead and what it is now as its only version.
LEMMA SpanBegins ==
    ASSUME TypeInv, Channel, [ClassicNext]_cvars, Begins
    PROVE  SpanInv'
<1> USE DEF walkVars, sourceVars, serverVars, netVars, diskVars, mirrorVars, historyVars,
            clientVars, passVars
<1>1. /\ server' = "walk" /\ todo' = File /\ bundle' = {} /\ held' = {} /\ opened' = {}
      /\ span' = [f \in File |-> {source[f]}] /\ source' = source
      /\ client' = client /\ seen' = seen /\ pending' = pending /\ link' = link
  BY DEF Begins, ReadSync, SeeFlag, StartPass
<1>2. NoneMissed'
  BY <1>1 DEF NoneMissed, Ahead, Walking
<1>3. SpanKept'
  BY <1>1 DEF SpanKept
<1>4. CASE ReadSync
  <2>1. InUp("sync")
    BY <1>4, UpHead DEF ReadSync, TypeInv, Channel
  <2>2. down' = down /\ down = <<>> /\ seen = {} /\ pending = {}
    BY <1>4, <2>1 DEF ReadSync, Channel, UpChannel
  <2>3. ToSet(down') = {}
    BY <2>2, NoLines
  <2> QED BY <1>1, <1>2, <1>3, <2>2, <2>3 DEF SpanInv, SpanOffered, SpanReceived
<1>5. CASE SeeFlag
  <2>0. ToClient(<<Line("go", {})>>) /\ server = "cutover"
    BY <1>5 DEF SeeFlag
  <2>1. \A l \in ToSet(down) : l.type \notin {"offer", "done"}
    BY <2>0 DEF Channel, DownChannel, InDown, AtRest
  <2>2. CASE link
    <3>1. ToSet(down') = ToSet(down) \union {Line("go", {})} /\ Line("go", {}).type = "go"
      BY <2>0, <2>2, LineTypes, Sending DEF TypeInv, Line
    <3>2. ~NoGo'
      BY <3>1 DEF NoGo, InDown
    <3>3. SpanOffered'
      BY <2>1, <3>1 DEF SpanOffered
    <3> QED BY <1>2, <1>3, <3>2, <3>3 DEF SpanInv, SpanReceived
  <2>3. CASE ~link
    <3>1. ToSet(down') = ToSet(down)
      BY <2>0, <2>3 DEF ToClient
    <3>2. client \notin {"mirror", "bye", "clean"}
      BY <2>0 DEF Channel, Stages, Finished, AtRest
    <3>3. ~Tracking' /\ ~link'
      BY <1>1, <2>1, <2>3, <3>1, <3>2 DEF Tracking, Concluded, InDown
    <3> QED BY <1>2, <1>3, <3>3 DEF SpanInv, SpanReceived, SpanOffered
  <2> QED BY <2>2, <2>3
<1> QED BY <1>4, <1>5 DEF Begins

LEMMA SpanStep ==
    ASSUME TypeInv, Channel, StampInv, SpanInv, [ClassicNext]_cvars
    PROVE  SpanInv'
<1>1. CASE Begins
  BY <1>1, SpanBegins
<1>2. CASE ~Begins
  BY <1>2, NoneMissedOn, SpanKeptOn, SpanOfferedOn, SpanReceivedOn DEF SpanInv
<1> QED BY <1>1, <1>2

LEMMA SpanInit == ClassicInit => SpanInv
<1> SUFFICES ASSUME ClassicInit PROVE SpanInv
  OBVIOUS
<1>1. ToSet(down) = {} /\ link = FALSE /\ server = "accept" /\ client = "idle"
  BY NoLines DEF ClassicInit
<1>2. ~Tracking /\ server \notin Walking
  BY <1>1 DEF Tracking, Concluded, InDown, Walking
<1> QED BY <1>1, <1>2 DEF SpanInv, NoneMissed, SpanKept, SpanOffered, SpanReceived

------------------------------------------------------------------------------
(* What the mirror leaves.                                                   *)

\* Once a client has finished, no pass can begin and nothing at its side moves.
LEMMA FinishedStays ==
    ASSUME TypeInv, Channel, [ClassicNext]_cvars, Finished,
           client' \in {"bye", "clean", "incomplete"}
    PROVE  /\ UNCHANGED <<span, passed, content, rooted, pruned>>
           /\ client' \in {"bye", "clean"} => client \in {"bye", "clean"}
<1> USE DEF walkVars, sourceVars, serverVars, netVars, diskVars, mirrorVars, historyVars,
            clientVars, passVars
<1>1. client \in {"bye", "clean", "incomplete"} /\ AtRest /\ ~InUp("sync")
  BY DEF Channel, Stages, Finished
<1>2. ~ReadSync
  BY <1>1, UpHead DEF ReadSync, TypeInv, Channel
<1>3. UNCHANGED <<span, passed, content, rooted, pruned>>
  BY <1>1, <1>2
     DEF ClassicNext, SourceStep, WriteFile, RemoveFile, Change, Operator, StopWriters, AtRest,
         CreateFlag, ServerStep, OfferBundle, OfferLarge, ReadMask, EndPass, SeeFlag, Walking,
         ReadBye, AbortSession, LookAt, OpenFile, CannotOpen, SendBody, IdleTimeout, Receiving,
         Drop, ClientStep, Connect, Refused, ReadOffer, ReadBody, ReadSkip, ReadPassEnd, ReadGo,
         ReadDone, MirrorDelete, SendBye, Fail, Rerun, cvars
<1>4. client' \in {"bye", "clean"} => client \in {"bye", "clean"}
  BY <1>1
     DEF ClassicNext, SourceStep, WriteFile, RemoveFile, Change, Operator, StopWriters, AtRest,
         CreateFlag, ServerStep, ReadSync, OfferBundle, OfferLarge, ReadMask, EndPass, SeeFlag,
         ReadBye, AbortSession, LookAt, OpenFile, CannotOpen, SendBody, IdleTimeout, Receiving,
         Drop, ClientStep, Connect, Refused, ReadOffer, ReadBody, ReadSkip, ReadPassEnd, ReadGo,
         ReadDone, MirrorDelete, SendBye, Fail, Rerun, cvars
<1> QED BY <1>3, <1>4

\* When the server's DONE has been read, every file was seen, or missing from the
\* source at some moment of the pass, or passed over.
LEMMA AllSeen ==
    ASSUME TypeInv, Channel, SpanInv, client = "mirror", NEW f \in File
    PROVE  /\ 0 \in span[f] \/ f \in passed \/ f \in seen
           /\ f \in seen => f \in passed \/ Changed(f) \/ content[f] \in span[f]
<1>1. ToSet(down) = {} /\ pending = {} /\ server \notin Walking
  BY NoLines DEF Channel, Stages, AtRest, Walking
<1>2. Tracking /\ NoGo
  BY <1>1 DEF Tracking, Concluded, NoGo, InDown
<1>3. Covered(f)
  BY <1>1, <1>2 DEF SpanInv, NoneMissed, Ahead
<1>4. ~Offered(f) /\ f \notin FilesIn(pending)
  BY <1>1 DEF Offered, FilesIn
<1> QED BY <1>2, <1>3, <1>4 DEF Covered, SpanInv, SpanReceived

LEMMA MirrorMade ==
    ASSUME TypeInv, Channel, SpanInv, MirrorDelete
    PROVE  Mirrored' /\ PrunedWasGone'
<1> USE DEF sourceVars, serverVars, netVars, mirrorVars, passVars
<1>1. /\ client = "mirror" /\ rooted' = rooted
      /\ span' = span /\ passed' = passed
      /\ pruned' = IF rooted THEN {f \in File : content[f] # 0 /\ f \notin seen} ELSE {}
      /\ content' = [f \in File |-> IF f \in pruned' THEN 0 ELSE content[f]]
  BY DEF MirrorDelete
<1>2. PrunedWasGone'
  BY <1>1, AllSeen DEF PrunedWasGone
<1>3. ASSUME NEW f \in File
      PROVE  f \in passed \/ Changed(f) \/ content'[f] \in span[f] \/ (~rooted /\ 0 \in span[f])
  <2>1. CASE f \in seen
    <3>1. content'[f] = content[f]
      BY <1>1, <2>1
    <3> QED BY <1>1, <2>1, <3>1, AllSeen
  <2>2. CASE f \notin seen /\ 0 \in span[f]
    <3>1. rooted => content'[f] = 0
      BY <1>1, <2>2
    <3> QED BY <2>2, <3>1
  <2> QED BY <1>1, <2>1, <2>2, AllSeen
<1> QED BY <1>1, <1>2, <1>3 DEF Mirrored, Changed

LEMMA ToFinished ==
    ASSUME TypeInv, Channel, [ClassicNext]_cvars, ~MirrorDelete,
           client' \in {"bye", "clean", "incomplete"}, ~Finished
    PROVE  client' = "incomplete" /\ pruned' = {}
<1> USE DEF walkVars, sourceVars, serverVars, netVars, diskVars, mirrorVars, historyVars,
            clientVars, passVars
<1>1. CASE Fail
  BY <1>1 DEF Fail, Channel, Stages
<1>2. CASE ~Fail
  <2>1. client' = client /\ pruned' = pruned
    BY <1>2
       DEF ClassicNext, SourceStep, WriteFile, RemoveFile, Change, Operator, StopWriters, Got,
         CreateFlag, ServerStep, ReadSync, OfferBundle, OfferLarge, ReadMask, EndPass, SeeFlag,
         ReadBye, AbortSession, LookAt, OpenFile, CannotOpen, SendBody, IdleTimeout, Finished,
         Drop, ClientStep, Connect, Refused, ReadOffer, ReadBody, ReadSkip, ReadPassEnd, ReadGo,
         ReadDone, SendBye, Rerun, cvars
  <2> QED BY <2>1 DEF Finished
<1> QED BY <1>1, <1>2

LEMMA MirroredStep ==
    ASSUME TypeInv, Channel, SpanInv, Mirrored, PrunedWasGone, [ClassicNext]_cvars
    PROVE  Mirrored' /\ PrunedWasGone'
<1>1. CASE client' \notin {"bye", "clean", "incomplete"}
  BY <1>1 DEF Mirrored, PrunedWasGone
<1>2. CASE MirrorDelete
  BY <1>2, MirrorMade
<1>3. CASE ~MirrorDelete /\ client' \in {"bye", "clean", "incomplete"} /\ ~Finished
  <2>1. client' = "incomplete" /\ pruned' = {}
    BY <1>3, ToFinished
  <2> QED BY <2>1 DEF Mirrored, PrunedWasGone
<1>4. CASE Finished /\ client' \in {"bye", "clean", "incomplete"}
  <2>1. /\ UNCHANGED <<span, passed, content, rooted, pruned>>
        /\ client' \in {"bye", "clean"} => client \in {"bye", "clean"}
    BY <1>4, FinishedStays
  <2>2. client \in {"bye", "clean", "incomplete"}
    BY <1>4 DEF Finished
  <2> QED BY <2>1, <2>2 DEF Mirrored, PrunedWasGone, Changed
<1> QED BY <1>1, <1>2, <1>3, <1>4

\* A file with two versions in its span has more than one.
LEMMA ManyVersions ==
    ASSUME TypeInv, NEW f \in File, Changed(f)
    PROVE  Cardinality(span[f]) > 1
<1>1. span[f] \subseteq 0..(1 + MaxChanges) /\ MaxChanges \in Nat
  BY ClassicAssumption DEF TypeInv, ClassicTypeOK, Versions
<1>2. IsFiniteSet(0..(1 + MaxChanges))
  BY <1>1, FS_Interval
<1>3. IsFiniteSet(span[f])
  BY <1>1, <1>2, FS_Subset
<1>4. PICK v \in span[f], w \in span[f] : v # w
  BY DEF Changed
<1>5. IsFiniteSet({v}) /\ Cardinality({v}) = 1
  BY FS_Singleton
<1>6. {v} \subseteq span[f] /\ {v} # span[f]
  BY <1>4
<1>7. Cardinality({v}) <= Cardinality(span[f]) /\ Cardinality({v}) # Cardinality(span[f])
  BY <1>3, <1>6, FS_Subset
<1>8. Cardinality(span[f]) \in Nat
  BY <1>3, FS_CardinalityType
<1> QED BY <1>5, <1>7, <1>8

SessionInv == TypeInv /\ Channel /\ StampInv /\ SpanInv /\ Mirrored /\ PrunedWasGone

LEMMA SessionInvariant == ClassicSpec => []SessionInv
<1>1. ClassicInit => SessionInv
  <2>1. ClassicInit => Mirrored /\ PrunedWasGone
    BY DEF ClassicInit, Mirrored, PrunedWasGone
  <2> QED BY <2>1, TypeInit, ChannelInit, StampInit, SpanInit DEF SessionInv
<1>2. SessionInv /\ [ClassicNext]_cvars => SessionInv'
  BY TypeStep, ChannelStep, KnownStep, BodiesFitStep, FreshlyOpenedStep, StampStep,
     SpanStep, MirroredStep
     DEF SessionInv, StampInv
<1> QED BY <1>1, <1>2, PTL DEF ClassicSpec

\* mirror_delete removes a file only if the source was without it at some moment of
\* the last pass, or the walk passed it over: one that was there all the time is
\* offered, and what is offered is seen.
THEOREM PrunedFilesWereGone == ClassicSpec => []PrunedWasGone
<1>1. SessionInv => PrunedWasGone
  BY DEF SessionInv
<1> QED BY <1>1, SessionInvariant, PTL

\* A clean finish mirrors every file that did not change during the last pass, with
\* or without a cutover, whatever pass 1 saw and whichever connections broke before.
THEOREM CleanRunMirrors == ClassicSpec => []UnchangedFilesMirrored
<1>1. SessionInv => UnchangedFilesMirrored
  <2> SUFFICES ASSUME SessionInv, client = "clean", NEW f \in File,
                      f \notin passed, ~(Cardinality(span[f]) > 1)
               PROVE  span[f] = {content[f]} \/ (~rooted /\ span[f] = {0})
    BY DEF UnchangedFilesMirrored
  <2>1. ~Changed(f)
    BY ManyVersions DEF SessionInv
  <2>2. content[f] \in span[f] \/ (~rooted /\ 0 \in span[f])
    BY <2>1 DEF SessionInv, Mirrored
  <2> QED BY <2>1, <2>2 DEF Changed
<1> QED BY <1>1, SessionInvariant, PTL
------------------------------------------------------------------------------
(* A session keeps the promise of a mirror run. *)

\* The session as the promise sees it.
SeenSoFar == IF Unconnected THEN {} ELSE seen
Owed == IF Unconnected THEN {} ELSE FilesIn(pending)
Copies == [f \in File |-> CopyStatus(f)]

LEMMA PhaseIs ==
    /\ client \in Receiving \union {"idle", "mirror"} => RunPhase = "running" /\ Mirror!Active
    /\ client \in {"bye", "clean"} => RunPhase = "done" /\ ~Mirror!Active
    /\ client \in {"incomplete", "refused"} => RunPhase = "stopped" /\ ~Mirror!Active
  BY DEF RunPhase, Mirror!Active, Receiving

\* A step that changes nothing of what the promise is about.
LEMMA StaysMirror ==
    ASSUME RunPhase' = RunPhase, SeenSoFar' = SeenSoFar, Owed' = Owed, UNCHANGED diskVars
    PROVE  UNCHANGED Mirror!mvars
<1>1. Copies' = Copies
  BY DEF Copies, CopyStatus, diskVars
<1> QED BY <1>1 DEF Mirror!mvars, Copies, SeenSoFar, Owed

LEMMA OfferMirrors ==
    ASSUME TypeInv, Stages, ReadOffer
    PROVE  Mirror!Next
<1> DEFINE items == Head(down).items
           wanted == {i \in items : content[i[1]] = 0 \/ stamp[i[1]] # i[2]}
<1>1. /\ client = "pass" /\ Gets("offer") /\ seen' = seen \union FilesIn(items)
      /\ pending' = wanted /\ client' \in {"pass", "bodies"} /\ UNCHANGED diskVars
  BY DEF ReadOffer
<1>2. items \subseteq File \X Versions
  <2>1. Head(down) \in DownLines /\ Head(down).type = "offer"
    BY <1>1, Getting DEF TypeInv
  <2> QED BY <2>1 DEF DownLines
<1>3. FilesIn(items) \in SUBSET File /\ FilesIn(wanted) \in SUBSET FilesIn(items)
  BY <1>2 DEF FilesIn
<1>4. \A v \in Versions : v # Foreign
  BY DEF Versions, Foreign
<1>5. ASSUME NEW f \in FilesIn(items), Copies[f] # "good" PROVE f \in FilesIn(wanted)
  <2>1. PICK i \in items : f = i[1]
    BY DEF FilesIn
  <2>2. f \in File /\ i[2] # Foreign
    BY <1>2, <1>4, <2>1
  <2>3. content[f] = 0 \/ stamp[f] = Foreign
    BY <1>5, <2>2 DEF Copies, CopyStatus
  <2> QED BY <2>1, <2>2, <2>3 DEF FilesIn
<1> HIDE DEF items, wanted
<1>6. /\ RunPhase' = RunPhase /\ Mirror!Active
      /\ SeenSoFar' = SeenSoFar \union FilesIn(items)
      /\ Owed' = FilesIn(wanted) /\ Owed = {}
  BY <1>1 DEF RunPhase, Mirror!Active, Receiving, SeenSoFar, Owed, Unconnected, Stages, FilesIn
<1>7. Copies' = Copies
  BY <1>1 DEF Copies, CopyStatus, diskVars
<1>8. Mirror!Offer(FilesIn(items), FilesIn(wanted))
  BY <1>5, <1>6, <1>7 DEF Mirror!Offer, Copies, SeenSoFar, Owed
<1> QED BY <1>3, <1>8 DEF Mirror!Next

LEMMA ReceiveMirrors ==
    ASSUME TypeInv, NEW f \in File, ReadSkip(f) \/ \E v \in Versions : ReadBody(f, v)
    PROVE  Mirror!Next
<1>1. /\ client = "bodies" /\ client' \in {"pass", "bodies"} /\ UNCHANGED seen
      /\ pending' = {i \in pending : i[1] # f}
  BY DEF ReadSkip, ReadBody, Got
<1>2. /\ RunPhase' = RunPhase /\ Mirror!Active /\ SeenSoFar' = SeenSoFar
      /\ Owed = FilesIn(pending) /\ Owed' \in SUBSET Owed
  BY <1>1 DEF RunPhase, Mirror!Active, Receiving, SeenSoFar, Owed, Unconnected, FilesIn
<1>3. Owed \subseteq File
  BY <1>2 DEF TypeInv, ClassicTypeOK, FilesIn
<1>4. \E got \in SUBSET Owed :
          Copies' = [g \in File |-> IF g \in got THEN "good" ELSE Copies[g]]
  <2>1. CASE ReadSkip(f)
    <3>1. Copies' = [g \in File |-> IF g \in {} THEN "good" ELSE Copies[g]]
      BY <2>1 DEF ReadSkip, Copies, CopyStatus, diskVars
    <3> WITNESS {} \in SUBSET Owed
    <3> QED BY <3>1
  <2>2. ASSUME NEW v \in Versions, ReadBody(f, v)
        PROVE  \E got \in SUBSET Owed :
                   Copies' = [g \in File |-> IF g \in got THEN "good" ELSE Copies[g]]
    <3>1. PICK c \in Versions \union {Torn} : content' = [content EXCEPT ![f] = c]
      BY <2>2 DEF ReadBody
    <3>2. c # 0 /\ v # Foreign
      BY DEF Versions, Torn, Foreign
    <3>3. stamp' = [stamp EXCEPT ![f] = v] /\ <<f, v>> \in pending
      BY <2>2 DEF ReadBody
    <3>4. /\ content'[f] = c /\ stamp'[f] = v
          /\ \A g \in File \ {f} : content'[g] = content[g] /\ stamp'[g] = stamp[g]
      BY <3>1, <3>3 DEF TypeInv, ClassicTypeOK
    <3>5. \A g \in File : CopyStatus(g)' = IF g \in {f} THEN "good" ELSE CopyStatus(g)
      BY <3>2, <3>4 DEF CopyStatus
    <3>6. Copies' = [g \in File |-> IF g \in {f} THEN "good" ELSE Copies[g]]
      BY <3>5 DEF Copies
    <3>7. {f} \in SUBSET Owed
      BY <1>2, <3>3 DEF FilesIn
    <3> WITNESS {f} \in SUBSET Owed
    <3> QED BY <3>6
  <2> QED BY <2>1, <2>2
<1>5. PICK got \in SUBSET Owed :
          Copies' = [g \in File |-> IF g \in got THEN "good" ELSE Copies[g]]
  BY <1>4
<1>6. Mirror!Receive(got, Owed')
  BY <1>2, <1>3, <1>5 DEF Mirror!Receive, Mirror!Write, Copies, SeenSoFar, Owed
<1>7. \E gone \in SUBSET Owed : \E left \in SUBSET Owed : Mirror!Receive(gone, left)
  BY <1>2, <1>5, <1>6
<1> QED BY <1>7 DEF Mirror!Next, Owed

LEMMA FailMirrors ==
    ASSUME TypeInv, Fail \/ Refused
    PROVE  Mirror!Next
<1>1. /\ client \in Receiving \union {"idle"} /\ client' \in {"incomplete", "refused"}
      /\ client = "idle" <=> client' = "refused"
      /\ UNCHANGED <<pending, seen>>
  BY DEF Fail, Refused, mirrorVars, Receiving
<1>2. /\ RunPhase' = "stopped" /\ Mirror!Active
      /\ SeenSoFar' = SeenSoFar /\ Owed' = Owed
  BY <1>1 DEF RunPhase, Mirror!Active, Receiving, SeenSoFar, Owed, Unconnected, FilesIn
<1>3. \E cut \in SUBSET Owed :
          Copies' = [f \in File |-> IF f \in cut THEN "stale"
                                    ELSE IF f \in {} THEN "good" ELSE Copies[f]]
  <2>1. CASE UNCHANGED diskVars
    <3>1. Copies' = [f \in File |-> IF f \in {} THEN "stale"
                                    ELSE IF f \in {} THEN "good" ELSE Copies[f]]
      BY <2>1 DEF Copies, CopyStatus, diskVars
    <3> WITNESS {} \in SUBSET Owed
    <3> QED BY <3>1
  <2>2. CASE ~UNCHANGED diskVars
    <3>1. PICK i \in pending : /\ content' = [content EXCEPT ![i[1]] = Torn]
                               /\ stamp' = [stamp EXCEPT ![i[1]] = Foreign]
                               /\ client \in Receiving
      BY <2>2 DEF Fail, Refused
    <3>2. i[1] \in File /\ i[1] \in Owed
      BY <3>1 DEF Owed, Unconnected, Receiving, FilesIn, TypeInv, ClassicTypeOK
    <3>3. /\ content'[i[1]] = Torn /\ stamp'[i[1]] = Foreign /\ Torn # 0
          /\ \A g \in File \ {i[1]} : content'[g] = content[g] /\ stamp'[g] = stamp[g]
      BY <3>1, <3>2 DEF TypeInv, ClassicTypeOK, Torn
    <3>4. \A g \in File : CopyStatus(g)' = IF g \in {i[1]} THEN "stale" ELSE CopyStatus(g)
      BY <3>3 DEF CopyStatus
    <3>5. Copies' = [f \in File |-> IF f \in {i[1]} THEN "stale"
                                    ELSE IF f \in {} THEN "good" ELSE Copies[f]]
      BY <3>4 DEF Copies
    <3>6. {i[1]} \in SUBSET Owed
      BY <3>2
    <3> WITNESS {i[1]} \in SUBSET Owed
    <3> QED BY <3>5
  <2> QED BY <2>1, <2>2
<1>4. PICK cut \in SUBSET Owed :
          Copies' = [f \in File |-> IF f \in cut THEN "stale"
                                    ELSE IF f \in {} THEN "good" ELSE Copies[f]]
  BY <1>3
<1>5. Mirror!Fail({}, cut, Owed)
  BY <1>2, <1>4 DEF Mirror!Fail, Mirror!Write, Copies, SeenSoFar, Owed
<1>6. \E got \in SUBSET Owed : \E torn \in SUBSET Owed : \E left \in SUBSET Owed :
          Mirror!Fail(got, torn, left)
  BY <1>5
<1> QED BY <1>6 DEF Mirror!Next, Owed

LEMMA DeleteMirrors ==
    ASSUME TypeInv, Stages, MirrorDelete
    PROVE  Mirror!Next
<1>1. /\ client = "mirror" /\ client' = "bye" /\ UNCHANGED <<pending, seen>>
      /\ pruned' \in SUBSET (File \ seen)
      /\ content' = [f \in File |-> IF f \in pruned' THEN 0 ELSE content[f]]
      /\ stamp' = [f \in File |-> IF f \in pruned' THEN Foreign ELSE stamp[f]]
  BY DEF MirrorDelete, mirrorVars
<1>2. /\ RunPhase = "running" /\ RunPhase' = "done"
      /\ SeenSoFar = seen /\ SeenSoFar' = SeenSoFar /\ Owed = {} /\ Owed' = Owed
  BY <1>1 DEF RunPhase, Receiving, SeenSoFar, Owed, Unconnected, FilesIn, Stages
<1>3. Copies' = [f \in File |-> IF f \in pruned' THEN "absent" ELSE Copies[f]]
  BY <1>1 DEF Copies, CopyStatus
<1>4. PICK gone \in SUBSET (File \ seen) :
          Copies' = [f \in File |-> IF f \in gone THEN "absent" ELSE Copies[f]]
  BY <1>1, <1>3
<1>5. Mirror!Finish(gone)
  BY <1>2, <1>4 DEF Mirror!Finish, Mirror!Write, Copies, SeenSoFar, Owed
<1>6. \E gone2 \in SUBSET (File \ SeenSoFar) : Mirror!Finish(gone2)
  BY <1>2, <1>5
<1> QED BY <1>6 DEF Mirror!Next, SeenSoFar

LEMMA StepMirrors ==
    TypeInv /\ Stages /\ [ClassicNext]_cvars => [Mirror!Next]_(Mirror!mvars)
<1> SUFFICES ASSUME TypeInv, Stages, [ClassicNext]_cvars PROVE [Mirror!Next]_(Mirror!mvars)
  OBVIOUS
<1>1. CASE UNCHANGED <<client, mirrorVars, diskVars>>
  BY <1>1, StaysMirror DEF RunPhase, SeenSoFar, Owed, Unconnected, FilesIn, mirrorVars
<1>2. CASE Connect \/ ReadPassEnd \/ ReadDone
  <2>1. /\ UNCHANGED diskVars /\ SeenSoFar' = SeenSoFar /\ Owed' = Owed
        /\ RunPhase' = RunPhase
    BY <1>2 DEF Connect, ReadPassEnd, ReadDone, SeenSoFar, Owed, Unconnected, FilesIn, mirrorVars,
                RunPhase, Receiving
  <2> QED BY <2>1, StaysMirror
<1>3. CASE ReadGo
  <2>1. /\ RunPhase = "running" /\ RunPhase' = RunPhase
        /\ SeenSoFar' = {} /\ Owed = {} /\ Owed' = Owed
    BY <1>3 DEF ReadGo, RunPhase, Receiving, SeenSoFar, Owed, Unconnected, FilesIn, Stages
  <2>2. Copies' = Copies
    BY <1>3 DEF ReadGo, Copies, CopyStatus, diskVars
  <2>3. Mirror!NextPass
    BY <2>1, <2>2 DEF Mirror!NextPass, SeenSoFar, Owed, Copies
  <2> QED BY <2>3 DEF Mirror!Next
<1>4. CASE SendBye
  <2>1. /\ client = "bye" /\ client' \in {"clean", "incomplete"}
        /\ UNCHANGED <<mirrorVars, diskVars>>
    BY <1>4 DEF SendBye
  <2>2. /\ RunPhase = "done" /\ RunPhase' \in {"done", "stopped"}
        /\ SeenSoFar' = SeenSoFar /\ Owed' = Owed
    BY <2>1 DEF RunPhase, Receiving, SeenSoFar, Owed, Unconnected, FilesIn, mirrorVars
  <2>3. Copies' = Copies
    BY <2>1 DEF Copies, CopyStatus, diskVars
  <2>4. CASE RunPhase' = "done"
    BY <2>1, <2>2, <2>4, StaysMirror
  <2>5. CASE RunPhase' = "stopped"
    <3>1. Mirror!LoseReport
      BY <2>2, <2>3, <2>5 DEF Mirror!LoseReport, SeenSoFar, Owed, Copies
    <3> QED BY <3>1 DEF Mirror!Next
  <2> QED BY <2>2, <2>4, <2>5
<1>5. CASE Rerun
  <2>1. /\ client \in {"clean", "incomplete", "refused"} /\ client' = "idle"
        /\ UNCHANGED <<mirrorVars, diskVars>>
    BY <1>5 DEF Rerun
  <2>2. /\ ~Mirror!Active /\ RunPhase' = "running"
        /\ SeenSoFar' = {} /\ Owed' = {}
    BY <2>1 DEF RunPhase, Mirror!Active, Receiving, SeenSoFar, Owed, Unconnected
  <2>3. Copies' = Copies
    BY <2>1 DEF Copies, CopyStatus, diskVars
  <2>4. Mirror!Begin
    BY <2>2, <2>3 DEF Mirror!Begin, SeenSoFar, Owed, Copies
  <2> QED BY <2>4 DEF Mirror!Next
<1>6. CASE SourceStep \/ Operator \/ ServerStep \/ IdleTimeout \/ Drop
  <2>1. UNCHANGED <<client, mirrorVars, diskVars>>
    BY <1>6 DEF SourceStep, WriteFile, RemoveFile, Change, Operator, StopWriters, CreateFlag,
       ServerStep, ReadSync, OfferBundle, OfferLarge, ReadMask, EndPass, SeeFlag, ReadBye,
       AbortSession, LookAt, OpenFile, CannotOpen, SendBody, IdleTimeout, Drop, clientVars
  <2> QED BY <1>1, <2>1
<1>7. CASE UNCHANGED cvars
  BY <1>1, <1>7 DEF cvars, clientVars
<1> QED
  BY <1>2, <1>3, <1>4, <1>5, <1>6, <1>7, OfferMirrors, ReceiveMirrors, FailMirrors, DeleteMirrors
  DEF ClassicNext, ClientStep

LEMMA InitMirrors == ClassicInit => Mirror!Init
<1> SUFFICES ASSUME ClassicInit PROVE Mirror!Init
  OBVIOUS
<1>1. RunPhase = "running" /\ SeenSoFar = {} /\ Owed = {}
  BY DEF ClassicInit, RunPhase, SeenSoFar, Owed, Unconnected
<1>2. Copies \in [File -> {"absent", "stale", "good"}]
  BY DEF Copies, CopyStatus
<1> QED BY <1>1, <1>2 DEF Mirror!Init, Copies, SeenSoFar, Owed

\* A session keeps the promise of a mirror run, whatever is written to the source
\* and wherever it breaks: a body is written to nothing but what was asked for, and
\* the mirror deletes once, at the end, when nothing is owed.
THEOREM RefinesMirror == ClassicSpec => ImplementsMirror
<1>1. SessionInv => TypeInv /\ Stages
  BY DEF SessionInv, Channel
<1> QED
  BY <1>1, InitMirrors, StepMirrors, SessionInvariant, PTL
  DEF ClassicSpec, ImplementsMirror, Mirror!Spec
==============================================================================

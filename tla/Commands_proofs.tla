--------------------------- MODULE Commands_proofs ---------------------------
(***************************************************************************)
(* Proofs about the commands of a test, for every file system, every list  *)
(* of lines and every program they run.                                    *)
(***************************************************************************)
EXTENDS Commands, SequenceTheorems, TLAPS

(* Paths.                                                                    *)

\* p is on the way to q: position by position, the names of p are those of q.
LEMMA PrefixNames ==
  ASSUME NEW p \in Seq(STRING), NEW q \in Seq(STRING)
  PROVE  IsPrefix(p, q) <=> Len(p) <= Len(q) /\ \A i \in 1 .. Len(p) : p[i] = q[i]
<1>1. /\ Len(SubSeq(p, 1, Len(p))) = Len(p) /\ \A i \in 1 .. Len(p) : SubSeq(p, 1, Len(p))[i] = p[i]
      /\ SubSeq(p, 1, Len(p)) \in Seq(STRING)
  OBVIOUS
<1>2. ASSUME Len(p) <= Len(q)
      PROVE  /\ Len(SubSeq(q, 1, Len(p))) = Len(p) /\ SubSeq(q, 1, Len(p)) \in Seq(STRING)
             /\ \A i \in 1 .. Len(p) : SubSeq(q, 1, Len(p))[i] = q[i]
  BY <1>2
<1>3. ASSUME Len(p) <= Len(q), \A i \in 1 .. Len(p) : p[i] = q[i]
      PROVE  SubSeq(p, 1, Len(p)) = SubSeq(q, 1, Len(p))
  BY <1>1, <1>2, <1>3
<1> QED
  BY <1>1, <1>2, <1>3 DEF IsPrefix

\* The places of the file system are closed under "the directory of".
LEMMA Places ==
  /\ \A p \in Paths : IsPrefix(p, p) /\ IsPrefix(Root, p)
  /\ \A p, q, r \in Paths : IsPrefix(p, q) /\ IsPrefix(q, r) => IsPrefix(p, r)
  /\ \A p, q \in Paths : IsPrefix(p, q) /\ IsPrefix(q, p) => p = q
  /\ \A p \in Paths : p # Root => Front(p) \in Paths /\ Front(p) # p /\ IsPrefix(Front(p), p)
  /\ \A p, q \in Paths : IsPrefix(p, q) /\ p # q => q # Root /\ IsPrefix(p, Front(q))
  /\ \A p, q, r \in Paths : IsPrefix(p, r) /\ IsPrefix(q, r) => IsPrefix(p, q) \/ IsPrefix(q, p)
  /\ Front(Root) \notin Paths /\ <<>> \notin Paths
<1>1. \A p \in Paths : p \in Seq(STRING) /\ Len(p) >= 1 /\ p[1] = "/"
  BY PathsAssumption
<1>2. Root \in Paths /\ Len(Root) = 1 /\ Root[1] = "/"
  BY PathsAssumption DEF Root
<1>3. ASSUME NEW p \in Paths, p # Root
      PROVE  /\ Front(p) \in Paths /\ Len(Front(p)) = Len(p) - 1
             /\ \A i \in 1 .. Len(p) - 1 : Front(p)[i] = p[i]
  <2>1. Front(p) \in Paths
    BY <1>3, PathsAssumption
  <2>2. p \in Seq(STRING) /\ Len(p) \in Nat /\ Len(p) >= 1
    BY <1>1
  <2> DEFINE n == Len(p) - 1
  <2>3. 1 \in Int /\ n \in Int /\ n >= 0 /\ \A i \in 1 .. n : p[i] \in STRING
    BY <2>2
  <2> HIDE DEF n
  <2>4. /\ Len(SubSeq(p, 1, n)) = IF 1 <= n THEN n - 1 + 1 ELSE 0
        /\ \A i \in 1 .. n - 1 + 1 : SubSeq(p, 1, n)[i] = p[1 + i - 1]
    BY <2>3, SubSeqProperties
  <2>5. Len(SubSeq(p, 1, n)) = n /\ \A i \in 1 .. n : SubSeq(p, 1, n)[i] = p[i]
    BY <2>3, <2>4
  <2> QED
    BY <2>1, <2>5 DEF Front, n
<1>4. ASSUME NEW p \in Paths, NEW q \in Paths
      PROVE  IsPrefix(p, q) <=> Len(p) <= Len(q) /\ \A i \in 1 .. Len(p) : p[i] = q[i]
  BY <1>1, PrefixNames
<1>5. \A p, q \in Paths : Len(p) = Len(q) /\ (\A i \in 1 .. Len(p) : p[i] = q[i]) => p = q
  BY <1>1
<1>6. Front(Root) \notin Paths /\ <<>> \notin Paths
  <2>1. <<>> \notin Paths
    BY PathsAssumption
  <2>2. SubSeq(Root, 1, Len(Root) - 1) = <<>>
    BY <1>2
  <2> QED
    BY <2>1, <2>2 DEF Front
<1>7. \A p, q \in Paths : IsPrefix(p, q) /\ p # q => q # Root /\ IsPrefix(p, Front(q))
  <2> SUFFICES ASSUME NEW p \in Paths, NEW q \in Paths, IsPrefix(p, q), p # q
               PROVE  q # Root /\ IsPrefix(p, Front(q))
    OBVIOUS
  <2>1. Len(p) < Len(q)
    BY <1>1, <1>4, <1>5
  <2>2. q # Root
    BY <2>1, <1>1, <1>2
  <2> QED
    BY <2>1, <2>2, <1>1, <1>3, <1>4
<1>8. \A p \in Paths : IsPrefix(p, p) /\ IsPrefix(Root, p)
  BY <1>1, <1>2, <1>4
<1>9. \A p, q, r \in Paths : IsPrefix(p, q) /\ IsPrefix(q, r) => IsPrefix(p, r)
  BY <1>1, <1>4
<1>10. \A p, q \in Paths : IsPrefix(p, q) /\ IsPrefix(q, p) => p = q
  BY <1>1, <1>4, <1>5
<1>11. \A p \in Paths : p # Root => Front(p) \in Paths /\ Front(p) # p /\ IsPrefix(Front(p), p)
  BY <1>1, <1>3, <1>4
<1>12. \A p, q, r \in Paths : IsPrefix(p, r) /\ IsPrefix(q, r) => IsPrefix(p, q) \/ IsPrefix(q, p)
  BY <1>1, <1>4
<1> QED
  BY <1>6, <1>7, <1>8, <1>9, <1>10, <1>11, <1>12

\* A copy has names below its destination for all it copies.
LEMMA Images ==
  ASSUME NEW top \in Paths, NEW dst \in Paths, NEW q \in Below(top), Image(top, dst, q) \in Paths
  PROVE  Image(top, dst, q) \in Below(dst)
<1> DEFINE rest == SubSeq(q, Len(top) + 1, Len(q))
<1>1. top \in Seq(STRING) /\ dst \in Seq(STRING) /\ q \in Seq(STRING) /\ Image(top, dst, q) \in Seq(STRING)
  BY PathsAssumption DEF Below
<1>2. rest \in Seq(STRING)
  BY <1>1
<1> HIDE DEF rest
<1>3. Image(top, dst, q) = dst \o rest
  BY DEF Image, rest
<1>4. Len(dst) <= Len(dst \o rest) /\ \A i \in 1 .. Len(dst) : dst[i] = (dst \o rest)[i]
  BY <1>1, <1>2, ConcatProperties
<1> QED
  BY <1>1, <1>3, <1>4, PrefixNames DEF Below

-----------------------------------------------------------------------------
(* The tree, after each way there is to change it.                           *)

Kinds == {"dir", "file", "link"}
Entry(node, names) ==
  node \in [kind : Kinds, text : {node.text}, ro : BOOLEAN, names : names]

\* New entries, each in a directory that is there or new too.
LEMMA AddTree ==
  ASSUME NEW fs, Tree(fs), NEW new,
         DOMAIN new \subseteq Paths \ DOMAIN fs,
         \A p \in DOMAIN new :
           /\ Entry(new[p], {{}})
           /\ IsDir(fs, Front(p)) \/ (Front(p) \in DOMAIN new /\ new[Front(p)].kind = "dir")
  PROVE  /\ Tree(Add(fs, new))
         /\ DOMAIN Add(fs, new) = DOMAIN fs \cup DOMAIN new
         /\ \A p \in DOMAIN fs : Add(fs, new)[p] = fs[p]
<1> DEFINE g == Add(fs, new)
<1>1. /\ DOMAIN g = DOMAIN fs \cup DOMAIN new
      /\ \A p \in DOMAIN fs : g[p] = fs[p]
      /\ \A p \in DOMAIN new : g[p] = [new[p] EXCEPT !.names = {p}]
  BY DEF Add, Exists
<1> HIDE DEF g
<1>2. ASSUME NEW p \in DOMAIN new
      PROVE  /\ g[p] \in [kind : Kinds, text : {g[p].text}, ro : BOOLEAN, names : {{p}}]
             /\ g[p].kind = new[p].kind /\ g[p].text = new[p].text /\ g[p].ro = new[p].ro
             /\ g[p].names = {p}
  BY <1>1 DEF Entry
<1>3. /\ DOMAIN fs \subseteq Paths /\ IsDir(fs, Root)
      /\ \A p \in DOMAIN fs :
           /\ fs[p] \in [kind : Kinds, text : {fs[p].text}, ro : BOOLEAN,
                         names : SUBSET DOMAIN fs]
           /\ p \in fs[p].names
           /\ \A q \in fs[p].names : fs[q] = fs[p]
           /\ fs[p].kind = "dir" => fs[p].names = {p}
           /\ p # Root => IsDir(fs, Front(p))
  BY DEF Tree, Kinds
<1>4. \A p : IsDir(fs, p) => IsDir(g, p)
  BY <1>1 DEF IsDir, Node, Exists, Free
<1>5. ASSUME NEW p \in DOMAIN new PROVE IsDir(g, Front(p))
  <2>1. CASE IsDir(fs, Front(p))
    BY <1>4, <2>1
  <2>2. CASE Front(p) \in DOMAIN new /\ new[Front(p)].kind = "dir"
    BY <1>1, <1>2, <2>2 DEF IsDir, Node, Exists
  <2> QED
    BY <2>1, <2>2
<1>6. ASSUME NEW p \in DOMAIN g
      PROVE  /\ g[p] \in [kind : Kinds, text : {g[p].text}, ro : BOOLEAN,
                           names : SUBSET DOMAIN g]
             /\ p \in g[p].names
             /\ \A q \in g[p].names : g[q] = g[p]
             /\ g[p].kind = "dir" => g[p].names = {p}
             /\ p # Root => IsDir(g, Front(p))
  <2>1. CASE p \in DOMAIN fs
    <3>1. g[p] = fs[p] /\ fs[p].names \subseteq DOMAIN fs
      BY <1>1, <1>3, <2>1
    <3>2. g[p] \in [kind : Kinds, text : {g[p].text}, ro : BOOLEAN, names : SUBSET DOMAIN g]
      BY <1>1, <1>3, <2>1, <3>1
    <3> QED
      BY <1>1, <1>3, <1>4, <2>1, <3>1, <3>2
  <2>2. CASE p \in DOMAIN new
    BY <1>1, <1>2, <1>5, <2>2
  <2> QED
    BY <1>1, <2>1, <2>2
<1>7. DOMAIN g \subseteq Paths /\ IsDir(g, Root)
  BY <1>1, <1>3, <1>4
<1>8. Tree(g)
  BY <1>6, <1>7 DEF Tree, Kinds
<1> QED
  BY <1>1, <1>2, <1>8 DEF g

\* Another text, or another bit, for a file under all its names.
LEMMA ChangeTree ==
  ASSUME NEW fs, Tree(fs), NEW p \in DOMAIN fs, NEW node,
         Entry(node, {fs[p].names}), node.kind = fs[p].kind
  PROVE  /\ Tree(Change(fs, p, node))
         /\ DOMAIN Change(fs, p, node) = DOMAIN fs
         /\ \A q \in DOMAIN fs : q \notin fs[p].names => Change(fs, p, node)[q] = fs[q]
         /\ \A q \in DOMAIN fs : q \in fs[p].names => p \in fs[q].names
<1> DEFINE g == Change(fs, p, node)
<1>1. /\ DOMAIN g = DOMAIN fs
      /\ \A q \in DOMAIN fs : q \notin fs[p].names => g[q] = fs[q]
      /\ \A q \in DOMAIN fs : q \in fs[p].names => g[q] = node
  BY DEF Change
<1> HIDE DEF g
<1>2. /\ DOMAIN fs \subseteq Paths /\ IsDir(fs, Root)
      /\ \A q \in DOMAIN fs :
           /\ fs[q] \in [kind : Kinds, text : {fs[q].text}, ro : BOOLEAN,
                         names : SUBSET DOMAIN fs]
           /\ q \in fs[q].names
           /\ \A r \in fs[q].names : fs[r] = fs[q]
           /\ fs[q].kind = "dir" => fs[q].names = {q}
           /\ q # Root => IsDir(fs, Front(q))
  BY DEF Tree, Kinds
<1>3. /\ node \in [kind : Kinds, text : {node.text}, ro : BOOLEAN, names : SUBSET DOMAIN fs]
      /\ node.names = fs[p].names
  BY <1>2 DEF Entry
<1>4. \A q \in fs[p].names : fs[q] = fs[p] /\ q \in DOMAIN fs
  BY <1>2
<1>5. \A q \in DOMAIN fs : g[q].kind = fs[q].kind /\ g[q].names = fs[q].names
  BY <1>1, <1>3, <1>4
<1>6. \A q : IsDir(fs, q) => IsDir(g, q)
  BY <1>1, <1>5 DEF IsDir, Node, Exists, Free
<1>7. \A q, r \in DOMAIN fs : r \in fs[q].names => (r \in fs[p].names <=> q \in fs[p].names)
  BY <1>2, <1>4
<1>8. ASSUME NEW q \in DOMAIN g
      PROVE  /\ g[q] \in [kind : Kinds, text : {g[q].text}, ro : BOOLEAN,
                           names : SUBSET DOMAIN g]
             /\ q \in g[q].names
             /\ \A r \in g[q].names : g[r] = g[q]
             /\ g[q].kind = "dir" => g[q].names = {q}
             /\ q # Root => IsDir(g, Front(q))
  <2>1. g[q] \in [kind : Kinds, text : {g[q].text}, ro : BOOLEAN, names : SUBSET DOMAIN g]
    BY <1>1, <1>2, <1>3
  <2>2. \A r \in g[q].names : r \in DOMAIN fs /\ g[r] = g[q]
    BY <1>1, <1>2, <1>5, <1>7
  <2> QED
    BY <2>1, <2>2, <1>1, <1>2, <1>5, <1>6
<1>9. Tree(g)
  BY <1>1, <1>2, <1>6, <1>8 DEF Tree, Kinds
<1>10. \A q \in DOMAIN fs : q \in fs[p].names => p \in fs[q].names
  BY <1>2
<1> QED
  BY <1>1, <1>9, <1>10 DEF g

\* Entries go, and with a directory all that is below it.
LEMMA UnlinkTree ==
  ASSUME NEW fs, Tree(fs), NEW ps, Root \notin ps,
         \A q \in ps : Below(q) \cap DOMAIN fs \subseteq ps
  PROVE  /\ Tree(Unlink(fs, ps))
         /\ DOMAIN Unlink(fs, ps) = DOMAIN fs \ ps
         /\ \A q \in DOMAIN fs \ ps : /\ Unlink(fs, ps)[q].kind = fs[q].kind
                                      /\ Unlink(fs, ps)[q].text = fs[q].text
                                      /\ Unlink(fs, ps)[q].ro = fs[q].ro
                                      /\ Unlink(fs, ps)[q].names = fs[q].names \ ps
<1> DEFINE g == Unlink(fs, ps)
<1>1. /\ DOMAIN g = DOMAIN fs \ ps
      /\ \A q \in DOMAIN fs \ ps : g[q] = [fs[q] EXCEPT !.names = @ \ ps]
  BY DEF Unlink
<1> HIDE DEF g
<1>2. /\ DOMAIN fs \subseteq Paths /\ IsDir(fs, Root)
      /\ \A q \in DOMAIN fs :
           /\ fs[q] \in [kind : Kinds, text : {fs[q].text}, ro : BOOLEAN,
                         names : SUBSET DOMAIN fs]
           /\ q \in fs[q].names
           /\ \A r \in fs[q].names : fs[r] = fs[q]
           /\ fs[q].kind = "dir" => fs[q].names = {q}
           /\ q # Root => IsDir(fs, Front(q))
  BY DEF Tree, Kinds
<1>3. ASSUME NEW q \in DOMAIN fs \ ps
      PROVE  /\ g[q] \in [kind : Kinds, text : {g[q].text}, ro : BOOLEAN,
                           names : SUBSET (DOMAIN fs \ ps)]
             /\ g[q].kind = fs[q].kind /\ g[q].text = fs[q].text /\ g[q].ro = fs[q].ro
             /\ g[q].names = fs[q].names \ ps
  BY <1>1, <1>2
<1>4. \A q : IsDir(fs, q) /\ q \notin ps => IsDir(g, q)
  BY <1>1, <1>3 DEF IsDir, Node, Exists, Free
<1>5. ASSUME NEW q \in DOMAIN fs \ ps, q # Root PROVE IsDir(g, Front(q))
  <2>1. q \in Paths /\ IsDir(fs, Front(q))
    BY <1>2, <1>5
  <2>2. q \in Below(Front(q)) /\ Front(q) \in Paths
    BY <2>1, <1>5, Places DEF Below
  <2> QED
    BY <2>1, <2>2, <1>4
<1>6. ASSUME NEW q \in DOMAIN g
      PROVE  /\ q \in g[q].names
             /\ \A r \in g[q].names : g[r] = g[q]
             /\ g[q].kind = "dir" => g[q].names = {q}
  <2>1. q \in DOMAIN fs \ ps
    BY <1>1
  <2>2. ASSUME NEW r \in g[q].names PROVE g[r] = g[q]
    <3>1. r \in fs[q].names /\ r \notin ps
      BY <1>3, <2>1
    <3>2. r \in DOMAIN fs \ ps /\ fs[r] = fs[q]
      BY <1>2, <2>1, <3>1
    <3>3. g[r] = [fs[q] EXCEPT !.names = @ \ ps]
      BY <1>1, <3>2
    <3> QED
      BY <1>1, <2>1, <3>3
  <2> QED
    BY <1>2, <1>3, <2>1, <2>2
<1>7. Tree(g)
  <2>1. DOMAIN g \subseteq Paths /\ IsDir(g, Root)
    BY <1>1, <1>2, <1>4
  <2>2. \A q \in DOMAIN g :
          g[q] \in [kind : Kinds, text : {g[q].text}, ro : BOOLEAN, names : SUBSET DOMAIN g]
    BY <1>1, <1>3
  <2> QED
    BY <2>1, <2>2, <1>1, <1>5, <1>6 DEF Tree, Kinds
<1> QED
  BY <1>1, <1>3, <1>7 DEF g


-----------------------------------------------------------------------------
(* The operations of the file system.                                        *)

\* From fs to g, what goes, comes and changes outside $TMP is what a path in $TMP
\* leads to.
Gone(fs, p) == \E s \in Below(Tmp) : IsPrefix(Place(fs, s), p)
Made(fs, p) == \E s \in Below(Tmp) : IsPrefix(p, Real(fs, s)) \/ IsPrefix(Real(fs, s), p)
Changed(fs, p) == \E s \in Below(Tmp) : Node(fs, p).names \cap {Place(fs, s), Real(fs, s)} # {}
Keeps(fs, g) ==
  \A p \in Paths \ Below(Tmp) :
    /\ Exists(fs, p) /\ ~Exists(g, p) => Gone(fs, p)
    /\ ~Exists(fs, p) /\ Exists(g, p) => Made(fs, p)
    /\ Exists(fs, p) /\ Exists(g, p) /\ Content(g, p) # Content(fs, p) => Changed(fs, p)

\* From fs to g nothing goes and nothing changes.
Grows(fs, g) ==
  \A p \in DOMAIN fs : /\ p \in DOMAIN g /\ g[p].kind = fs[p].kind
                       /\ g[p].text = fs[p].text /\ g[p].ro = fs[p].ro

\* Where a path leads is a matter of the links alone, and a path that names no link
\* leads to what it names.
LEMMA SameLinks ==
  ASSUME NEW fs, NEW g, Links(fs) = Links(g), NEW p
  PROVE  Place(fs, p) = Place(g, p) /\ Real(fs, p) = Real(g, p)
<1>1. Place(fs, p) = Place(g, p)
  BY DEF Place
<1>2. \A q : Node(fs, q).kind = "link" <=> q \in DOMAIN Links(fs)
  BY DEF Links, Node, Exists, Free
<1>3. \A q : Node(g, q).kind = "link" <=> q \in DOMAIN Links(g)
  BY DEF Links, Node, Exists, Free
<1> QED
  BY <1>1, <1>2, <1>3 DEF Real

LEMMA RealPlace ==
  ASSUME NEW fs, NEW p
  PROVE  ~Exists(fs, Place(fs, p)) => Real(fs, p) = Place(fs, p)
BY DEF Real, Node, Exists, Free

\* No link is on the way to the root.
LEMMA RootIsReal ==
  ASSUME NEW fs, Tree(fs)
  PROVE  Real(fs, Root) = Root
<1>1. DOMAIN Links(fs) \subseteq DOMAIN fs /\ DOMAIN fs \subseteq Paths
  BY DEF Links, Tree
<1>2. <<>> \in Seq(STRING) /\ Len(<<>>) = 0
  OBVIOUS
<1>3. \A link \in DOMAIN Links(fs) : ~IsPrefix(link, <<>>)
  <2> SUFFICES ASSUME NEW link \in DOMAIN Links(fs), IsPrefix(link, <<>>) PROVE FALSE
    OBVIOUS
  <2>1. link \in Seq(STRING) /\ Len(link) \in Nat /\ link # <<>>
    BY <1>1, PathsAssumption
  <2>2. Len(link) <= 0
    BY <1>2, <2>1, PrefixNames
  <2> QED
    BY <2>1, <2>2, EmptySeq
<1>4. Followed(Links(fs), <<>>) = <<>>
  BY <1>3, Zenon DEF Followed
<1>5. Front(Root) = <<>> /\ Last(Root) = "/" /\ Append(<<>>, "/") = Root
  BY DEF Front, Last, Root
<1>6. Place(fs, Root) = Root
  BY <1>4, <1>5 DEF Place
<1>7. Node(fs, Root).kind = "dir"
  BY DEF Tree, IsDir
<1> QED
  BY <1>6, <1>7 DEF Real

\* Nothing but the root is above $TMP.
LEMMA TmpIsTop == Front(Tmp) = Root
<1>1. Tmp \in Seq(STRING) /\ Len(Tmp) = 2 /\ Tmp[1] = "/"
  BY PlacesAssumption, PathsAssumption DEF Tmp
<1>2. Front(Tmp) \in Seq(STRING) /\ Len(Front(Tmp)) = 1 /\ Front(Tmp)[1] = "/"
  BY <1>1 DEF Front
<1>3. Root \in Seq(STRING) /\ Len(Root) = 1 /\ Root[1] = "/"
  BY PathsAssumption DEF Root
<1> QED
  BY <1>2, <1>3, SeqEqual

\* create_directories makes directories, on the way to what p leads to and nowhere
\* else.
LEMMA MakeDirsGrows ==
  ASSUME NEW fs, Tree(fs), NEW p
  PROVE  LET g == MakeDirs(fs, p).fs IN
         /\ Tree(g) /\ Links(g) = Links(fs)
         /\ DOMAIN fs \subseteq DOMAIN g /\ \A q \in DOMAIN fs : g[q] = fs[q]
         /\ \A q \in DOMAIN g \ DOMAIN fs :
              /\ Real(fs, p) \in Paths /\ q \in Paths /\ IsPrefix(q, Real(fs, p))
              /\ g[q].kind = "dir" /\ g[q].names = {q}
<1> DEFINE goal == Real(fs, p)
           missing == {q \in Paths : IsPrefix(q, goal) /\ ~Exists(fs, q)}
           new == [q \in missing |-> Dir]
           g == MakeDirs(fs, p).fs
<1> HIDE DEF goal
<1>1. CASE g = fs
  BY <1>1
<1>2. CASE /\ goal \in Paths /\ g = Add(fs, new)
           /\ \A q \in missing : Front(q) \in missing \/ MayAdd(fs, q)
  <2>1. /\ DOMAIN new = missing /\ \A q \in missing : new[q] = Dir
        /\ missing \subseteq Paths \ DOMAIN fs
    BY DEF Exists
  <2>2. Entry(Dir, {{}}) /\ Dir.kind = "dir"
    BY DEF Entry, Dir, Free, Kinds
  <2>3. \A q \in missing : Front(q) \in missing \/ IsDir(fs, Front(q))
    BY <1>2 DEF MayAdd, MayChange
  <2> HIDE DEF new
  <2>4. \A q \in DOMAIN new :
           /\ Entry(new[q], {{}})
           /\ IsDir(fs, Front(q)) \/ (Front(q) \in DOMAIN new /\ new[Front(q)].kind = "dir")
    BY <2>1, <2>2, <2>3
  <2>5. DOMAIN new \subseteq Paths \ DOMAIN fs
    BY <2>1
  <2>6. /\ Tree(g) /\ DOMAIN g = DOMAIN fs \cup missing
        /\ \A q \in DOMAIN fs : g[q] = fs[q]
    <3>1. Tree(Add(fs, new)) /\ DOMAIN Add(fs, new) = DOMAIN fs \cup DOMAIN new
          /\ \A q \in DOMAIN fs : Add(fs, new)[q] = fs[q]
      BY <2>4, <2>5, AddTree
    <3> HIDE DEF missing
    <3> QED
      BY <1>2, <2>1, <3>1
  <2>7. ASSUME NEW q \in missing PROVE g[q].kind = "dir" /\ g[q].names = {q}
    <3>1. Add(fs, new)[q] = [new[q] EXCEPT !.names = {q}]
      BY <2>1, <2>5 DEF Add, Exists
    <3> QED
      BY <1>2, <2>1, <2>2, <3>1 DEF Entry
  <2>8. Links(g) = Links(fs)
    BY <2>6, <2>7 DEF Links
  <2> QED
    BY <1>2, <2>6, <2>7, <2>8 DEF goal
<1> QED
  <2>1. \/ g = fs
        \/ /\ goal \in Paths /\ g = Add(fs, new)
           /\ \A q \in missing : Front(q) \in missing \/ MayAdd(fs, q)
    BY Zenon DEF MakeDirs, Done, Failed, goal
  <2> QED
    BY <1>1, <1>2, <2>1

\* A path in $TMP stays in it one name up, unless that is the root.
LEMMA UpFromTmp ==
  ASSUME NEW p \in Below(Tmp)
  PROVE  p = Tmp \/ Front(p) \in Below(Tmp)
BY Places DEF Below

\* The directories made for a path in $TMP, or for what is to be in them, are on the
\* way to where it leads.
LEMMA DirsForTmp ==
  ASSUME NEW fs, Tree(fs), NEW p \in Below(Tmp), NEW d \in {p, Front(p)},
         NEW q \in DOMAIN MakeDirs(fs, d).fs \ DOMAIN fs
  PROVE  \E s \in Below(Tmp) : IsPrefix(q, Real(fs, s))
<1>1. q \in Paths /\ IsPrefix(q, Real(fs, d))
  BY MakeDirsGrows
<1>2. CASE d \in Below(Tmp)
  BY <1>1, <1>2
<1>3. CASE d = Front(Tmp)
  <2>1. q \in Paths /\ IsPrefix(q, Root) /\ Root \in Paths
    BY <1>1, <1>3, TmpIsTop, RootIsReal, PathsAssumption
  <2>2. q = Root
    BY <2>1, Places
  <2> QED
    BY <2>2 DEF Tree, IsDir, Node, Exists, Free
<1> QED
  BY <1>2, <1>3, UpFromTmp

\* A change that $TMP keeps to itself, after directories were made for a path in it.
LEMMA KeepsThroughDirs ==
  ASSUME NEW fs, Tree(fs), NEW p \in Below(Tmp), NEW d \in {p, Front(p)}, NEW h,
         Keeps(MakeDirs(fs, d).fs, h)
  PROVE  Keeps(fs, h)
<1> DEFINE g == MakeDirs(fs, d).fs
<1>1. /\ DOMAIN fs \subseteq DOMAIN g /\ \A q \in DOMAIN fs : g[q] = fs[q]
      /\ Links(g) = Links(fs)
      /\ \A q \in DOMAIN g \ DOMAIN fs : \E s \in Below(Tmp) : IsPrefix(q, Real(fs, s))
  BY MakeDirsGrows, DirsForTmp
<1>2. Keeps(g, h)
  OBVIOUS
<1> HIDE DEF g
<1>3. \A s : Place(g, s) = Place(fs, s) /\ Real(g, s) = Real(fs, s)
  BY <1>1, SameLinks
<1>4. \A q : Gone(g, q) => Gone(fs, q)
  BY <1>3 DEF Gone
<1>5. \A q : Made(g, q) => Made(fs, q)
  BY <1>3 DEF Made
<1>6. \A q \in DOMAIN fs : Node(g, q) = Node(fs, q) /\ Content(g, q) = Content(fs, q)
  BY <1>1 DEF Node, Content, Exists
<1>7. \A q \in DOMAIN fs : Changed(g, q) => Changed(fs, q)
  BY <1>3, <1>6 DEF Changed
<1>8. \A q \in DOMAIN g \ DOMAIN fs : Made(fs, q)
  BY <1>1 DEF Made
<1>9. ASSUME NEW q \in Paths \ Below(Tmp)
      PROVE  /\ Exists(fs, q) /\ ~Exists(h, q) => Gone(fs, q)
             /\ ~Exists(fs, q) /\ Exists(h, q) => Made(fs, q)
             /\ Exists(fs, q) /\ Exists(h, q) /\ Content(h, q) # Content(fs, q) => Changed(fs, q)
  BY <1>1, <1>2, <1>4, <1>5, <1>6, <1>7, <1>8 DEF Keeps, Exists
<1> QED
  BY <1>9 DEF Keeps

\* g is fs, or fs with another node at q, or a new one.
Rewritten(fs, q, node, g) ==
  \/ g = fs
  \/ q \in DOMAIN fs /\ g = Change(fs, q, node)
  \/ MayAdd(fs, q) /\ g = Add(fs, [r \in {q} |-> node])

\* Writing to a file, or making it read-only, by a path in $TMP changes nothing
\* elsewhere but what that path leads to.
LEMMA FileKeeps ==
  ASSUME NEW fs, Tree(fs), NEW p \in Below(Tmp), NEW q, q = Real(fs, p),
         NEW node, NEW g, Rewritten(fs, q, node, g)
  PROVE  Keeps(fs, g)
<1>1. CASE g = fs
  BY <1>1 DEF Keeps
<1>2. CASE q \in DOMAIN fs /\ g = Change(fs, q, node)
  <2>1. /\ DOMAIN g = DOMAIN fs
        /\ \A r \in DOMAIN fs : r \notin fs[q].names => g[r] = fs[r]
    BY <1>2 DEF Change
  <2>2. \A r \in DOMAIN fs : r \in fs[q].names => q \in fs[r].names
    BY <1>2 DEF Tree
  <2>3. ASSUME NEW r \in DOMAIN fs, Content(g, r) # Content(fs, r) PROVE Changed(fs, r)
    <3>1. r \in fs[q].names
      BY <2>1, <2>3 DEF Content, Node, Exists
    <3>2. q \in Node(fs, r).names
      BY <2>2, <3>1 DEF Node, Exists
    <3> QED
      BY <3>2 DEF Changed
  <2> QED
    BY <2>1, <2>3 DEF Keeps, Exists
<1>3. CASE MayAdd(fs, q) /\ g = Add(fs, [r \in {q} |-> node])
  <2>1. DOMAIN g = DOMAIN fs \cup {q} /\ \A r \in DOMAIN fs : g[r] = fs[r]
    BY <1>3 DEF Add, Exists
  <2>2. Made(fs, q)
    BY <1>3, Places DEF Made, MayAdd
  <2>3. \A r \in DOMAIN fs : Content(g, r) = Content(fs, r)
    BY <2>1 DEF Content, Node, Exists
  <2> QED
    BY <2>1, <2>2, <2>3 DEF Keeps, Exists
<1> QED
  BY <1>1, <1>2, <1>3 DEF Rewritten

\* After fopen and write, or a change of permissions, there is a tree again.
LEMMA WriteTree ==
  ASSUME NEW fs, Tree(fs), NEW p, NEW text, NEW o \in {Write(fs, p, text), SetReadOnly(fs, p)}
  PROVE  /\ Tree(o.fs)
         /\ p \in Below(Tmp) \/ (p \notin Paths /\ o = Write(fs, p, text)) => Keeps(fs, o.fs)
<1> DEFINE q == Real(fs, p)
           added == File(text)
<1>1. PICK node :
        \/ o.fs = fs
        \/ /\ q \in DOMAIN fs /\ o.fs = Change(fs, q, node)
           /\ node = [fs[q] EXCEPT !.text = text] \/ node = [fs[q] EXCEPT !.ro = TRUE]
        \/ MayAdd(fs, q) /\ o.fs = Add(fs, [r \in {q} |-> node]) /\ node = added
  <2>1. IsFile(fs, q) \/ IsDir(fs, q) => q \in DOMAIN fs
    BY DEF IsFile, IsDir, Node, Exists, Free
  <2>2. CASE o = SetReadOnly(fs, p)
    BY <2>1, <2>2, Zenon DEF SetReadOnly, Done, Failed
  <2>3. CASE o = Write(fs, p, text)
    <3>1. \/ IsFile(fs, q) /\ o.fs = Change(fs, q, [fs[q] EXCEPT !.text = text])
          \/ MayAdd(fs, q) /\ o.fs = Add(fs, [r \in {q} |-> File(text)])
          \/ o.fs = fs
      BY <2>3 DEF Write, Done, Failed
    <3> QED
      BY <2>1, <3>1, Zenon
  <2> QED
    BY <2>2, <2>3
<1>2. p \notin Paths /\ o = Write(fs, p, text) => o.fs = fs
  BY DEF Write, Failed
<1>0. q = Real(fs, p)
  OBVIOUS
<1> HIDE DEF q, added
<1>3. q \in DOMAIN fs => fs[q] \in [kind : Kinds, text : {fs[q].text}, ro : BOOLEAN,
                                    names : SUBSET DOMAIN fs]
  BY DEF Tree, Kinds
<1>4. CASE o.fs = fs
  BY <1>4 DEF Keeps
<1>5. ASSUME p \in Below(Tmp) PROVE Keeps(fs, o.fs)
  <2>1. Rewritten(fs, q, node, o.fs)
    BY <1>1 DEF Rewritten
  <2> QED
    BY <1>0, <1>5, <2>1, FileKeeps
<1>6. CASE /\ q \in DOMAIN fs /\ o.fs = Change(fs, q, node)
           /\ node = [fs[q] EXCEPT !.text = text] \/ node = [fs[q] EXCEPT !.ro = TRUE]
  <2>1. Entry(node, {fs[q].names}) /\ node.kind = fs[q].kind
    <3>1. CASE node = [fs[q] EXCEPT !.text = text]
      BY <1>3, <1>6, <3>1 DEF Entry
    <3>2. CASE node = [fs[q] EXCEPT !.ro = TRUE]
      BY <1>3, <1>6, <3>2 DEF Entry
    <3> QED
      BY <1>6, <3>1, <3>2
  <2>2. Tree(Change(fs, q, node))
    <3>1. q \in DOMAIN fs
      BY <1>6
    <3> QED
      BY <2>1, <3>1, ChangeTree
  <2> QED
    BY <1>2, <1>4, <1>5, <1>6, <2>2
<1>7. CASE MayAdd(fs, q) /\ o.fs = Add(fs, [r \in {q} |-> node]) /\ node = added
  <2> DEFINE new == [r \in {q} |-> node]
  <2>1. Entry(node, {{}})
    BY <1>7 DEF Entry, File, Free, Kinds, added
  <2>2. q \in Paths /\ q \notin DOMAIN fs /\ IsDir(fs, Front(q))
    BY <1>7 DEF MayAdd, MayChange, Exists
  <2>3. DOMAIN new = {q} /\ \A r \in DOMAIN new : new[r] = node
    OBVIOUS
  <2> HIDE DEF new
  <2>4. Tree(Add(fs, new))
    <3>1. DOMAIN new \subseteq Paths \ DOMAIN fs
      BY <2>2, <2>3
    <3>2. \A r \in DOMAIN new :
            /\ Entry(new[r], {{}})
            /\ IsDir(fs, Front(r)) \/ (Front(r) \in DOMAIN new /\ new[Front(r)].kind = "dir")
      BY <2>1, <2>2, <2>3
    <3> QED
      BY <3>1, <3>2, AddTree
  <2> QED
    BY <1>2, <1>4, <1>5, <1>7, <2>4 DEF new
<1> QED
  BY <1>1, <1>4, <1>6, <1>7

\* remove_all takes away only what p names and what is below that, and leaves a
\* tree, whether it gets to the end or not.
LEMMA RemoveTree ==
  ASSUME NEW fs, Tree(fs), NEW p, NEW o \in RemoveAll(fs, p)
  PROVE  Tree(o.fs) /\ (p \in Below(Tmp) => Keeps(fs, o.fs))
<1> DEFINE place == Place(fs, p)
           all == Below(place) \cap DOMAIN fs
           able == {q \in all : MayChange(fs, q)}
<1>1. PICK S \in SUBSET able : o.fs = Unlink(fs, S) /\ \A q \in S : Below(q) \cap all \subseteq S
  <2>1. CASE able = all /\ o = Done(Unlink(fs, all))
    <3>1. o.fs = Unlink(fs, all)
      BY <2>1 DEF Done
    <3> QED
      BY <2>1, <3>1
  <2>2. CASE o \in {Failed(Unlink(fs, S)) : S \in {S \in SUBSET able :
                      \A q \in S : Below(q) \cap all \subseteq S}}
    <3>1. PICK S \in SUBSET able : /\ o = Failed(Unlink(fs, S))
                                   /\ \A q \in S : Below(q) \cap all \subseteq S
      BY <2>2
    <3> QED
      BY <3>1 DEF Failed
  <2> QED
    BY <2>1, <2>2 DEF RemoveAll
<1> HIDE DEF able, place
<1>2. S \subseteq Below(place) \cap DOMAIN fs /\ \A q \in S : MayChange(fs, q)
  BY <1>1 DEF able
<1>3. Root \notin S
  <2>1. ~MayChange(fs, Root)
    BY Places DEF MayChange, IsDir, Node, Exists, Free, Tree
  <2> QED
    BY <1>2, <2>1
<1>4. ASSUME NEW q \in S PROVE Below(q) \cap DOMAIN fs \subseteq S
  <2>1. place \in Paths /\ q \in Paths /\ IsPrefix(place, q)
    BY <1>2 DEF Below
  <2>2. Below(q) \subseteq Below(place)
    BY <2>1, Places DEF Below
  <2> QED
    BY <1>1, <2>2
<1>5. Tree(o.fs)
  <2>1. \A q \in S : Below(q) \cap DOMAIN fs \subseteq S
    BY <1>4
  <2>2. Tree(Unlink(fs, S))
    BY <1>3, <2>1, UnlinkTree
  <2> QED
    BY <1>1, <2>2
<1>6. ASSUME p \in Below(Tmp), NEW r \in Paths
      PROVE  /\ Exists(o.fs, r) => Exists(fs, r) /\ Content(o.fs, r) = Content(fs, r)
             /\ Exists(fs, r) /\ ~Exists(o.fs, r) => Gone(fs, r)
  <2>1. \A q \in S : Gone(fs, q)
    BY <1>2, <1>6 DEF Gone, Below, place
  <2>2. DOMAIN o.fs = DOMAIN fs \ S /\ \A q \in DOMAIN fs \ S : o.fs[q] = [fs[q] EXCEPT !.names = @ \ S]
    BY <1>1 DEF Unlink
  <2>3. r \in DOMAIN fs => fs[r] \in [kind : Kinds, text : {fs[r].text}, ro : BOOLEAN,
                                      names : SUBSET DOMAIN fs]
    BY DEF Tree, Kinds
  <2> QED
    BY <2>1, <2>2, <2>3 DEF Exists, Content, Node
<1> QED
  BY <1>5, <1>6 DEF Keeps

\* Entries of fs that a copy can make now, each at a place of its own and with the
\* directory it is to be in.
Spots(fs, at, S) ==
  /\ S \subseteq DOMAIN fs
  /\ \A q, r \in S : at[q] = at[r] => q = r
  /\ \A q \in S : /\ at[q] \in Paths \ DOMAIN fs
                  /\ \/ IsDir(fs, Front(at[q]))
                     \/ \E r \in S : IsDir(fs, r) /\ Front(at[q]) = at[r]

\* g is fs with the copies of the entries in S.
Spread(fs, g, at, S) ==
  /\ DOMAIN g = DOMAIN fs \cup {at[q] : q \in S}
  /\ Grows(fs, g)
  /\ \A q \in S : g[at[q]].kind = fs[q].kind /\ g[at[q]].text = fs[q].text

\* The copy of some entries, each with its directory: a link is one more name,
\* anything else a new entry of the same kind with the same text.
LEMMA CopiedTree ==
  ASSUME NEW fs, Tree(fs), NEW at, NEW link, NEW S, Spots(fs, at, S)
  PROVE  /\ Tree(Copied(fs, at, link, S))
         /\ Spread(fs, Copied(fs, at, link, S), at, S)
<1> DEFINE g == Copied(fs, at, link, S)
           linked(q) == link /\ IsFile(fs, q)
           names(q) == fs[q].names \cup {at[r] : r \in {r \in S \cap fs[q].names : linked(r)}}
           origin(p) == CHOOSE q \in S : at[q] = p
           own(q) == IF linked(q) THEN names(q) ELSE {at[q]}
<1>1. /\ DOMAIN fs \subseteq Paths /\ IsDir(fs, Root)
      /\ \A q \in DOMAIN fs :
           /\ fs[q] \in [kind : Kinds, text : {fs[q].text}, ro : BOOLEAN,
                         names : SUBSET DOMAIN fs]
           /\ q \in fs[q].names
           /\ \A r \in fs[q].names : fs[r] = fs[q]
           /\ fs[q].kind = "dir" => fs[q].names = {q}
           /\ q # Root => IsDir(fs, Front(q))
  BY DEF Tree, Kinds
<1>2. ASSUME NEW q \in S
      PROVE  /\ q \in DOMAIN fs /\ at[q] \in Paths /\ at[q] \notin DOMAIN fs
             /\ origin(at[q]) = q
  BY DEF Spots
<1>3. /\ DOMAIN g = DOMAIN fs \cup {at[q] : q \in S}
      /\ \A p \in DOMAIN fs : g[p] = [fs[p] EXCEPT !.names = names(p)]
      /\ \A p \in {at[q] : q \in S} \ DOMAIN fs :
           g[p] = [fs[origin(p)] EXCEPT
                     !.names = IF linked(origin(p)) THEN names(origin(p)) ELSE {p}]
  BY DEF Copied, Exists
<1> HIDE DEF origin
<1>4. \A q \in S : g[at[q]] = [fs[q] EXCEPT !.names = own(q)]
  BY <1>2, <1>3
<1>5. \A q \in S : linked(q) => fs[q].kind = "file"
  BY <1>2 DEF IsFile, Node, Exists
<1> HIDE DEF linked, g
<1>6. ASSUME NEW q \in DOMAIN fs
      PROVE  /\ q \in names(q) /\ names(q) \subseteq DOMAIN g
             /\ fs[q].kind = "dir" => names(q) = {q}
             /\ \A r \in fs[q].names : names(r) = names(q)
  <2>1. q \in names(q) /\ names(q) \subseteq DOMAIN g
    BY <1>1, <1>3
  <2>2. ASSUME fs[q].kind = "dir" PROVE names(q) = {q}
    <3>1. \A r \in S \cap fs[q].names : ~linked(r)
      BY <1>1, <1>5, <2>2
    <3> QED
      BY <1>1, <2>2, <3>1
  <2>3. \A r \in fs[q].names : fs[r].names = fs[q].names
    BY <1>1
  <2> QED
    BY <2>1, <2>2, <2>3
<1>7. ASSUME NEW q \in S
      PROVE  /\ at[q] \in own(q) /\ own(q) \subseteq DOMAIN g
             /\ fs[q].kind = "dir" => own(q) = {at[q]}
  <2>1. q \in DOMAIN fs /\ q \in fs[q].names /\ at[q] \in DOMAIN g
    BY <1>1, <1>2, <1>3
  <2>2. linked(q) => at[q] \in names(q)
    BY <2>1
  <2> QED
    BY <1>5, <1>6, <2>1, <2>2
<1>8. ASSUME NEW p \in DOMAIN fs
      PROVE  /\ g[p] \in [kind : Kinds, text : {g[p].text}, ro : BOOLEAN, names : SUBSET DOMAIN g]
             /\ g[p].kind = fs[p].kind /\ g[p].text = fs[p].text /\ g[p].ro = fs[p].ro
             /\ g[p].names = names(p)
  <2> HIDE DEF names
  <2>1. g[p] = [fs[p] EXCEPT !.names = names(p)] /\ names(p) \subseteq DOMAIN g
    BY <1>3, <1>6
  <2> QED
    BY <1>1, <2>1
<1>9. ASSUME NEW q \in S
      PROVE  /\ g[at[q]] \in [kind : Kinds, text : {g[at[q]].text}, ro : BOOLEAN,
                              names : SUBSET DOMAIN g]
             /\ g[at[q]].kind = fs[q].kind /\ g[at[q]].text = fs[q].text
             /\ g[at[q]].names = own(q)
  <2> HIDE DEF own
  <2>1. q \in DOMAIN fs /\ g[at[q]] = [fs[q] EXCEPT !.names = own(q)] /\ own(q) \subseteq DOMAIN g
    BY <1>2, <1>4, <1>7
  <2> QED
    BY <1>1, <2>1
<1>10. \A p : IsDir(fs, p) => IsDir(g, p)
  BY <1>3, <1>8 DEF IsDir, Node, Exists, Free
<1>11. ASSUME NEW p \in DOMAIN fs, NEW r \in names(p) PROVE g[r] = g[p]
  <2>1. CASE r \in fs[p].names
    <3>1. r \in DOMAIN fs /\ fs[r] = fs[p] /\ names(r) = names(p)
      BY <1>1, <1>6, <2>1
    <3> HIDE DEF names
    <3> QED
      BY <1>3, <3>1
  <2>2. CASE r \in {at[x] : x \in {x \in S \cap fs[p].names : linked(x)}}
    <3>1. PICK x \in S \cap fs[p].names : linked(x) /\ r = at[x]
      BY <2>2
    <3>2. fs[x] = fs[p] /\ names(x) = names(p) /\ own(x) = names(x)
      BY <1>1, <1>6, <3>1
    <3>3. g[r] = [fs[x] EXCEPT !.names = own(x)]
      BY <1>4, <3>1
    <3> HIDE DEF names, own
    <3> QED
      BY <1>3, <3>2, <3>3
  <2> QED
    BY <2>1, <2>2
<1>12. ASSUME NEW q \in S, NEW r \in own(q) PROVE g[r] = g[at[q]]
  <2>1. CASE linked(q)
    <3>1. r \in names(q) /\ at[q] \in names(q) /\ q \in DOMAIN fs
      BY <1>2, <1>7, <2>1
    <3> QED
      BY <1>11, <3>1
  <2>2. CASE ~linked(q)
    BY <2>2
  <2> QED
    BY <2>1, <2>2
<1>13. ASSUME NEW q \in S PROVE IsDir(g, Front(at[q]))
  <2>1. CASE IsDir(fs, Front(at[q]))
    BY <1>10, <2>1
  <2>2. CASE \E r \in S : IsDir(fs, r) /\ Front(at[q]) = at[r]
    <3>1. PICK r \in S : IsDir(fs, r) /\ Front(at[q]) = at[r]
      BY <2>2
    <3>2. fs[r].kind = "dir" /\ at[r] \in DOMAIN g
      BY <1>2, <1>3, <3>1 DEF IsDir, Node, Exists
    <3>3. g[at[r]].kind = "dir"
      BY <1>9, <3>2
    <3> QED
      BY <3>1, <3>2, <3>3 DEF IsDir, Node, Exists
  <2> QED
    BY <2>1, <2>2 DEF Spots
<1>14. ASSUME NEW p \in DOMAIN g
       PROVE  /\ g[p] \in [kind : Kinds, text : {g[p].text}, ro : BOOLEAN, names : SUBSET DOMAIN g]
              /\ p \in g[p].names
              /\ \A r \in g[p].names : g[r] = g[p]
              /\ g[p].kind = "dir" => g[p].names = {p}
              /\ p # Root => IsDir(g, Front(p))
  <2> HIDE DEF names, own
  <2>1. CASE p \in DOMAIN fs
    BY <1>1, <1>6, <1>8, <1>10, <1>11, <2>1
  <2>2. CASE p \notin DOMAIN fs
    <3>1. PICK q \in S : p = at[q]
      BY <1>3, <2>2
    <3> QED
      BY <1>7, <1>9, <1>12, <1>13, <3>1
  <2> QED
    BY <2>1, <2>2
<1>15. DOMAIN g \subseteq Paths /\ IsDir(g, Root)
  BY <1>1, <1>2, <1>3, <1>10
<1>16. Tree(g)
  BY <1>14, <1>15 DEF Tree, Kinds
<1> HIDE DEF names, own
<1> QED
  BY <1>3, <1>8, <1>9, <1>16 DEF g, Spread, Grows

\* Where the copy of q is that met something, or nothing, at met.
Spot(fs, g, q, met) == IF IsFile(fs, q) /\ IsDir(g, met) THEN Append(met, Last(q)) ELSE met

\* What is new in g is where via has a copy of something below top, or in a
\* directory that is there.
Adds(fs, via, g, top, dst) ==
  \A p \in DOMAIN g \ DOMAIN fs :
    \E q \in Below(top) :
      LET to == Image(top, dst, q) IN
      /\ to \in Paths
      /\ p = Place(via, to) \/ (Real(via, to) \in Paths /\ \E x : p = Append(Real(via, to), x))

\* Everything in fs at top and below it is in g where via has its copy.
Whole(fs, via, g, top, dst) ==
  /\ Exists(fs, top)
  /\ \A q \in Below(top) \cap DOMAIN fs :
       LET at == Spot(fs, g, q, Real(via, Image(top, dst, q))) IN
       /\ at \in DOMAIN g /\ g[at].kind = fs[q].kind
       /\ IsDir(fs, q) \/ g[at].text = fs[q].text

\* What the copy of top to dst makes of fs.
Copying(fs, via, o, top, dst) ==
  /\ Tree(o.fs) /\ Grows(fs, o.fs) /\ Adds(fs, via, o.fs, top, dst)
  /\ o.ok => Whole(fs, via, o.fs, top, dst)
  /\ ~Exists(fs, top) => DOMAIN o.fs = DOMAIN fs

\* copy leaves a tree, takes nothing away and changes nothing; and if it succeeds,
\* all that is below src is where it is to be.
LEMMA CopyGrows ==
  ASSUME NEW fs, Tree(fs), NEW via, Grows(via, fs), NEW src, NEW dst, NEW link, NEW dev,
         NEW o \in Copy(fs, via, src, dst, link, dev)
  PROVE  Copying(fs, via, o, Place(via, src), dst)
<1> DEFINE top == Place(via, src)
           to(q) == Image(top, dst, q)
           met(q) == Real(via, to(q))
           at == Targets(fs, via, top, dst, link)
           todo == DOMAIN at
           apart == \A q, r \in todo : /\ at[q] = at[r] => q = r
                                       /\ IsPrefix(top, at[q]) => Exists(fs, at[q])
           ready(q) == /\ to(q) \in Paths /\ at[q] \in Paths /\ ~Exists(fs, at[q])
                       /\ IF q # top /\ Front(q) \in todo
                            THEN Front(at[q]) = at[Front(q)] /\ ~fs[Front(q)].ro
                            ELSE MayChange(fs, at[q])
                       /\ link /\ IsFile(fs, q) => dev
           able == {q \in todo : \A r \in todo : IsPrefix(r, q) => ready(r)}
           ordered(S) == \A q \in S : \A r \in todo : IsPrefix(r, q) => r \in S
           g == o.fs
<1>1. PICK S : /\ S \subseteq able /\ ordered(S) /\ g = Copied(fs, at, link, S) /\ apart
               /\ o.ok => Exists(fs, top) /\ S = todo
  <2>1. CASE Exists(fs, top) /\ able = todo /\ o = Done(Copied(fs, at, link, todo)) /\ apart
    <3>1. ordered(todo)
      OBVIOUS
    <3>2. g = Copied(fs, at, link, todo)
      BY <2>1 DEF Done
    <3> HIDE DEF todo, able, ordered, at
    <3> QED
      BY <2>1, <3>1, <3>2
  <2>2. CASE /\ o \in {Failed(Copied(fs, at, link, S)) : S \in {S \in SUBSET able : ordered(S)}}
             /\ apart
    <3> HIDE DEF todo, able, ordered, at
    <3>1. PICK S \in SUBSET able : ordered(S) /\ o = Failed(Copied(fs, at, link, S))
      BY <2>2
    <3>2. g = Copied(fs, at, link, S) /\ o.ok = FALSE
      BY <3>1 DEF Failed
    <3> QED
      BY <2>2, <3>1, <3>2
  <2>3. o \in CASE ~apart -> {}
                [] apart /\ Exists(fs, top) /\ able = todo -> {Done(Copied(fs, at, link, todo))}
                [] OTHER -> {Failed(Copied(fs, at, link, S)) : S \in {S \in SUBSET able : ordered(S)}}
    BY Zenon DEF Copy, CopyTo
  <2> HIDE DEF top, to, met, todo, at, apart, ready, able, ordered
  <2> QED
    BY <2>1, <2>2, <2>3
<1>2. /\ \A q \in todo : /\ q \in Below(top) \cap DOMAIN fs /\ q \in Paths /\ Exists(fs, top)
                         /\ \/ /\ at[q] = Append(met(q), Last(q))
                               /\ IsFile(fs, q) /\ IsDir(fs, met(q))
                            \/ at[q] = Place(via, to(q))
      /\ \A q \in Below(top) \cap DOMAIN fs :
           Exists(fs, top) => q \in todo \/ (IsDir(fs, q) /\ IsDir(fs, met(q)))
  BY DEF Below, Targets
<1>3. ASSUME NEW q \in S
      PROVE  /\ q \in todo /\ to(q) \in Paths /\ at[q] \in Paths \ DOMAIN fs
             /\ \/ IsDir(fs, Front(at[q]))
                \/ \E r \in S : IsDir(fs, r) /\ Front(at[q]) = at[r]
  <2>1. q \in todo /\ ready(q)
    BY <1>1, <1>2, Places
  <2>2. CASE q # top /\ Front(q) \in todo
    <3>1. q # Root /\ IsPrefix(Front(q), q)
      BY <1>2, <2>1, <2>2, Places DEF Below
    <3>2. Front(q) \in S
      BY <1>1, <2>2, <3>1
    <3>3. IsDir(fs, Front(q))
      BY <1>2, <2>1, <3>1 DEF Tree
    <3> QED
      BY <2>1, <2>2, <3>2, <3>3 DEF Exists
  <2>3. CASE ~(q # top /\ Front(q) \in todo)
    BY <2>1, <2>3 DEF MayChange, Exists
  <2> QED
    BY <2>2, <2>3
<1>4. \A q, r \in S : at[q] = at[r] => q = r
  BY <1>1
<1> HIDE DEF todo, at, apart, ready, able
<1>5. Spots(fs, at, S)
  BY <1>2, <1>3, <1>4 DEF Spots
<1>6. Tree(g) /\ Spread(fs, g, at, S)
  BY <1>1, <1>5, CopiedTree
<1> HIDE DEF g, ordered
<1>7. Adds(fs, via, g, top, dst)
  <2> SUFFICES ASSUME NEW p \in DOMAIN g \ DOMAIN fs
               PROVE  \E q \in Below(top) :
                        /\ to(q) \in Paths
                        /\ \/ p = Place(via, to(q))
                           \/ met(q) \in Paths /\ \E x : p = Append(met(q), x)
    BY DEF Adds
  <2>1. PICK q \in S : p = at[q]
    BY <1>6 DEF Spread
  <2>2. IsDir(fs, met(q)) => met(q) \in Paths
    BY DEF Tree, IsDir, Node, Exists, Free
  <2> HIDE DEF top, to, met
  <2> QED
    BY <1>2, <1>3, <2>1, <2>2
<1>8. ASSUME o.ok, NEW q \in Below(top) \cap DOMAIN fs
       PROVE  LET spot == Spot(fs, g, q, met(q)) IN
              /\ spot \in DOMAIN g /\ g[spot].kind = fs[q].kind
              /\ IsDir(fs, q) \/ g[spot].text = fs[q].text
  <2>1. S = todo /\ Exists(fs, top)
    BY <1>1, <1>8
  <2>2. IsDir(fs, met(q)) => IsDir(g, met(q)) /\ met(q) \in DOMAIN g /\ g[met(q)].kind = "dir"
    BY <1>6 DEF Spread, Grows, IsDir, Node, Exists, Free
  <2>3. CASE q \notin todo
    <3>1. IsDir(fs, q) /\ IsDir(fs, met(q)) /\ fs[q].kind = "dir" /\ ~IsFile(fs, q)
      BY <1>2, <2>1, <2>3 DEF IsDir, IsFile, Node, Exists
    <3> HIDE DEF met
    <3> QED
      BY <2>2, <3>1 DEF Spot
  <2>4. CASE q \in todo
    <3>1. at[q] \in DOMAIN g /\ g[at[q]].kind = fs[q].kind /\ g[at[q]].text = fs[q].text
      BY <1>6, <2>1, <2>4 DEF Spread
    <3>2. CASE at[q] = Append(met(q), Last(q)) /\ IsFile(fs, q) /\ IsDir(fs, met(q))
      BY <2>2, <3>1, <3>2 DEF Spot
    <3>3. CASE at[q] = Place(via, to(q))
      <4>1. ~Exists(via, Place(via, to(q)))
        BY <1>3, <2>1, <2>4, <3>3 DEF Exists, Grows
      <4>2. met(q) = at[q]
        BY <3>3, <4>1, RealPlace
      <4>3. IsFile(fs, q) => ~IsDir(g, met(q))
        BY <3>1, <4>2 DEF IsFile, IsDir, Node, Exists
      <4> QED
        BY <3>1, <4>2, <4>3 DEF Spot
    <3> QED
      BY <1>2, <2>4, <3>2, <3>3
  <2> QED
    BY <2>3, <2>4
<1>9. o.ok => Whole(fs, via, g, top, dst)
  BY <1>1, <1>8 DEF Whole
<1>10. ASSUME ~Exists(fs, top) PROVE DOMAIN g = DOMAIN fs
  <2>1. S = {}
    BY <1>2, <1>3, <1>10
  <2> QED
    BY <1>6, <2>1 DEF Spread
<1> QED
  BY <1>6, <1>7, <1>9, <1>10 DEF g, Spread, Copying

-----------------------------------------------------------------------------
(* The commands.                                                             *)

\* What is put into a directory is below it.
LEMMA Inside ==
  ASSUME NEW p \in Paths, NEW x, Append(p, x) \in Paths
  PROVE  IsPrefix(p, Append(p, x))
<1>1. p \in Seq(STRING) /\ Append(p, x) \in Seq(STRING)
  BY PathsAssumption
<1>2. p \in Seq(STRING \cup {x})
  BY <1>1
<1>3. Len(Append(p, x)) = Len(p) + 1 /\ \A i \in 1 .. Len(p) : Append(p, x)[i] = p[i]
  BY <1>2, AppendProperties
<1> DEFINE r == Append(p, x)
<1>4. r \in Seq(STRING) /\ Len(r) = Len(p) + 1 /\ \A i \in 1 .. Len(p) : p[i] = r[i]
  BY <1>1, <1>3
<1> HIDE DEF r
<1>5. IsPrefix(p, r)
  BY <1>1, <1>4, PrefixNames
<1> QED
  BY <1>5 DEF r

LEMMA InsideTmp ==
  ASSUME NEW p \in Below(Tmp), NEW x, Append(p, x) \in Paths
  PROVE  Append(p, x) \in Below(Tmp)
BY Inside, Places DEF Below

\* cp leaves a tree, changes and removes nothing, makes what it makes where it was
\* told to, and reports success only when everything is there.
LEMMA CpGrows ==
  ASSUME Tree(disk), NEW src, NEW dst, NEW o \in Cp(src, dst)
  PROVE  /\ Tree(o.fs)
         /\ \A p \in DOMAIN disk : Exists(o.fs, p) /\ Content(o.fs, p) = Content(disk, p)
         /\ dst \in Below(Tmp) => Keeps(disk, o.fs)
         /\ o.ok => Whole(disk, disk, o.fs, Place(disk, src), dst)
<1>1. PICK u \in Copy(disk, disk, src, dst, TRUE, oneDevice) :
        \/ u.ok /\ o = u
        \/ ~u.ok /\ o \in Copy(u.fs, disk, src, dst, FALSE, oneDevice)
  BY Zenon DEF Cp
<1> DEFINE g == u.fs
           h == o.fs
           top == Place(disk, src)
<1>2. /\ Tree(g) /\ Grows(disk, g) /\ Adds(disk, disk, g, top, dst)
      /\ u.ok => Whole(disk, disk, g, top, dst)
      /\ ~Exists(disk, top) => DOMAIN g = DOMAIN disk
  <2>1. Grows(disk, disk)
    BY DEF Grows
  <2>2. Copying(disk, disk, u, top, dst)
    BY <1>1, <2>1, CopyGrows
  <2> QED
    BY <2>2 DEF Copying
<1>3. ~u.ok => /\ Tree(h) /\ Grows(g, h) /\ Adds(g, disk, h, top, dst)
               /\ o.ok => Whole(g, disk, h, top, dst)
  BY <1>1, <1>2, CopyGrows DEF Copying
<1>4. u.ok => g = h
  BY <1>1
<1> HIDE DEF top
<1>5. Tree(h) /\ Grows(disk, h)
  BY <1>2, <1>3, <1>4 DEF Grows
<1>6. ASSUME dst \in Below(Tmp) PROVE Keeps(disk, h)
  <2>1. ASSUME NEW p \in Paths \ DOMAIN disk, NEW q \in Below(top), Image(top, dst, q) \in Paths,
               LET to == Image(top, dst, q) IN
               p = Place(disk, to) \/ (Real(disk, to) \in Paths /\ \E x : p = Append(Real(disk, to), x))
        PROVE  Made(disk, p)
    <3> DEFINE to == Image(top, dst, q)
    <3>1. to \in Below(Tmp)
      <4>1. top \in Paths /\ dst \in Paths /\ IsPrefix(Tmp, dst) /\ Tmp \in Paths
        BY <1>6 DEF Below
      <4>2. to \in Below(dst)
        BY <2>1, <4>1, Images
      <4> QED
        BY <4>1, <4>2, Places DEF Below
    <3>2. p = Place(disk, to) \/ (Real(disk, to) \in Paths /\ \E x : p = Append(Real(disk, to), x))
      BY <2>1
    <3> HIDE DEF to
    <3>3. CASE p = Place(disk, to)
      <4>1. p = Real(disk, to)
        BY <3>3, RealPlace DEF Exists
      <4> QED
        BY <3>1, <4>1, Places DEF Made
    <3>4. CASE Real(disk, to) \in Paths /\ \E x : p = Append(Real(disk, to), x)
      <4>1. IsPrefix(Real(disk, to), p)
        BY <3>4, Inside
      <4> QED
        BY <3>1, <4>1 DEF Made
    <3> QED
      BY <3>2, <3>3, <3>4
  <2>2. ASSUME NEW p \in DOMAIN h \ DOMAIN disk PROVE Made(disk, p)
    <3>1. p \in Paths
      BY <1>5 DEF Tree
    <3>2. CASE p \in DOMAIN g
      BY <1>2, <2>1, <3>1, <3>2 DEF Adds
    <3>3. CASE p \notin DOMAIN g
      BY <1>3, <1>4, <2>1, <3>1, <3>3 DEF Adds
    <3> QED
      BY <3>2, <3>3
  <2> QED
    BY <1>5, <2>2 DEF Keeps, Exists, Content, Node, Grows
<1>7. ASSUME o.ok PROVE Whole(disk, disk, h, top, dst)
  <2>1. CASE u.ok
    BY <1>1, <1>2, <2>1
  <2>2. CASE ~u.ok
    <3>1. Whole(g, disk, h, top, dst)
      BY <1>3, <1>7, <2>2
    <3>2. Exists(disk, top)
      BY <1>2, <3>1 DEF Whole, Exists
    <3>3. ASSUME NEW q \in Below(top) \cap DOMAIN disk
          PROVE  LET at == Spot(disk, h, q, Real(disk, Image(top, dst, q))) IN
                 /\ at \in DOMAIN h /\ h[at].kind = disk[q].kind
                 /\ IsDir(disk, q) \/ h[at].text = disk[q].text
      <4>1. /\ q \in DOMAIN g /\ g[q].kind = disk[q].kind /\ g[q].text = disk[q].text
            /\ IsFile(g, q) <=> IsFile(disk, q)
            /\ IsDir(g, q) <=> IsDir(disk, q)
        BY <1>2 DEF Grows, IsFile, IsDir, Node, Exists
      <4>2. \A met : Spot(g, h, q, met) = Spot(disk, h, q, met)
        BY <4>1 DEF Spot
      <4> QED
        BY <3>1, <4>1, <4>2 DEF Whole
    <3> QED
      BY <3>2, <3>3 DEF Whole
  <2> QED
    BY <2>1, <2>2
<1> QED
  BY <1>5, <1>6, <1>7 DEF Exists, Content, Node, Grows, top

\* mkdirs, touch, generate and unpack leave a tree; in $TMP, what is elsewhere
\* is changed only through a link.
LEMMA FilesTree ==
  ASSUME Tree(disk), NEW p, NEW text, NEW file,
         NEW o \in {MakeDirs(disk, p)} \cup Create(p, text) \cup Unpack(file, p)
  PROVE  Tree(o.fs) /\ (p \in Below(Tmp) => Keeps(disk, o.fs))
<1>1. \A d : Tree(MakeDirs(disk, d).fs)
  BY MakeDirsGrows
<1>2. ASSUME NEW d \in {p, Front(p)}, NEW h,
             p \in Below(Tmp) => h = MakeDirs(disk, d).fs \/ Keeps(MakeDirs(disk, d).fs, h)
      PROVE  p \in Below(Tmp) => Keeps(disk, h)
  <2> SUFFICES ASSUME p \in Below(Tmp) PROVE Keeps(disk, h)
    OBVIOUS
  <2>1. Keeps(MakeDirs(disk, d).fs, h)
    BY <1>2 DEF Keeps
  <2> QED
    BY <2>1, KeepsThroughDirs
<1>3. CASE o = MakeDirs(disk, p)
  BY <1>1, <1>2, <1>3
<1>4. CASE o \in Create(p, text)
  <2> DEFINE made == MakeDirs(disk, Front(p))
  <2>1. o = made \/ o = Write(made.fs, p, text)
    BY <1>4 DEF Create
  <2>2. CASE o = made
    BY <1>1, <1>2, <2>2
  <2>3. CASE o = Write(made.fs, p, text)
    <3>1. Tree(made.fs)
      BY <1>1
    <3>2. Tree(o.fs) /\ (p \in Below(Tmp) => Keeps(made.fs, o.fs))
      <4> HIDE DEF made
      <4> QED
        BY <2>3, <3>1, WriteTree
    <3> QED
      BY <1>2, <3>2
  <2> QED
    BY <2>1, <2>2, <2>3
<1>5. CASE o \in Unpack(file, p)
  <2> DEFINE into == MakeDirs(disk, p)
             entry == Append(p, "f")
  <2>1. \/ o.fs = disk
        \/ o.fs = into.fs
        \/ o = Write(into.fs, entry, <<"packed">>)
    <3>1. \/ o = Failed(disk) \/ o = into \/ o = Failed(into.fs)
          \/ o = Write(into.fs, entry, <<"packed">>)
      BY <1>5, Zenon DEF Unpack
    <3> QED
      BY <3>1 DEF Failed
  <2>2. CASE o.fs = disk
    BY <2>2 DEF Keeps
  <2>3. CASE o.fs = into.fs
    BY <1>1, <1>2, <2>3
  <2>4. CASE o = Write(into.fs, entry, <<"packed">>)
    <3>1. Tree(into.fs)
      BY <1>1
    <3>2. p \in Below(Tmp) => entry \in Below(Tmp) \/ entry \notin Paths
      BY InsideTmp
    <3>3. Tree(o.fs) /\ (p \in Below(Tmp) => Keeps(into.fs, o.fs))
      <4> HIDE DEF into, entry
      <4> QED
        BY <2>4, <3>1, <3>2, WriteTree
    <3> QED
      BY <1>2, <3>3
  <2> QED
    BY <2>1, <2>2, <2>3, <2>4
<1> QED
  BY <1>3, <1>4, <1>5

\* mock leaves a tree and changes nothing outside $TMP, when it is told a place in it,
\* but what that place is.
LEMMA MockTree ==
  ASSUME Tree(disk), NEW exe, NEW link, NEW o \in MakeMock(exe, link)
  PROVE  Tree(o.fs) /\ (In(MocksDir, link) \in Below(Tmp) => Keeps(disk, o.fs))
<1> DEFINE dst == In(MocksDir, link)
           src == In(Append(Build, "mocks"), exe)
           made == MakeDirs(disk, Front(dst)).fs
           at == Place(made, dst)
           gone == IF Below(at) \cap DOMAIN made = {at} /\ MayChange(made, at)
                     THEN Unlink(made, {at}) ELSE made
           new == [q \in {at} |-> Symlink(src)]
<1>1. o.fs = gone \/ (MayAdd(gone, at) /\ o.fs = Add(gone, new))
  <2>1. o = Failed(gone) \/ (MayAdd(gone, at) /\ o = Done(Add(gone, new)))
    BY Zenon DEF MakeMock
  <2> QED
    BY <2>1 DEF Failed, Done
<1>2. Tree(made)
  BY MakeDirsGrows
<1>3. dst \in Below(Tmp) /\ Keeps(made, o.fs) => Keeps(disk, o.fs)
  BY KeepsThroughDirs
<1>4. at = Place(made, dst)
  OBVIOUS
<1> HIDE DEF dst, made, at
<1>5. /\ Tree(gone)
      /\ \A q \in DOMAIN made \ {at} : /\ q \in DOMAIN gone /\ gone[q].kind = made[q].kind
                                      /\ gone[q].text = made[q].text /\ gone[q].ro = made[q].ro
      /\ DOMAIN gone \subseteq DOMAIN made
      /\ at \in DOMAIN made \ DOMAIN gone => at \in Paths
  <2>1. CASE Below(at) \cap DOMAIN made = {at} /\ MayChange(made, at)
    <3>1. Root \notin {at}
      BY <2>1, <1>2, Places DEF MayChange, IsDir, Node, Exists, Free, Tree
    <3>2. \A q \in {at} : Below(q) \cap DOMAIN made \subseteq {at}
      BY <2>1
    <3>3. Tree(Unlink(made, {at}))
      BY <1>2, <3>1, <3>2, UnlinkTree
    <3>4. /\ DOMAIN Unlink(made, {at}) = DOMAIN made \ {at}
          /\ \A q \in DOMAIN made \ {at} : Unlink(made, {at})[q] = [made[q] EXCEPT !.names = @ \ {at}]
      BY DEF Unlink
    <3>5. \A q \in DOMAIN made : made[q] \in [kind : Kinds, text : {made[q].text}, ro : BOOLEAN,
                                              names : SUBSET DOMAIN made]
      BY <1>2 DEF Tree, Kinds
    <3>6. gone = Unlink(made, {at}) /\ at \in Paths
      BY <2>1 DEF Below
    <3> HIDE DEF gone
    <3> QED
      BY <3>3, <3>4, <3>5, <3>6
  <2>2. CASE gone = made
    BY <1>2, <2>2
  <2> QED
    BY <2>1, <2>2
<1> HIDE DEF gone, new, src
<1>6. ASSUME MayAdd(gone, at), o.fs = Add(gone, new) PROVE Tree(o.fs) /\ at \in Paths
  <2>1. DOMAIN new = {at} /\ \A r \in DOMAIN new : new[r] = Symlink(src)
    BY DEF new
  <2>2. Entry(Symlink(src), {{}})
    BY DEF Entry, Symlink, Free, Kinds
  <2>3. at \in Paths /\ at \notin DOMAIN gone /\ IsDir(gone, Front(at))
    BY <1>6 DEF MayAdd, MayChange, Exists
  <2>4. DOMAIN new \subseteq Paths \ DOMAIN gone
    BY <2>1, <2>3
  <2>5. \A r \in DOMAIN new :
          /\ Entry(new[r], {{}})
          /\ IsDir(gone, Front(r)) \/ (Front(r) \in DOMAIN new /\ new[Front(r)].kind = "dir")
    BY <2>1, <2>2, <2>3
  <2>6. Tree(Add(gone, new))
    BY <1>5, <2>4, <2>5, AddTree
  <2> QED
    BY <1>6, <2>3, <2>6
<1>7. /\ Tree(o.fs)
      /\ \A q \in DOMAIN made \ {at} : /\ q \in DOMAIN o.fs /\ o.fs[q].kind = made[q].kind
                                      /\ o.fs[q].text = made[q].text /\ o.fs[q].ro = made[q].ro
      /\ DOMAIN o.fs \subseteq DOMAIN made \cup {at}
  <2>1. CASE o.fs = gone
    BY <1>5, <2>1
  <2>2. CASE MayAdd(gone, at) /\ o.fs = Add(gone, new)
    <3>1. DOMAIN o.fs = DOMAIN gone \cup {at} /\ \A q \in DOMAIN gone : o.fs[q] = gone[q]
      BY <2>2 DEF Add, Exists, new
    <3> QED
      BY <1>5, <1>6, <2>2, <3>1
  <2> QED
    BY <1>1, <2>1, <2>2
<1>8. ASSUME dst \in Below(Tmp) PROVE Keeps(made, o.fs)
  <2>1. ASSUME at \in Paths
        PROVE  /\ Exists(made, at) => Gone(made, at) /\ Changed(made, at)
               /\ ~Exists(made, at) => Made(made, at)
    <3>1. IsPrefix(at, at) /\ (~Exists(made, at) => Real(made, dst) = at)
      BY <1>4, <2>1, Places, RealPlace
    <3>2. Exists(made, at) => at \in Node(made, at).names
      BY <1>2 DEF Tree, Node, Exists
    <3> QED
      BY <1>4, <1>8, <3>1, <3>2 DEF Gone, Made, Changed
  <2>2. \A q \in DOMAIN made \ {at} : q \in DOMAIN o.fs /\ Content(o.fs, q) = Content(made, q)
    BY <1>7 DEF Content, Node, Exists
  <2> QED
    BY <1>7, <2>1, <2>2 DEF Keeps, Exists
<1> QED
  BY <1>3, <1>7, <1>8 DEF dst

-----------------------------------------------------------------------------
(* The lines.                                                                *)

\* A command nothing replaces takes as many arguments as it says.
LEMMA ArgsOfCommands ==
  ASSUME NEW name \in DOMAIN Builtin, ~RunsProgram(name)
  PROVE  name \in DOMAIN MinArgs /\ MinArgs[name] = Builtin[name]
BY DEF RunsProgram, MinArgs

\* A line that works on files leaves a tree; in $TMP, what is elsewhere is changed
\* only through a link.
LEMMA FileLines ==
  ASSUME Tree(disk), NEW line \in Lines,
         NEW args, args = [i \in DOMAIN line.args |-> Expand(line.args[i], stored)],
         Len(args) >= MinArgs[line.name], ~RunsProgram(line.name), FileLine(line, args)
  PROVE  Tree(disk') /\ (Within(line) => Keeps(disk, disk'))
<1> DEFINE p1 == Path(args[1])
           p2 == Path(args[2])
           n == line.name
<1>1. n \in DOMAIN Builtin => Len(args) >= Builtin[n]
  BY ArgsOfCommands
<1>2. line.args \in Seq(Seq(STRING)) /\ Len(args) = Len(line.args) /\ DOMAIN args = 1 .. Len(line.args)
  BY LinesAssumption
<1>3. \A i \in 1 .. Len(line.args) : args[i] = Expand(line.args[i], stored)
  BY <1>2
<1>4. /\ n \in {"cp", "unpack", "generate"} => Len(args) >= 2
      /\ n \in {"cp", "ro", "mkdirs", "rm", "touch", "unpack", "generate"} => Len(args) >= 1
  BY <1>1, <1>2 DEF Builtin
<1>5. /\ n \in {"cp", "unpack", "generate"} => Destination(line) = p2
      /\ n \in {"mkdirs", "rm", "touch", "ro"} => Destination(line) = p1
  BY <1>2, <1>3, <1>4 DEF Destination
<1> HIDE DEF p1, p2, n
<1>6. PICK o : /\ disk' = o.fs
               /\ \/ n = "cp" /\ o \in Cp(p1, p2)
                  \/ n = "ro" /\ o = SetReadOnly(disk, p1)
                  \/ n = "mkdirs" /\ o = MakeDirs(disk, p1)
                  \/ n = "rm" /\ o \in Rmtree(p1)
                  \/ n = "touch" /\ \E text : o \in Create(p1, text)
                  \/ n = "unpack" /\ o \in Unpack(p1, p2)
                  \/ n = "generate" /\ ((\E text : o \in Create(p2, text)) \/ o.fs = disk)
  <2>1. FileLine(line, args)
    OBVIOUS
  <2> QED
    BY <2>1 DEF FileLine, p1, p2, n, Failed
<1>7. ASSUME Within(line), n # "mock" PROVE Destination(line) \in Below(Tmp)
  <2>1. n \in DOMAIN Builtin
    BY <1>6, <1>7 DEF Builtin
  <2>2. n \in DOMAIN MinArgs /\ MinArgs[n] \in Nat /\ Len(line.args) >= MinArgs[n]
    BY <1>2, <2>1, ArgsOfCommands DEF n, Builtin
  <2>3. Len(line.args) \in Nat
    BY <1>2
  <2> QED
    BY <1>7, <2>2, <2>3 DEF Within, n
<1>8. CASE n = "cp" /\ o \in Cp(p1, p2)
  BY <1>5, <1>6, <1>7, <1>8, CpGrows
<1>9. CASE n = "ro" /\ o = SetReadOnly(disk, p1)
  BY <1>5, <1>6, <1>7, <1>9, WriteTree
<1>10. CASE n = "mkdirs" /\ o = MakeDirs(disk, p1)
  BY <1>5, <1>6, <1>7, <1>10, FilesTree
<1>11. CASE n = "rm" /\ o \in Rmtree(p1)
  BY <1>5, <1>6, <1>7, <1>11, RemoveTree DEF Rmtree
<1>12. CASE n = "touch" /\ \E text : o \in Create(p1, text)
  BY <1>5, <1>6, <1>7, <1>12, FilesTree
<1>13. CASE n = "unpack" /\ o \in Unpack(p1, p2)
  BY <1>5, <1>6, <1>7, <1>13, FilesTree
<1>14. CASE n = "generate" /\ ((\E text : o \in Create(p2, text)) \/ o.fs = disk)
  <2>1. CASE o.fs = disk
    BY <1>6, <2>1 DEF Keeps
  <2>2. CASE \E text : o \in Create(p2, text)
    BY <1>5, <1>6, <1>7, <1>14, <2>2, FilesTree
  <2> QED
    BY <1>14, <2>1, <2>2
<1> QED
  BY <1>6, <1>8, <1>9, <1>10, <1>11, <1>12, <1>13, <1>14

\* Any line leaves a tree, and tells what it was; in $TMP, what is elsewhere is
\* changed only through a link.
LEMMA LineSteps ==
  ASSUME Tree(disk), NEW line \in Lines, RunLine(line)
  PROVE  /\ Tree(disk')
         /\ did' # None /\ did'.line = line
         /\ Within(line) => Keeps(disk, disk')
<1> DEFINE args == [i \in DOMAIN line.args |-> Expand(line.args[i], stored)]
<1> HIDE DEF args
<1>1. \/ BadLine(line) \/ ProgramLine(line)
      \/ /\ line.name \in DOMAIN MinArgs /\ Len(args) >= MinArgs[line.name]
         /\ ~RunsProgram(line.name)
         /\ FileLine(line, args) \/ CdLine(line, args) \/ StoreLine(line, args)
            \/ MockLine(line, args)
  BY Zenon DEF RunLine, args
<1>2. ASSUME NEW ok, Verdict(line, ok) PROVE did' # None /\ did'.line = line
  BY <1>2 DEF Verdict, None
<1>3. did' # None /\ did'.line = line
  <2>1. BadLine(line) \/ ProgramLine(line) => (\E ok : Verdict(line, ok)) \/ did' = [line |-> line, ok |-> FALSE, from |-> cwd]
    BY Zenon DEF BadLine, ProgramLine
  <2>2. FileLine(line, args) \/ CdLine(line, args) \/ StoreLine(line, args) \/ MockLine(line, args)
          => \E ok : Verdict(line, ok)
    BY Zenon DEF FileLine, CdLine, StoreLine, MockLine
  <2> QED
    BY <1>1, <1>2, <2>1, <2>2 DEF None
<1>4. CASE disk' = disk
  BY <1>3, <1>4 DEF Keeps
<1>5. CASE /\ ~RunsProgram(line.name) /\ line.name \in DOMAIN MinArgs
           /\ Len(args) >= MinArgs[line.name] /\ FileLine(line, args)
  BY <1>3, <1>5, FileLines DEF args
<1>6. CASE /\ ~RunsProgram(line.name) /\ line.name \in DOMAIN MinArgs
           /\ Len(args) >= MinArgs[line.name] /\ MockLine(line, args)
  <2>1. line.name = "mock" /\ \E o \in MakeMock(args[1], args[2]) : disk' = o.fs
    BY <1>6 DEF MockLine
  <2>2. Tree(disk') /\ (In(MocksDir, args[2]) \in Below(Tmp) => Keeps(disk, disk'))
    BY <2>1, MockTree
  <2>3. Len(args) = Len(line.args) /\ line.args \in Seq(Seq(STRING)) /\ Len(args) >= 2
        /\ MinArgs[line.name] = 2
    BY <1>6, <2>1, LinesAssumption, ArgsOfCommands DEF args, Builtin
  <2>4. args[2] = Expand(line.args[2], stored)
    BY <2>3 DEF args
  <2>5. Within(line) => In(MocksDir, args[2]) \in Below(Tmp)
    <3>1. Len(line.args) \in Nat /\ ~(Len(line.args) < MinArgs[line.name])
      BY <2>3
    <3>2. Destination(line) = In(MocksDir, Expand(line.args[2], stored))
      BY <2>1 DEF Destination
    <3> QED
      BY <1>6, <2>4, <3>1, <3>2 DEF Within
  <2> QED
    BY <1>3, <2>2, <2>5
<1> QED
  BY <1>1, <1>4, <1>5, <1>6 DEF BadLine, ProgramLine, CdLine, StoreLine

\* The temporary directory is made, and what was left in it goes; both leave a tree
\* and nothing of it is outside $TMP but what that leads to.
LEMMA TempSteps ==
  ASSUME Tree(disk), MakeTemp
  PROVE  Tree(disk') /\ Keeps(disk, disk')
<1> DEFINE made == MakeDirs(disk, Tmp)
<1>1. PICK o \in (IF made.ok THEN RemoveAll(made.fs, MocksDir) ELSE {made}) : disk' = o.fs
  BY DEF MakeTemp
<1>2. Tmp \in Below(Tmp)
  BY PlacesAssumption, Places DEF Below
<1>3. Tree(made.fs)
  BY MakeDirsGrows
<1>4. MocksDir \in Below(Tmp)
  BY <1>2, InsideTmp, PlacesAssumption DEF MocksDir
<1>5. Tree(disk') /\ Keeps(made.fs, disk')
  <2>1. CASE o = made
    BY <1>1, <1>3, <2>1 DEF Keeps
  <2>2. CASE o \in RemoveAll(made.fs, MocksDir)
    <3> HIDE DEF made
    <3> QED
      BY <1>1, <1>3, <1>4, <2>2, RemoveTree
  <2> QED
    BY <1>1, <2>1, <2>2
<1> QED
  BY <1>2, <1>5, KeepsThroughDirs

-----------------------------------------------------------------------------
(* The test.                                                                 *)

\* The stage is one of test::run's, and whatever the lines are, and wherever one
\* of them stops, every entry of the file system is in a directory and every
\* name of a file is a name of one file.
THEOREM TypeCorrect == Spec => []TypeOK
<1>1. Init => TypeOK
  <2> SUFFICES ASSUME Init PROVE TypeOK
    OBVIOUS
  <2>1. DOMAIN disk = DOMAIN StartTree /\ \A p \in DOMAIN disk : disk[p] = [StartTree[p] EXCEPT !.names = {p}]
    BY DEF Init, InitialDisk
  <2>2. /\ DOMAIN StartTree \subseteq Paths /\ Root \in DOMAIN StartTree
        /\ \A p \in DOMAIN StartTree :
             /\ StartTree[p].kind \in {"dir", "file", "link"} /\ StartTree[p].ro \in BOOLEAN
             /\ StartTree[p] = [kind |-> StartTree[p].kind, text |-> StartTree[p].text,
                                ro |-> StartTree[p].ro, names |-> {}]
        /\ \A p \in DOMAIN StartTree : IsDir(StartTree, IF p = Root THEN p ELSE Front(p))
    BY StartTreeAssumption
  <2>3. \A p \in DOMAIN disk :
          /\ disk[p] \in [kind : {"dir", "file", "link"}, text : {disk[p].text}, ro : BOOLEAN,
                          names : {{p}}]
          /\ disk[p].kind = StartTree[p].kind /\ disk[p].names = {p}
    BY <2>1, <2>2
  <2>4. \A p : IsDir(StartTree, p) => IsDir(disk, p)
    BY <2>1, <2>3 DEF IsDir, Node, Exists, Free
  <2>5. Tree(disk)
    BY <2>1, <2>2, <2>3, <2>4 DEF Tree
  <2> QED
    BY <2>5, PlacesAssumption, MaxLinesAssumption DEF Init, TypeOK
<1>2. TypeOK /\ [Next]_vars => TypeOK'
  <2> SUFFICES ASSUME TypeOK, [Next]_vars PROVE TypeOK'
    OBVIOUS
  <2>1. CASE UNCHANGED vars
    BY <2>1 DEF TypeOK, vars
  <2>2. CASE Begin \/ ListEnds \/ Call \/ PostsEnd \/ Judge
    BY <2>2 DEF TypeOK, Begin, ListEnds, Call, PostsEnd, Judge, EndWith
  <2>3. CASE MakeTemp
    <3>1. Tree(disk')
      BY <2>3, TempSteps DEF TypeOK
    <3> QED
      BY <2>3, <3>1 DEF TypeOK, MakeTemp, EndWith
  <2>4. CASE \E line \in Lines : RunLine(line)
    <3>1. PICK line \in Lines : RunLine(line)
      BY <2>4
    <3>2. Tree(disk')
      BY <3>1, LineSteps DEF TypeOK
    <3>3. /\ stage' \in {stage, "ended"} /\ count < MaxLines /\ count' = count + 1
          /\ cwd' \in {cwd} \cup Paths /\ process' \in {process, cwd'}
      BY <3>1 DEF RunLine, BadLine, ProgramLine, FileLine, CdLine, StoreLine, MockLine,
                  Verdict, EndWith
    <3> QED
      BY <3>2, <3>3, MaxLinesAssumption DEF TypeOK
  <2> QED
    BY <2>1, <2>2, <2>3, <2>4 DEF Next
<1> QED
  BY <1>1, <1>2, PTL DEF Spec

\* Whatever the lines of a test do in $TMP, and wherever they stop or fail: what is
\* removed, made or rewritten elsewhere is what a path in $TMP names or leads to.
THEOREM OutsideStays == Spec => OutsideKept
<1>1. ASSUME TypeOK, [Next]_vars, did' = None \/ Within(did'.line) PROVE Keeps(disk, disk')
  <2>1. CASE disk' = disk
    BY <2>1 DEF Keeps
  <2>2. CASE MakeTemp
    BY <1>1, <2>2, TempSteps DEF TypeOK
  <2>3. CASE \E line \in Lines : RunLine(line)
    BY <1>1, <2>3, LineSteps DEF TypeOK
  <2>4. Begin \/ ListEnds \/ Call \/ PostsEnd \/ Judge \/ UNCHANGED vars => disk' = disk
    BY DEF Begin, ListEnds, Call, PostsEnd, Judge, vars
  <2> QED
    BY <1>1, <2>1, <2>2, <2>3, <2>4 DEF Next
<1>2. TypeOK /\ [Next]_vars
        => [did' = None \/ Within(did'.line) =>
              \A p \in Paths \ Below(Tmp) :
                /\ Exists(disk, p) /\ ~Exists(disk', p) =>
                     \E s \in Below(Tmp) : IsPrefix(Place(disk, s), p)
                /\ ~Exists(disk, p) /\ Exists(disk', p) =>
                     \E s \in Below(Tmp) : IsPrefix(p, Real(disk, s)) \/ IsPrefix(Real(disk, s), p)
                /\ Exists(disk, p) /\ Exists(disk', p) /\ Content(disk', p) # Content(disk, p) =>
                     \E s \in Below(Tmp) :
                       Node(disk, p).names \cap {Place(disk, s), Real(disk, s)} # {}]_vars
  BY <1>1 DEF Keeps, Gone, Made, Changed
<1> QED
  BY <1>2, TypeCorrect, PTL DEF Spec, OutsideKept

\* A cp that reports success, after one pass or after two that each did part of the
\* work, has put all of its source where it is to be; and none of its outcomes
\* overwrites anything.
THEOREM WholeCopies == Spec => CopiesAreWhole
<1> DEFINE path(n) == Path(Expand(did'.line.args[n], stored))
<1>1. ASSUME TypeOK, [Next]_vars, count' # count, did'.line.name = "cp", ~RunsProgram("cp")
      PROVE  /\ did'.ok => Whole(disk, disk, disk', Place(disk, path(1)), path(2))
             /\ \A p \in DOMAIN disk : Content(disk', p) = Content(disk, p)
  <2>1. PICK line \in Lines : RunLine(line)
    BY <1>1 DEF Next, Begin, MakeTemp, ListEnds, Call, PostsEnd, Judge, vars
  <2>2. did'.line = line /\ line.name = "cp"
    BY <1>1, <2>1, LineSteps DEF TypeOK
  <2> DEFINE args == [i \in DOMAIN line.args |-> Expand(line.args[i], stored)]
  <2> HIDE DEF args
  <2>3. \/ BadLine(line)
        \/ Len(args) >= MinArgs["cp"] /\ FileLine(line, args)
    BY <1>1, <2>1, <2>2 DEF RunLine, ProgramLine, CdLine, StoreLine, MockLine, args
  <2>4. CASE BadLine(line)
    <3>1. disk' = disk /\ did'.ok = FALSE
      BY <2>4 DEF BadLine
    <3> QED
      BY <3>1
  <2>5. CASE Len(args) >= MinArgs["cp"] /\ FileLine(line, args)
    <3>1. Len(args) = Len(line.args) /\ line.args \in Seq(Seq(STRING)) /\ MinArgs["cp"] = 2
      BY <1>1, LinesAssumption, ArgsOfCommands DEF args, Builtin
    <3>2. args[1] = Expand(line.args[1], stored) /\ args[2] = Expand(line.args[2], stored)
      BY <2>5, <3>1 DEF args
    <3>3. PICK o \in Cp(Path(args[1]), Path(args[2])) : disk' = o.fs /\ Verdict(line, o.ok)
      BY <2>2, <2>5 DEF FileLine
    <3>4. path(1) = Path(args[1]) /\ path(2) = Path(args[2]) /\ did'.ok = o.ok
      BY <2>2, <3>2, <3>3 DEF Verdict
    <3> HIDE DEF path
    <3> QED
      BY <1>1, <3>3, <3>4, CpGrows DEF TypeOK
  <2> QED
    BY <2>3, <2>4, <2>5
<1> HIDE DEF path
<1>2. ASSUME NEW top, NEW dst, Whole(disk, disk, disk', top, dst), NEW q \in Below(top) \cap DOMAIN disk
      PROVE  LET met == Real(disk, Image(top, dst, q))
                 at == IF IsFile(disk, q) /\ IsDir(disk', met) THEN Append(met, Last(q)) ELSE met
             IN  /\ Node(disk', at).kind = disk[q].kind
                 /\ IsDir(disk, q) \/ Node(disk', at).text = disk[q].text
  BY <1>2 DEF Whole, Spot, Node, Exists
<1>3. TypeOK /\ [Next]_vars
      => [count' # count /\ did'.line.name = "cp" /\ ~RunsProgram("cp") =>
           LET spot(q, met) == IF IsFile(disk, q) /\ IsDir(disk', met) THEN Append(met, Last(q)) ELSE met
           IN  /\ did'.ok =>
                    \A top \in {Place(disk, path(1))}, dst \in {path(2)} :
                      /\ Exists(disk, top)
                      /\ \A q \in Below(top) \cap DOMAIN disk :
                           LET at == spot(q, Real(disk, Image(top, dst, q))) IN
                           /\ Node(disk', at).kind = disk[q].kind
                           /\ IsDir(disk, q) \/ Node(disk', at).text = disk[q].text
               /\ \A p \in DOMAIN disk : Content(disk', p) = Content(disk, p)]_vars
  BY <1>1, <1>2 DEF Whole
<1> QED
  BY <1>3, TypeCorrect, PTL DEF Spec, CopiesAreWhole, path

\* What PATH is for each thing "env" may say of it, with mocks and without.
LEMMA CallPaths ==
  ASSUME NEW env \in {"absent", "null", "string", "array"}
  PROVE  LET path == CallPath(Inherited, env)
             rest == AfterMocks(path)
             own == Expand(<<"$V">>, stored)
         IN  /\ mocked => path # <<>> /\ Head(path) = MocksDir
             /\ env = "absent" => rest = <<Inherited[1]>>
             /\ env = "null" => rest = <<>>
             /\ env = "string" => rest = <<own>>
             /\ env = "array" => rest = <<Inherited[1], own>>
             /\ Inherited[1] # MocksDir
             /\ CallPath(<<>>, env) = (IF mocked THEN <<MocksDir>> ELSE <<>>) \o
                  IF env \in {"absent", "array"} THEN Tail(rest) ELSE rest
<1>1. ASSUME NEW a, NEW b
      PROVE  /\ <<a>> \o <<b>> = <<a, b>> /\ <<>> \o <<b>> = <<b>> /\ <<a>> \o <<>> = <<a>>
             /\ <<>> \o <<>> = <<>>
  <2> DEFINE S == {a, b}
             r == <<a>> \o <<b>>
  <2>1. <<a>> \in Seq(S) /\ <<b>> \in Seq(S) /\ <<>> \in Seq(S)
    OBVIOUS
  <2>2. r \in Seq(S) /\ Len(r) = 2 /\ r[1] = a /\ r[2] = b
    BY <2>1, ConcatProperties
  <2> HIDE DEF r
  <2>3. r = <<a, b>>
    BY <2>2
  <2>4. <<a>> \o <<>> = <<a>> /\ <<>> \o <<>> = <<>> /\ <<>> \o <<b>> = <<b>>
    BY <2>1, ConcatEmptySeq
  <2> QED
    BY <2>3, <2>4 DEF r
<1>2. ASSUME NEW a, NEW b, NEW c
      PROVE  /\ Tail(<<a>>) = <<>> /\ Tail(<<a, b>>) = <<b>> /\ Tail(<<a, b, c>>) = <<b, c>>
             /\ Head(<<a>>) = a /\ Head(<<a, b>>) = a /\ Head(<<a, b, c>>) = a
             /\ <<a>> # <<>> /\ <<a, b>> # <<>> /\ <<a, b, c>> # <<>>
  OBVIOUS
<1>3. Inherited[1] # MocksDir
  <2>1. Tmp \in Seq(STRING) /\ Len(Tmp) = 2
    BY PathsAssumption, PlacesAssumption DEF Tmp
  <2>2. ASSUME NEW x PROVE Len(Append(Tmp, x)) = 3
    <3>1. Tmp \in Seq(STRING \cup {x})
      BY <2>1
    <3>2. Len(Append(Tmp, x)) = Len(Tmp) + 1
      BY <3>1, AppendProperties
    <3>3. 2 + 1 = 3
      OBVIOUS
    <3> QED
      BY <2>1, <3>2, <3>3
  <2> DEFINE bin == <<"/", "bin">>
  <2>3. Len(bin) = 2 /\ Inherited[1] = bin
    BY DEF Inherited
  <2> HIDE DEF bin
  <2>4. Len(MocksDir) = 3
    BY <2>2 DEF MocksDir
  <2> QED
    BY <2>3, <2>4
<1>4. Inherited = <<Inherited[1]>>
  BY DEF Inherited
<1> DEFINE I == Inherited[1]
           own == Expand(<<"$V">>, stored)
           M == MocksDir
           start == IF mocked THEN <<M>> ELSE <<>>
           rest == IF env = "absent" THEN <<I>> ELSE IF env = "null" THEN <<>>
                   ELSE IF env = "string" THEN <<own>> ELSE <<I, own>>
           left == IF env = "absent" THEN <<>> ELSE IF env = "null" THEN <<>> ELSE <<own>>
<1>5. /\ CallPath(Inherited, env) = IF mocked THEN <<M>> \o rest ELSE rest
      /\ CallPath(<<>>, env) = IF mocked THEN <<M>> \o left ELSE left
  <2> HIDE DEF I, own, M
  <2>1. Inherited \o <<own>> = <<I, own>> /\ <<>> \o <<own>> = <<own>>
    BY <1>1, <1>4 DEF I
  <2> QED
    BY <1>4, <2>1 DEF CallPath, I, own, M
<1> HIDE DEF I, own, M
<1>6. /\ Tail(<<M>> \o rest) = rest /\ Head(<<M>> \o rest) = M /\ <<M>> \o rest # <<>>
      /\ <<>> \o left = left
      /\ left = IF env \in {"absent", "array"} THEN Tail(rest) ELSE rest
  <2>1. CASE env = "absent"
    <3>1. rest = <<I>> /\ left = <<>>
      BY <2>1
    <3>2. <<M>> \o <<I>> = <<M, I>> /\ <<>> \o <<>> = <<>>
      BY <1>1
    <3>3. Tail(<<M, I>>) = <<I>> /\ Head(<<M, I>>) = M /\ <<M, I>> # <<>> /\ Tail(<<I>>) = <<>>
      BY <1>2
    <3> QED
      BY <2>1, <3>1, <3>2, <3>3
  <2>2. CASE env = "null"
    <3>1. rest = <<>> /\ left = <<>>
      BY <2>2
    <3>2. <<M>> \o <<>> = <<M>> /\ <<>> \o <<>> = <<>>
      BY <1>1
    <3>3. Tail(<<M>>) = <<>> /\ Head(<<M>>) = M /\ <<M>> # <<>>
      BY <1>2
    <3> QED
      BY <2>2, <3>1, <3>2, <3>3
  <2>3. CASE env = "string"
    <3>1. rest = <<own>> /\ left = <<own>>
      BY <2>3
    <3>2. <<M>> \o <<own>> = <<M, own>> /\ <<>> \o <<own>> = <<own>>
      BY <1>1
    <3>3. Tail(<<M, own>>) = <<own>> /\ Head(<<M, own>>) = M /\ <<M, own>> # <<>>
      BY <1>2
    <3> QED
      BY <2>3, <3>1, <3>2, <3>3
  <2>4. CASE env = "array"
    <3>1. rest = <<I, own>> /\ left = <<own>>
      BY <2>4
    <3>2. <<M>> \o <<I, own>> = <<M, I, own>>
      <4> DEFINE S == {M, I, own}
                 s == <<M>> \o <<I, own>>
      <4>1. <<M>> \in Seq(S) /\ <<I, own>> \in Seq(S)
        OBVIOUS
      <4>2. s \in Seq(S) /\ Len(s) = 3 /\ s[1] = M /\ s[2] = I /\ s[3] = own
        BY <4>1, ConcatProperties
      <4> HIDE DEF s
      <4>3. s = <<M, I, own>>
        BY <4>2
      <4> QED
        BY <4>3 DEF s
    <3>4. <<>> \o <<own>> = <<own>>
      BY <1>1
    <3>3. Tail(<<M, I, own>>) = <<I, own>> /\ Head(<<M, I, own>>) = M /\ <<M, I, own>> # <<>>
          /\ Tail(<<I, own>>) = <<own>>
      BY <1>2
    <3> QED
      BY <2>4, <3>1, <3>2, <3>3, <3>4
  <2> QED
    BY <2>1, <2>2, <2>3, <2>4
<1> HIDE DEF rest, left
<1>7. AfterMocks(CallPath(Inherited, env)) = rest
  BY <1>5, <1>6 DEF AfterMocks
<1>8. CallPath(<<>>, env) = start \o IF env \in {"absent", "array"} THEN Tail(rest) ELSE rest
  BY <1>5, <1>6
<1>9. mocked => CallPath(Inherited, env) # <<>> /\ Head(CallPath(Inherited, env)) = M
  BY <1>5, <1>6
<1>10. /\ (env = "absent" => rest = <<I>>) /\ (env = "null" => rest = <<>>)
       /\ (env = "string" => rest = <<own>>) /\ (env = "array" => rest = <<I, own>>)
  BY DEF rest
<1> QED
  BY <1>3, <1>7, <1>8, <1>9, <1>10 DEF I, own, M

\* From the call to the verdict the test can work out again what the call was
\* given, unless a line of the cleanup changed it, or the process was not where cwd_
\* says: an earlier test had moved it, or a forgiven cd had failed.
CallKept ==
  /\ stage \in {"post", "cleanup", "judge"} =>
       call # None /\ envPath \in {"absent", "null", "string", "array"}
  /\ (stage = "post" \/ (stage \in {"cleanup", "judge"} /\ ~drifted)) =>
       /\ call.arg = Expand(<<"$V">>, stored)
       /\ call.path = CallPath(Inherited, envPath)
       /\ ~drifted => call.dir = cwd
  /\ linear /\ ~drifted => process = cwd
  /\ shown # None => stage = "ended"

\* What a call is given depends on what store and mock have left, and nothing else.
LEMMA SameCall ==
  ASSUME stored' = stored, mocked' = mocked
  PROVE  /\ Expand(<<"$V">>, stored)' = Expand(<<"$V">>, stored)
         /\ \A env : CallPath(Inherited, env)' = CallPath(Inherited, env)
BY DEF CallPath

\* A line of the cleanup that changes what a call is given says so, and so does a line
\* that lets cwd_ and the directory of the process of a linear test part.
LEMMA DriftingLines ==
  ASSUME NEW line, RunLine(line)
  PROVE  /\ stage \in {"prepare", "cleanup"} /\ stage' \in {stage, "ended"}
         /\ linear' = linear /\ envPath' = envPath /\ call' = call /\ shown' = shown
         /\ stage = "cleanup" =>
              drifted' \/ (~drifted /\ stored' = stored /\ mocked' = mocked /\ cwd' = cwd)
         /\ linear =>
              drifted' \/ process' = cwd' \/ (~drifted /\ process' = process /\ cwd' = cwd)
<1> DEFINE args == [i \in DOMAIN line.args |-> Expand(line.args[i], stored)]
<1> HIDE DEF args
<1>1. /\ stage \in {"prepare", "cleanup"}
      /\ \/ BadLine(line) \/ ProgramLine(line) \/ FileLine(line, args) \/ CdLine(line, args)
         \/ StoreLine(line, args) \/ MockLine(line, args)
  BY Zenon DEF RunLine, args
<1>2. stage' \in {stage, "ended"}
  BY <1>1 DEF BadLine, ProgramLine, FileLine, CdLine, StoreLine, MockLine, Verdict, EndWith
<1>3. linear' = linear /\ envPath' = envPath /\ call' = call /\ shown' = shown
  BY <1>1 DEF BadLine, ProgramLine, FileLine, CdLine, StoreLine, MockLine, chosen
<1>4. CASE BadLine(line) \/ ProgramLine(line) \/ FileLine(line, args)
  <2>1. /\ drifted' = drifted /\ stored' = stored /\ mocked' = mocked /\ cwd' = cwd
        /\ process' = process
    BY <1>4 DEF BadLine, ProgramLine, FileLine
  <2> QED
    BY <1>1, <1>2, <1>3, <2>1, Zenon
<1>5. CASE CdLine(line, args)
  <2>2. stage = "cleanup" => drifted'
    BY <1>5, Zenon DEF CdLine
  <2>3. linear => drifted' \/ process' = cwd'
    BY <1>5, Zenon DEF CdLine
  <2> QED
    BY <1>1, <1>2, <1>3, <2>2, <2>3, Zenon
<1>6. CASE StoreLine(line, args) \/ MockLine(line, args)
  <2>1. cwd' = cwd /\ process' = process
    BY <1>6 DEF StoreLine, MockLine
  <2>3. drifted => drifted'
    BY <1>6, Zenon DEF StoreLine, MockLine
  <2>2. stage = "cleanup" => drifted' \/ (stored' = stored /\ mocked' = mocked)
    BY <1>6, Zenon DEF StoreLine, MockLine
  <2> QED
    BY <1>1, <1>2, <1>3, <2>1, <2>2, <2>3, Zenon
<1> QED
  BY <1>1, <1>4, <1>5, <1>6, Zenon

\* CallKept is inductive.
THEOREM CallIsKept == Spec => []CallKept
<1>1. Init => CallKept
  BY DEF Init, CallKept
<1>2. CallKept /\ [Next]_vars => CallKept'
  <2> SUFFICES ASSUME CallKept, [Next]_vars PROVE CallKept'
    OBVIOUS
  <2>1. CASE Begin \/ MakeTemp \/ ListEnds \/ PostsEnd \/ UNCHANGED vars
    <3>1. /\ linear' = linear /\ envPath' = envPath /\ cwd' = cwd /\ process' = process
          /\ stored' = stored /\ mocked' = mocked /\ call' = call /\ shown' = shown
          /\ drifted' = drifted
      BY <2>1 DEF Begin, MakeTemp, ListEnds, PostsEnd, vars, chosen
    <3>2. stage' = stage \/ stage' \in {"mkdirs", "prepare", "call", "ended"}
          \/ (stage = "post" /\ stage' = "cleanup") \/ (stage = "cleanup" /\ stage' = "judge")
      BY <2>1 DEF Begin, MakeTemp, ListEnds, PostsEnd, vars, EndWith
    <3>3. stage = "ended" => stage' = "ended"
      BY <2>1 DEF Begin, MakeTemp, ListEnds, PostsEnd, vars
    <3> QED
      BY <3>1, <3>2, <3>3, SameCall DEF CallKept
  <2>2. CASE Call
    <3>1. call' # None
      BY <2>2 DEF Call, None
    <3> QED
      BY <2>2, <3>1, SameCall DEF CallKept, Call, chosen
  <2>3. CASE Judge
    BY <2>3 DEF CallKept, Judge, EndWith, chosen
  <2>4. CASE \E line \in Lines : RunLine(line)
    BY <2>4, DriftingLines, SameCall DEF CallKept
  <2> QED
    BY <2>1, <2>2, <2>3, <2>4 DEF Next
<1> QED
  BY <1>1, <1>2, PTL DEF Spec

\* The call finds the mocks of the test first, and the rest of its PATH is what
\* "env" wants.
THEOREM MocksFirst == Spec => []MocksComeFirst
<1>1. ASSUME CallKept PROVE MocksComeFirst
  <2> SUFFICES ASSUME stage = "post" PROVE MocksComeFirst
    BY DEF MocksComeFirst
  <2>1. envPath \in {"absent", "null", "string", "array"} /\ call.path = CallPath(Inherited, envPath)
    BY <1>1 DEF CallKept
  <2> DEFINE path == CallPath(Inherited, envPath)
             rest == AfterMocks(path)
             own == Expand(<<"$V">>, stored)
  <2>2. /\ mocked => path # <<>> /\ Head(path) = MocksDir
        /\ envPath = "absent" => rest = <<Inherited[1]>>
        /\ envPath = "null" => rest = <<>>
        /\ envPath = "string" => rest = <<own>>
        /\ envPath = "array" => rest = <<Inherited[1], own>>
        /\ Inherited[1] # MocksDir
    BY <2>1, CallPaths
  <2> HIDE DEF path, rest, own
  <2>3. /\ envPath \in {"absent", "array"} => rest # <<>> /\ Head(rest) = Inherited[1]
        /\ own # MocksDir => \A n \in DOMAIN rest : rest[n] # MocksDir
    BY <2>1, <2>2
  <2> QED
    BY <2>1, <2>2, <2>3 DEF MocksComeFirst, path, rest, own
<1> QED
  BY <1>1, CallIsKept, PTL

\* The report of a failed test tells the argument, the PATH and the directory of
\* the call, though all of them are worked out again after the cleanup: wherever an
\* earlier test left the process, one cd that works is enough.
THEOREM ReportHolds == Spec => []ReportTellsTheCall
<1>1. Init => ReportTellsTheCall
  BY DEF Init, ReportTellsTheCall
<1>2. CallKept /\ ReportTellsTheCall /\ [Next]_vars => ReportTellsTheCall'
  <2> SUFFICES ASSUME CallKept, ReportTellsTheCall, [Next]_vars, shown' # None, ~drifted'
               PROVE  ReportTellsTheCall'
    BY DEF ReportTellsTheCall
  <2>1. CASE Judge
    <3>1. /\ stage = "judge" /\ stored' = stored /\ mocked' = mocked /\ call' = call /\ cwd' = cwd
          /\ envPath' = envPath /\ drifted' = drifted
      BY <2>1 DEF Judge, EndWith
    <3>2. shown' = [arg |-> Expand(<<"$V">>, stored), path |-> CallPath(<<>>, envPath), dir |-> cwd]
      BY <2>1, <3>1 DEF Judge, EndWith, CallKept
    <3>3. /\ call.arg = Expand(<<"$V">>, stored) /\ call.path = CallPath(Inherited, envPath)
          /\ call.dir = cwd /\ envPath \in {"absent", "null", "string", "array"}
      BY <3>1 DEF CallKept
    <3>4. shown'.path = (IF mocked THEN <<MocksDir>> ELSE <<>>) \o
                          IF envPath \in {"absent", "array"} THEN Tail(AfterMocks(call.path))
                                                             ELSE AfterMocks(call.path)
      BY <3>2, <3>3, CallPaths
    <3>5. AfterMocks(call.path)' = AfterMocks(call.path)
      BY <3>1 DEF AfterMocks
    <3> QED
      BY <3>1, <3>2, <3>3, <3>4, <3>5 DEF ReportTellsTheCall
  <2>2. CASE ~Judge
    <3>1. shown' = shown
      BY <2>2, DriftingLines DEF Next, Begin, MakeTemp, ListEnds, Call, PostsEnd, vars
    <3>2. stage = "ended"
      BY <3>1 DEF CallKept
    <3>3. UNCHANGED vars
      BY <2>2, <3>2, DriftingLines DEF Next, Begin, MakeTemp, ListEnds, Call, PostsEnd
    <3> QED
      BY <3>3 DEF vars, ReportTellsTheCall, AfterMocks
  <2> QED
    BY <2>1, <2>2
<1> QED
  BY <1>1, <1>2, CallIsKept, PTL DEF Spec
-----------------------------------------------------------------------------
(* The commands implement TestRun.                                           *)

\* What a line does to the test: cwd_ and the process part only by cd, which takes
\* the process of a linear test along if it can; a line that is not forgiven ends the
\* test, and so may one that throws.
LEMMA LineOfTest ==
  ASSUME NEW line \in Lines, RunLine(line)
  PROVE  /\ stage \in {"prepare", "cleanup"} /\ linear' = linear /\ call' = call
         /\ \/ /\ cwd' = cwd /\ process' = process
               /\ \/ stage' = stage /\ result' = result
                  \/ stage' = "ended" /\ result' \in {"SKIPPED", "threw"}
            \/ \E worked, safe \in BOOLEAN :
                 /\ ~linear => worked
                 /\ process' = IF linear /\ worked THEN cwd' ELSE process
                 /\ IF worked \/ safe THEN stage' = stage /\ result' = result
                                      ELSE stage' = "ended" /\ result' = "SKIPPED"
<1> DEFINE args == [i \in DOMAIN line.args |-> Expand(line.args[i], stored)]
<1> HIDE DEF args
<1>1. CASE CdLine(line, args)
  <2> DEFINE ok == ~linear \/ IsDir(disk, Real(disk, cwd'))
  <2>1. /\ process' = IF linear /\ ok THEN cwd' ELSE process
        /\ IF ok \/ line.safe THEN stage' = stage /\ result' = result
                              ELSE stage' = "ended" /\ result' = "SKIPPED"
    BY <1>1, Zenon DEF CdLine, Verdict, EndWith
  <2>2. line.safe \in BOOLEAN /\ ok \in BOOLEAN /\ (~linear => ok)
    BY LinesAssumption
  <2> HIDE DEF ok
  <2> QED
    BY <2>1, <2>2, DriftingLines
<1>2. CASE BadLine(line) \/ ProgramLine(line) \/ FileLine(line, args) \/ StoreLine(line, args)
           \/ MockLine(line, args)
  <2>1. cwd' = cwd /\ process' = process
    BY <1>2 DEF BadLine, ProgramLine, FileLine, StoreLine, MockLine
  <2>2. ASSUME NEW ok, Verdict(line, ok)
        PROVE  \/ stage' = stage /\ result' = result
               \/ stage' = "ended" /\ result' = "SKIPPED"
    BY <2>2, Zenon DEF Verdict, EndWith
  <2>3. \/ \E ok : Verdict(line, ok)
        \/ EndWith("SKIPPED") \/ EndWith("threw")
    BY <1>2, Zenon DEF BadLine, ProgramLine, FileLine, StoreLine, MockLine
  <2> QED
    BY <2>1, <2>2, <2>3, DriftingLines DEF EndWith
<1> QED
  BY <1>1, <1>2, Zenon DEF RunLine, args

\* What is mine of a function changes by itself.
LEMMA MineChanges ==
  ASSUME NEW value, NEW other, NEW next
  PROVE  /\ Me \in 1 .. 2 /\ Mine(value, other)[Me] = value
         /\ [Mine(value, other) EXCEPT ![Me] = next] = Mine(next, other)
<1>1. Me \in 1 .. 2
  BY DEF Me
<1>2. Mine(value, other)[Me] = value
  BY <1>1 DEF Mine
<1>3. [Mine(value, other) EXCEPT ![Me] = next] = Mine(next, other)
  BY <1>1 DEF Mine
<1> QED
  BY <1>1, <1>2, <1>3

\* Every step of the commands is a step of TestRun, or changes nothing it knows of.
LEMMA StepImplements ==
  ASSUME CallKept, [Next]_vars
  PROVE  \/ \E t \in 1 .. 2 : OneTest!Begin(t) \/ OneTest!TestStep(t)
         \/ UNCHANGED OneTest!testVars
<1>1. linear' = linear /\ Me' = Me /\ Me \in 1 .. 2 /\ (Me \in {2} <=> linear)
  <2>1. linear' = linear
    BY DriftingLines DEF Next, vars, chosen, Begin, MakeTemp, ListEnds, Call, PostsEnd, Judge
  <2> QED
    BY <2>1 DEF Me
<1> DEFINE temp(s) == IF s \in {"idle", "mkdirs"} THEN "none" ELSE "made"
           codes(c) == IF c = None THEN <<>> ELSE <<c.code>>
           ranIn(c) == IF c = None THEN 0 ELSE Owner(c.dir)
<1>2. ASSUME call' = call PROVE UNCHANGED <<Mine(codes(call), <<>>), Mine(ranIn(call), 0)>>
  BY <1>1, <1>2 DEF Mine, Owner
<1>3. ASSUME cwd' = cwd PROVE UNCHANGED Mine(Owner(cwd), 0)
  BY <1>1, <1>3 DEF Mine, Owner
<1>4. ASSUME process' = process PROVE UNCHANGED Owner(process)
  BY <1>1, <1>4 DEF Owner
<1>5. ASSUME NEW s, stage' = s PROVE OneTest!At(Me, s)
  BY <1>1, <1>5, MineChanges DEF OneTest!At, Mine
<1>6. ASSUME NEW r, EndWith(r) PROVE OneTest!EndWith(Me, r)
  BY <1>1, <1>6, MineChanges DEF OneTest!At, OneTest!EndWith, EndWith, Mine
<1>7. ASSUME stage' = stage PROVE UNCHANGED <<Mine(stage, "idle"), Mine(temp(stage), "none")>>
  BY <1>1, <1>7 DEF Mine
<1>8. ASSUME result' = result PROVE UNCHANGED Mine(result, "none")
  BY <1>1, <1>8 DEF Mine
<1>9. ASSUME temp(stage)' = temp(stage) PROVE UNCHANGED Mine(temp(stage), "none")
  BY <1>1, <1>9 DEF Mine
<1>10. CASE UNCHANGED vars
  <2>1. UNCHANGED <<stage, cwd, process, call, result>>
    BY <1>10 DEF vars
  <2> QED
    BY <2>1, <1>2, <1>3, <1>4, <1>7, <1>8 DEF OneTest!testVars
<1>11. CASE Begin
  <2>1. /\ stage = "idle" /\ stage' = "mkdirs"
        /\ UNCHANGED <<cwd, process, call, result>>
    BY <1>11 DEF Begin
  <2>2. OneTest!Begin(Me)
    BY <2>1, <1>1, <1>2, <1>3, <1>4, <1>5, <1>8, <1>9, MineChanges DEF OneTest!Begin
  <2> QED
    BY <1>1, <2>2
<1>12. CASE MakeTemp
  <2>1. /\ stage = "mkdirs" /\ UNCHANGED <<cwd, process, call>>
        /\ \/ stage' = "prepare" /\ result' = result
           \/ EndWith("SKIPPED")
    BY <1>12, Zenon DEF MakeTemp
  <2>2. Mine(temp(stage), "none")' = [Mine(temp(stage), "none") EXCEPT ![Me] = "made"]
    BY <2>1, <1>1, MineChanges DEF Mine, EndWith
  <2>3. OneTest!MakeDirs(Me)
    <3>1. CASE stage' = "prepare" /\ result' = result
      <4>1. TRUE \in BOOLEAN
        OBVIOUS
      <4> QED
        BY <2>1, <2>2, <3>1, <4>1, <1>1, <1>2, <1>3, <1>4, <1>5, <1>8, MineChanges
           DEF OneTest!MakeDirs
    <3>2. CASE EndWith("SKIPPED")
      BY <2>1, <2>2, <3>2, <1>1, <1>2, <1>3, <1>4, <1>6, MineChanges DEF OneTest!MakeDirs
    <3> QED
      BY <2>1, <3>1, <3>2
  <2> QED
    BY <1>1, <2>3 DEF OneTest!TestStep
<1>13. CASE ListEnds
  <2>1. /\ \/ stage = "prepare" /\ stage' = "call"
           \/ stage = "cleanup" /\ stage' = "judge"
        /\ UNCHANGED <<cwd, process, call, result>>
    BY <1>13 DEF ListEnds
  <2>2. OneTest!ListEnds(Me)
    BY <2>1, <1>1, <1>2, <1>3, <1>4, <1>5, <1>8, <1>9, MineChanges DEF OneTest!ListEnds
  <2> QED
    BY <1>1, <2>2 DEF OneTest!TestStep
<1>14. CASE Call
  <2>1. /\ stage = "call" /\ stage' = "post"
        /\ UNCHANGED <<cwd, process, result>>
    BY <1>14 DEF Call
  <2>2. PICK code \in {0, 1} :
          /\ call'.code = code /\ call'.dir = IF linear THEN process ELSE cwd
          /\ call' # None
    BY <1>14 DEF Call, None
  <2>3. codes(call)' = <<code>> /\ ranIn(call)' = IF linear THEN Owner(process) ELSE Owner(cwd)
    BY <2>2, <1>1 DEF Owner
  <2>4. /\ Mine(codes(call), <<>>)' = [Mine(codes(call), <<>>) EXCEPT ![Me] = <<code>>]
        /\ Mine(ranIn(call), 0)' = [Mine(ranIn(call), 0) EXCEPT ![Me] =
                                      IF linear THEN Owner(process) ELSE Owner(cwd)]
    BY <2>3, <1>1, MineChanges DEF Mine
  <2>5. OneTest!Call(Me)
    BY <2>1, <2>4, <1>1, <1>3, <1>4, <1>5, <1>8, <1>9, MineChanges DEF OneTest!Call
  <2> QED
    BY <1>1, <2>5 DEF OneTest!TestStep
<1>15. CASE PostsEnd
  <2>1. /\ stage = "post" /\ stage' = "cleanup"
        /\ UNCHANGED <<cwd, process, call, result>>
    BY <1>15 DEF PostsEnd
  <2>a. Mine(codes(call), <<>>)[Me] = <<call.code>>
    BY <2>1, <1>1, MineChanges DEF CallKept
  <2> DEFINE mine == Mine(codes(call), <<>>)
  <2>b. Len(mine[Me]) > [t \in 1 .. 2 |-> 0][Me]
    BY <2>a, <1>1
  <2>2. OneTest!PostsEnd(Me)
    BY <2>1, <2>b, <1>1, <1>2, <1>3, <1>4, <1>5, <1>8, <1>9, MineChanges DEF OneTest!PostsEnd
  <2> QED
    BY <1>1, <2>2 DEF OneTest!TestStep
<1>16. CASE Judge
  <2>1. /\ stage = "judge" /\ stage' = "ended"
        /\ UNCHANGED <<cwd, process, call>>
        /\ (call.code = ExpectedCode /\ EndWith("OK")) \/ EndWith("FAILED")
    BY <1>16 DEF Judge, EndWith
  <2>2. Mine(codes(call), <<>>)[Me] = <<call.code>>
    BY <2>1, <1>1, MineChanges DEF CallKept
  <2> DEFINE mine == Mine(codes(call), <<>>)
             due == [t \in 1 .. 2 |-> ExpectedCode]
  <2>3. mine[Me][Len(mine[Me])] = call.code
    BY <2>2
  <2>4. due[Me] = ExpectedCode /\ ExpectedCode # 2 /\ UNCHANGED due
    BY <1>1, ExpectedCodeAssumption
  <2>5. Me \in OneTest!Filled
    BY <2>4, <1>1 DEF OneTest!Filled, OneTest!Tests
  <2>6. \E sameOutput \in BOOLEAN :
          OneTest!EndWith(Me, IF call.code = ExpectedCode /\ sameOutput THEN "OK" ELSE "FAILED")
    <3>1. CASE call.code = ExpectedCode /\ EndWith("OK")
      <4>1. OneTest!EndWith(Me, IF call.code = ExpectedCode /\ TRUE THEN "OK" ELSE "FAILED")
        BY <1>6, <3>1
      <4> QED
        BY <4>1
    <3>2. CASE EndWith("FAILED")
      <4>1. OneTest!EndWith(Me, IF call.code = ExpectedCode /\ FALSE THEN "OK" ELSE "FAILED")
        BY <1>6, <3>2
      <4> QED
        BY <4>1
    <3> QED
      BY <2>1, <3>1, <3>2
  <2>7. Mine(stage, "idle")[Me] = "judge"
    BY <2>1, <1>1, MineChanges
  <2>8. UNCHANGED <<Mine(temp(stage), "none"), Mine(Owner(cwd), 0), Owner(process),
                    Mine(codes(call), <<>>), Mine(ranIn(call), 0)>>
    BY <2>1, <1>2, <1>3, <1>4, <1>9
  <2>9. OneTest!Judge(Me)
    BY <2>3, <2>4, <2>5, <2>6, <2>7, <2>8 DEF OneTest!Judge
  <2> QED
    BY <1>1, <2>9 DEF OneTest!TestStep
<1>17. CASE \E line \in Lines : RunLine(line)
  <2>1. PICK line \in Lines : RunLine(line)
    BY <1>17
  <2>2. /\ stage \in {"prepare", "cleanup"} /\ stage' \in {stage, "ended"} /\ call' = call
        /\ temp(stage)' = temp(stage)
    BY <2>1, LineOfTest
  <2>3. CASE /\ cwd' = cwd /\ process' = process
             /\ stage' = stage /\ result' = result
    BY <2>2, <2>3, <1>2, <1>3, <1>4, <1>7, <1>8 DEF OneTest!testVars
  <2>4. CASE cwd' = cwd /\ process' = process /\ EndWith("SKIPPED")
    <3>1. OneTest!Command(Me)
      BY <2>2, <2>4, <1>1, <1>2, <1>3, <1>4, <1>6, <1>9, MineChanges
         DEF OneTest!Command, OneTest!Verdict
    <3> QED
      BY <1>1, <3>1 DEF OneTest!TestStep
  <2>5. CASE cwd' = cwd /\ process' = process /\ EndWith("threw")
    <3>1. OneTest!Throw(Me)
      BY <2>2, <2>5, <1>1, <1>2, <1>3, <1>4, <1>6, <1>9, MineChanges
         DEF OneTest!Throw, OneTest!Running
    <3> QED
      BY <1>1, <3>1 DEF OneTest!TestStep
  <2>6. ASSUME NEW worked \in BOOLEAN, NEW safe \in BOOLEAN,
               ~linear => worked, process' = IF linear /\ worked THEN cwd' ELSE process,
               IF worked \/ safe THEN stage' = stage /\ result' = result
                                 ELSE EndWith("SKIPPED")
        PROVE  OneTest!ChangeDir(Me)
    <3> DEFINE dir == Owner(cwd)'
    <3>1. dir \in {0, Me}
      BY <1>1 DEF Owner
    <3>2. Mine(Owner(cwd), 0)' = [Mine(Owner(cwd), 0) EXCEPT ![Me] = dir]
      BY <1>1, MineChanges DEF Mine
    <3>3. Owner(process)' = IF worked /\ linear THEN dir ELSE Owner(process)
      BY <2>6, <1>1 DEF Owner
    <3>4. IF worked \/ safe THEN UNCHANGED <<Mine(stage, "idle"), Mine(result, "none")>>
                            ELSE OneTest!EndWith(Me, "SKIPPED")
      BY <2>6, <1>6, <1>7, <1>8
    <3> HIDE DEF dir
    <3>5. Mine(stage, "idle")[Me] \in {"prepare", "cleanup"} /\ (Me \notin {2} => worked)
      BY <2>2, <2>6, <1>1, MineChanges
    <3>6. UNCHANGED <<Mine(temp(stage), "none"), Mine(codes(call), <<>>), Mine(ranIn(call), 0)>>
      BY <2>2, <1>2, <1>9
    <3> QED
      BY <2>2, <3>1, <3>2, <3>3, <3>4, <3>5, <3>6, <1>1
         DEF OneTest!ChangeDir, OneTest!Verdict, OneTest!StartDir
  <2>7. \/ /\ cwd' = cwd /\ process' = process
           /\ \/ stage' = stage /\ result' = result
              \/ EndWith("SKIPPED") \/ EndWith("threw")
        \/ \E worked, safe \in BOOLEAN :
             /\ ~linear => worked
             /\ process' = IF linear /\ worked THEN cwd' ELSE process
             /\ IF worked \/ safe THEN stage' = stage /\ result' = result
                                  ELSE EndWith("SKIPPED")
    BY <2>1, LineOfTest DEF EndWith
  <2>8. OneTest!ChangeDir(Me) => OneTest!TestStep(Me)
    BY DEF OneTest!TestStep
  <2> QED
    BY <1>1, <2>3, <2>4, <2>5, <2>6, <2>7, <2>8
<1> QED
  BY <1>10, <1>11, <1>12, <1>13, <1>14, <1>15, <1>16, <1>17 DEF Next

\* A test whose lines may lead anywhere does what TestRun says of it: it is called where
\* it should be, stopped by the first line that fails, and judged after a full run.
THEOREM Implements == Spec => ImplementsTestRun
<1>1. Init => OneTest!TestInit
  <2> SUFFICES ASSUME Init PROVE OneTest!TestInit
    OBVIOUS
  <2>1. Start \notin Below(Tmp)
    <3>1. Tmp \in Seq(STRING) /\ Start \in Seq(STRING)
      BY PathsAssumption, PlacesAssumption
    <3>2. Len(Tmp) = 2 /\ Tmp[2] # Start[2]
      BY DEF Tmp, Start
    <3> QED
      BY <3>1, <3>2, PrefixNames DEF Below
  <2>2. Owner(cwd) = 0 /\ Owner(process) = 0
    BY <2>1, PlacesAssumption DEF Init, Owner
  <2> QED
    BY <2>2 DEF Init, OneTest!TestInit, OneTest!StartDir, OneTest!Tests, Mine, Me
<1> QED
  BY <1>1, StepImplements, CallIsKept, PTL DEF Spec, ImplementsTestRun
=============================================================================

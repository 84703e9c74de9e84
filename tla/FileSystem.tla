----------------------------- MODULE FileSystem -----------------------------
(***************************************************************************)
(* What the commands of a test need of std::filesystem: a tree of          *)
(* directories with files, hard links, symbolic links and read-only bits,  *)
(* for a user the bits bind.                                               *)
(*                                                                         *)
(* A path is a sequence of names that starts with "/"; the text of a file  *)
(* is a sequence of words.  A file system is a function from the paths     *)
(* that exist to what they name; a file has all its names with it, and two *)
(* names of one file are hard links.  An operation is an operator whose    *)
(* value is the file system after it and whether it worked, or the set of  *)
(* those it may have.                                                      *)
(***************************************************************************)
EXTENDS Naturals, Sequences, SequencesExt

CONSTANTS Paths,    \* bound: the places of the file system, and the names used for them
          MaxLinks  \* bound: symbolic links that are followed for one path

Root == <<"/">>

ASSUME PathsAssumption ==
  /\ Paths \subseteq Seq(STRING) \ {<<>>}
  /\ Root \in Paths
  /\ \A p \in Paths : p[1] = "/" /\ (p # Root => Front(p) \in Paths)
ASSUME MaxLinksAssumption == MaxLinks \in Nat

Below(p) == {q \in Paths : p \in Paths /\ IsPrefix(p, q)}

\* dir / p
In(dir, p) == IF p # <<>> /\ p[1] = "/" THEN p ELSE dir \o p

Free == [kind |-> "free", text |-> <<>>, ro |-> FALSE, names |-> {}]
Dir == [Free EXCEPT !.kind = "dir"]
File(text) == [Free EXCEPT !.kind = "file", !.text = text]
Symlink(to) == [Free EXCEPT !.kind = "link", !.text = to]

Exists(fs, p) == p \in DOMAIN fs
Node(fs, p) == IF Exists(fs, p) THEN fs[p] ELSE Free
IsDir(fs, p) == Node(fs, p).kind = "dir"
IsFile(fs, p) == Node(fs, p).kind = "file"

-----------------------------------------------------------------------------
(* Symbolic links.                                                           *)

\* What each link has for a text.
Links(fs) == [p \in {q \in DOMAIN fs : fs[q].kind = "link"} |-> fs[p].text]

\* p with what the first link on its way leads to in place of the link.
Hop(links, p) ==
  LET n == Min({n \in DOMAIN p : SubSeq(p, 1, n) \in DOMAIN links})
      link == SubSeq(p, 1, n)
  IN  In(Front(link), links[link]) \o SubSeq(p, n + 1, Len(p))

\* p with every link on its way followed; one of too many is left in it.
Followed(links, p) ==
  LET open(q) == \E link \in DOMAIN links : IsPrefix(link, q)
      hops[n \in 0 .. MaxLinks] ==
        IF n = 0 THEN p
        ELSE IF open(hops[n - 1]) THEN Hop(links, hops[n - 1]) ELSE hops[n - 1]
  IN  IF open(p) THEN hops[MaxLinks] ELSE p

\* The entry p names: links are followed on the way to it, and by Real at its end
\* too.
Place(fs, p) == Append(Followed(Links(fs), Front(p)), Last(p))
Real(fs, p) ==
  LET place == Place(fs, p) IN
  IF Node(fs, place).kind = "link" THEN Followed(Links(fs), p) ELSE place

-----------------------------------------------------------------------------
(* The operations.                                                           *)

\* May a name be added to, or taken from, the directory p is in?
MayChange(fs, p) == IsDir(fs, Front(p)) /\ ~Node(fs, Front(p)).ro
MayAdd(fs, p) == p \in Paths /\ MayChange(fs, p) /\ ~Exists(fs, p)

\* New entries; new says what they are.
Add(fs, new) ==
  [p \in DOMAIN fs \cup DOMAIN new |->
     IF Exists(fs, p) THEN fs[p] ELSE [new[p] EXCEPT !.names = {p}]]

\* The file at p, under all its names, becomes node.
Change(fs, p, node) == [q \in DOMAIN fs |-> IF q \in fs[p].names THEN node ELSE fs[q]]

Unlink(fs, ps) == [p \in DOMAIN fs \ ps |-> [fs[p] EXCEPT !.names = @ \ ps]]

Done(fs) == [fs |-> fs, ok |-> TRUE]
Failed(fs) == [fs |-> fs, ok |-> FALSE]

\* create_directories: all the missing ones, or none, as when what is there on the
\* way is no directory, nor a link to one.
MakeDirs(fs, p) ==
  LET way == {SubSeq(p, 1, n) : n \in DOMAIN p}
      goal == Real(fs, p)
      missing == {q \in Paths : IsPrefix(q, goal) /\ ~Exists(fs, q)}
  IN  IF /\ goal \in Paths
         /\ \A q \in way : Exists(fs, Place(fs, q)) => IsDir(fs, Real(fs, q))
         /\ \A q \in missing : Front(q) \in missing \/ MayAdd(fs, q)
        THEN Done(Add(fs, [q \in missing |-> Dir]))
        ELSE Failed(fs)

\* fopen(p, "w"), and the text: the file is cut and filled in place, through
\* symbolic links and for every name it has.
Write(fs, p, text) ==
  LET q == Real(fs, p) IN
  CASE p \in Paths /\ IsFile(fs, q) /\ ~fs[q].ro ->
         Done(Change(fs, q, [fs[q] EXCEPT !.text = text]))
    [] p \in Paths /\ MayAdd(fs, q) -> Done(Add(fs, [r \in {q} |-> File(text)]))
    [] OTHER -> Failed(fs)

\* permissions: without those to write, for what a link leads to.
SetReadOnly(fs, p) ==
  LET q == Real(fs, p) IN
  IF IsFile(fs, q) \/ IsDir(fs, q)
    THEN Done(Change(fs, q, [fs[q] EXCEPT !.ro = TRUE])) ELSE Failed(fs)

\* remove_all removes what it can, from the leaves up, until it cannot.  It follows
\* no link at the end of p or below it.
RemoveAll(fs, p) ==
  LET all == Below(Place(fs, p)) \cap DOMAIN fs
      able == {q \in all : MayChange(fs, q)}
      whole(S) == \A q \in S : Below(q) \cap all \subseteq S
  IN  IF able = all THEN {Done(Unlink(fs, all))}
      ELSE {Failed(Unlink(fs, S)) : S \in {S \in SUBSET able : whole(S)}}

\* The name copy(top, dst) has for the copy of q, which is top or below it.
Image(top, dst, q) == dst \o SubSeq(q, Len(top) + 1, Len(q))

\* What a copy that puts q at at[q] has made when it got to the entries in S.
Copied(fs, at, link, S) ==
  LET linked(q) == link /\ IsFile(fs, q)
      names(q) == fs[q].names \cup {at[r] : r \in {r \in S \cap fs[q].names : linked(r)}}
      origin(p) == CHOOSE q \in S : at[q] = p
      own(p) == IF linked(origin(p)) THEN names(origin(p)) ELSE {p}
  IN  [p \in DOMAIN fs \cup {at[q] : q \in S} |->
         IF Exists(fs, p) THEN [fs[p] EXCEPT !.names = names(p)]
                          ELSE [fs[origin(p)] EXCEPT !.names = own(p)]]

\* What the copy of top to dst has to make, and where: a directory is filled if there
\* is one for it, and a file that meets a directory goes into that, unless it is to
\* be a hard link.  The links followed are those of via.
Targets(fs, via, top, dst, link) ==
  LET all == {q \in Below(top) \cap DOMAIN fs : Exists(fs, top)}
      met(q) == Real(via, Image(top, dst, q))
      todo == {q \in all : ~(IsDir(fs, q) /\ IsDir(fs, met(q)) /\ met(q) # q)}
  IN  [q \in todo |-> IF ~link /\ IsFile(fs, q) /\ IsDir(fs, met(q))
                        THEN Append(met(q), Last(q)) ELSE Place(via, Image(top, dst, q))]

\* The entries of DOMAIN at are made, each q at at[q], in any order that has a
\* directory before what is in it, until one fails.  What was made stays.
\* Bound: no two entries go to one place, and none below top.
CopyTo(fs, at, top, dst, link, oneDevice) ==
  LET todo == DOMAIN at
      apart == \A q, r \in todo : /\ at[q] = at[r] => q = r
                                  /\ IsPrefix(top, at[q]) => Exists(fs, at[q])
      ready(q) == /\ Image(top, dst, q) \in Paths /\ at[q] \in Paths /\ ~Exists(fs, at[q])
                  /\ IF q # top /\ Front(q) \in todo
                       THEN Front(at[q]) = at[Front(q)] /\ ~fs[Front(q)].ro
                       ELSE MayChange(fs, at[q])
                  /\ link /\ IsFile(fs, q) => oneDevice
      able == {q \in todo : \A r \in todo : IsPrefix(r, q) => ready(r)}
      ordered(S) == \A q \in S : \A r \in todo : IsPrefix(r, q) => r \in S
  IN  CASE ~apart -> {}
        [] apart /\ Exists(fs, top) /\ able = todo -> {Done(Copied(fs, at, link, todo))}
        [] OTHER -> {Failed(Copied(fs, at, link, S)) : S \in {S \in SUBSET able : ordered(S)}}

\* copy(src, dst, recursive | copy_symlinks), with hard links for the files (which
\* takes one device) or with copies.
Copy(fs, via, src, dst, link, oneDevice) ==
  LET top == Place(via, src) IN
  CopyTo(fs, Targets(fs, via, top, dst, link), top, dst, link, oneDevice)
=============================================================================

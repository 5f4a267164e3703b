----------------------------- MODULE Secrets_proofs -----------------------------
(***************************************************************************)
(* Proofs about the secrets' commands and what the daemon takes from them, *)
(* for any number of sources, commands and starts.                         *)
(***************************************************************************)
EXTENDS Secrets, FiniteSetTheorems, WellFoundedInduction, SequenceTheorems, TLAPS

\* A configuration names a source's own variables.
Uris(k) == k \in [Sources -> Seq(Vars)] /\ \A s \in Sources : \A u \in ToSet(k[s]) : u[1] = s

\* What it names in the env file is there, or was.
Backed(k) ==
    \A s \in Sources \ Vault : \A u \in ToSet(k[s]) : file[u] = None => u \in gone

WorkAt == {"store", "append", "truncate", "fill", "save"}
EnvFile == [Vars -> Nat \cup {None}]

Types ==
    /\ conf \in [Sources -> Seq(Vars)] /\ DOMAIN window = Sources
    /\ file \in EnvFile /\ minted \in Nat
    /\ pc \in [Cmds -> WorkAt \cup {"new", "print", "done"}]
    /\ new \in [Cmds -> Vars \cup {None}] /\ nth \in [Cmds -> Nat]
    /\ snap \in [Cmds -> EnvFile \cup {None}]
    /\ op \in [Cmds -> {"add", "rotate", "remove", None}] /\ src \in [Cmds -> Sources \cup {None}]
    /\ raw \in [Cmds -> [Sources -> Seq(Vars)] \cup {None}]
    /\ cut \subseteq Sources

\* What a command at work has read can be saved: it is backed, and as long as no
\* commands have met, it is what is saved now.
WorkFits ==
    \A c \in Working :
        /\ src[c] \in Sources /\ op[c] \in {"add", "rotate", "remove"}
        /\ Uris(raw[c]) /\ Backed(raw[c])
        /\ op[c] = "add" <=> raw[c][src[c]] = <<>>
        /\ ~overlap => raw[c] = conf /\ \A d \in Working : d = c

Snapping(c) == pc[c] \in {"truncate", "fill"}
Filling == \E c \in Cmds : pc[c] = "fill"

\* A remove is at one of its source's URIs, and appends nothing.
RemoveFits ==
    \A c \in Cmds :
        /\ pc[c] = "new" => nth[c] = 0
        /\ pc[c] = "append" => op[c] # "remove"
        /\ pc[c] = "store" /\ op[c] = "remove" =>
               src[c] \notin Vault /\ nth[c] < Len(raw[c][src[c]])
        /\ Snapping(c) => /\ op[c] = "remove" /\ src[c] \notin Vault /\ snap[c] \in EnvFile
                          /\ nth[c] \in 1..Len(raw[c][src[c]])

\* The name a command is about to write is its source's and, while it is alone,
\* free; the secret it is about to save is in its store or, if it is not alone, was.
NewFits ==
    \A c \in Cmds : pc[c] \in {"append", "save"} /\ op[c] # "remove" =>
        /\ new[c] \in Vars /\ new[c][1] = src[c]
        /\ pc[c] = "append" => src[c] \notin Vault /\ (~overlap => file[new[c]] = None)
        /\ pc[c] = "save" /\ src[c] \notin Vault /\ file[new[c]] = None => new[c] \in gone /\ overlap

\* Every numbered name in the env file, or in what a remove will write there, was
\* made by a command that is past it.
Past(c, v) == pc[c] \notin {"new", "store", "append"} /\ op[c] # "remove" /\ new[c] = v
Made(f) ==
    \A s \in Sources : \A n \in 1..Cardinality(Cmds) : f[<<s, n>>] # None =>
        \E c \in Cmds : Past(c, <<s, n>>)
NamesMade == Made(file) /\ \A c \in Cmds : Snapping(c) => Made(snap[c])

\* The entries of configuration k lead in the env file f to the windows w, but for
\* the sources X.
Leads(f, k, w, X) ==
    \A s \in Sources \ (Vault \cup X) :
        /\ \A i \in DOMAIN k[s] : f[k[s][i]] # None
        /\ w[s] = [i \in DOMAIN k[s] |-> f[k[s][i]]]

\* As long as no commands have met and none was killed with the file truncated,
\* config.json leads to the last secrets saved, unless a remove has begun; so does
\* what a remove will write.
WindowTrue ==
    ~overlap /\ ~torn =>
        /\ ~Filling => Leads(file, conf, window, cut)
        /\ \A c \in Cmds : Snapping(c) => Leads(snap[c], conf, window, cut)

\* A remove alone in truncating the file leaves nothing in it, and no daemon starts.
FillFits == ~overlap /\ Filling => ~synced /\ \A v \in Vars : file[v] = None

\* A daemon started after the last write has what is written.
Synced == synced => cfg = conf /\ env = file

IndInv ==
    /\ Types /\ Uris(conf) /\ Backed(conf) /\ WorkFits /\ RemoveFits /\ NewFits
    /\ NamesMade /\ WindowTrue /\ FillFits /\ Synced

-----------------------------------------------------------------------------
(* names and configurations *)

\* A set of numbers that is not empty has a least one.
LEMMA MinIn ==
    ASSUME NEW T \in SUBSET Nat, T # {}
    PROVE  Min(T) \in T
  <1> DEFINE R == StrictSubsetOrdering(Nat)
             U == {1..x : x \in T}
  <1>1. U # {} /\ U \subseteq FiniteSubsetsOf(Nat)
    <2>1. \A x \in T : IsFiniteSet(1..x) /\ 1..x \subseteq Nat
      BY FS_Interval
    <2> QED BY <2>1 DEF FiniteSubsetsOf
  <1>2. IsWellFoundedOn(R, FiniteSubsetsOf(Nat))
    BY FS_StrictSubsetOrderingWellFounded
  <1>3. PICK u \in U : \A v \in U : <<v, u>> \notin R
    <2> HIDE DEF R, U
    <2> QED BY <1>1, <1>2, WFMin
  <1>4. PICK x \in T : u = 1..x
    OBVIOUS
  <1>5. ASSUME NEW y \in T PROVE x <= y
    <2> SUFFICES ASSUME y < x PROVE FALSE
      OBVIOUS
    <2>1. 1..y \subseteq 1..x /\ x \in 1..x /\ x \notin 1..y
      BY <1>5
    <2>2. <<1..y, 1..x>> \in R
      <3>1. 1..y # 1..x
        BY <2>1
      <3>2. 1..y \in SUBSET Nat /\ 1..x \in SUBSET Nat
        OBVIOUS
      <3> QED BY <2>1, <3>1, <3>2 DEF StrictSubsetOrdering
    <2> QED BY <1>3, <1>4, <2>2
  <1> QED BY <1>5 DEF Min

\* The smaller of two numbers.
LEMMA MinOfTwo ==
    ASSUME NEW n \in Nat
    PROVE  Min({2, n}) = IF n < 2 THEN n ELSE 2
  <1>1. CASE n < 2
    <2>1. \A x \in {2, n} : (\A y \in {2, n} : x <= y) <=> x = n
      BY <1>1
    <2> QED BY <1>1, <2>1 DEF Min
  <1>2. CASE ~(n < 2)
    <2>1. \A x \in {2, n} : (\A y \in {2, n} : x <= y) <=> x = 2
      BY <1>2
    <2> QED BY <1>2, <2>1 DEF Min
  <1> QED BY <1>1, <1>2

\* There is a way to number the secrets of the sources configured at first.
LEMMA FirstKeyType == FirstKey \in [FirstSources -> Nat]
  <1> DEFINE n == Cardinality(FirstSources)
  <1>1. IsFiniteSet(FirstSources) /\ n \in Nat
    BY SecretsConstants, FS_Subset, FS_CardinalityType
  <1>2. IsFiniteSet(1..n) /\ Cardinality(1..n) = n
    BY <1>1, FS_Interval
  <1>3. PICK g \in [FirstSources -> 1..n] : \A a, b \in FirstSources : g[a] = g[b] => a = b
    <2>1. ExistsBijection(FirstSources, 1..n)
      BY <1>1, <1>2, FS_SameCardinalityBij
    <2> QED BY <2>1 DEF ExistsBijection, Bijection, Injection, IsInjective
  <1> DEFINE k == [s \in FirstSources |-> g[s] - 1]
  <1>4. k \in [FirstSources -> 0..(n - 1)]
    BY <1>1, <1>3
  <1>5. IsInjective(k)
    BY <1>1, <1>3 DEF IsInjective
  <1> HIDE DEF k
  <1>6. FirstKey \in [FirstSources -> 0..(n - 1)]
    BY <1>4, <1>5 DEF FirstKey
  <1> QED BY <1>1, <1>6

\* A rotate finds a name: there are as many as commands, and each of the others
\* has made one at most.
LEMMA FreshNameFound ==
    ASSUME Types, NamesMade, NEW c \in Cmds, pc[c] = "store", NEW s \in Sources
    PROVE  /\ FreshName(s) \in Vars /\ FreshName(s)[1] = s
           /\ file[FreshName(s)] = None
  <1> DEFINE N == Cardinality(Cmds)
             Free == {n \in 1..N : file[<<s, n>>] = None}
  <1>1. N \in Nat /\ IsFiniteSet(Cmds)
    BY SecretsConstants, FS_CardinalityType
  <1>2. Free # {}
    <2> SUFFICES ASSUME Free = {} PROVE FALSE
      OBVIOUS
    <2> DEFINE f == [n \in 1..N |-> CHOOSE d \in Cmds \ {c} : new[d] = <<s, n>>]
    <2>1. ASSUME NEW n \in 1..N PROVE \E d \in Cmds \ {c} : new[d] = <<s, n>>
      <3>1. file[<<s, n>>] # None
        BY <2>1
      <3>2. PICK d \in Cmds : Past(d, <<s, n>>)
        BY <3>1 DEF NamesMade, Made
      <3> QED BY <3>2 DEF Past
    <2>2. \A n \in 1..N : f[n] \in Cmds \ {c} /\ new[f[n]] = <<s, n>>
      BY <2>1
    <2>3. f \in [1..N -> Cmds \ {c}]
      BY <2>2
    <2> HIDE DEF f
    <2>4. IsFiniteSet(Cmds \ {c}) /\ Cardinality(Cmds \ {c}) = N - 1
      BY <1>1, FS_RemoveElement
    <2>5. IsFiniteSet(1..N) /\ Cardinality(1..N) = N
      BY <1>1, FS_Interval
    <2>6. Cardinality(Cmds \ {c}) < Cardinality(1..N)
      BY <1>1, <2>4, <2>5
    <2>7. PICK x, y \in 1..N : x # y /\ f[x] = f[y]
      <3> DEFINE A == 1..N
                 B == Cmds \ {c}
      <3>1. f \in [A -> B] /\ IsFiniteSet(A) /\ IsFiniteSet(B) /\ Cardinality(B) < Cardinality(A)
        BY <2>3, <2>4, <2>5, <2>6
      <3> HIDE DEF A, B
      <3>2. \E x, y \in A : x # y /\ f[x] = f[y]
        BY <3>1, FS_PigeonHole
      <3> QED BY <3>2 DEF A
    <2> QED BY <2>2, <2>7
  <1>3. Min(Free) \in Free
    <2>1. Free \in SUBSET Nat
      BY <1>1
    <2> HIDE DEF Free
    <2> QED BY <1>2, <2>1, MinIn
  <1>4. FreshName(s) = <<s, Min(Free)>>
    BY DEF FreshName
  <1> HIDE DEF Free
  <1>5. Min(Free) \in 1..N /\ file[<<s, Min(Free)>>] = None
    BY <1>3 DEF Free
  <1>6. Min(Free) \in 0..N
    BY <1>1, <1>5
  <1> QED BY <1>4, <1>5, <1>6 DEF Vars
-----------------------------------------------------------------------------
(* the daemon, which writes nothing *)

\* What the daemon does leaves the commands and what they have written alone.
LEMMA DiskStands ==
    ASSUME IndInv, UNCHANGED <<disk, command, window, cut, gone, overlap, torn>>
    PROVE  /\ Types' /\ Uris(conf)' /\ Backed(conf)' /\ WorkFits' /\ RemoveFits' /\ NewFits'
           /\ NamesMade' /\ WindowTrue' /\ ((synced' => synced) => FillFits')
  <1>1. /\ Types /\ Uris(conf) /\ Backed(conf) /\ WorkFits /\ RemoveFits /\ NewFits
        /\ NamesMade /\ WindowTrue /\ FillFits
    BY DEF IndInv
  <1>2. Working' = Working /\ Filling' = Filling
    BY DEF Working, Filling, command
  <1>3. Types'
    BY <1>1 DEF Types, disk, command
  <1>4. Uris(conf)' /\ Backed(conf)'
    BY <1>1 DEF Uris, Backed, disk
  <1>5. WorkFits'
    BY <1>1, <1>2 DEF WorkFits, Uris, Backed, disk, command
  <1>6. RemoveFits' /\ NewFits' /\ NamesMade'
    BY <1>1 DEF RemoveFits, NewFits, NamesMade, Made, Past, Snapping, disk, command
  <1>7. WindowTrue'
    BY <1>1 DEF WindowTrue, Filling, Snapping, disk, command
  <1>8. (synced' => synced) => FillFits'
    BY <1>1 DEF FillFits, Filling, disk, command
  <1> QED BY <1>3, <1>4, <1>5, <1>6, <1>7, <1>8

\* A reload, and a fetch, which fills the cache of a Vault secret.
LEMMA ReloadKeeps ==
    ASSUME IndInv, Reload \/ \E s \in Vault : Fetch(s)
    PROVE  IndInv'
  <1>1. /\ UNCHANGED <<disk, command, env, history>> /\ Synced
        /\ cfg' = cfg \/ cfg' = conf
    BY DEF Reload, Fetch, IndInv
  <1>2. Synced'
    BY <1>1 DEF Synced, disk, history
  <1>3. UNCHANGED <<disk, command, window, cut, gone, overlap, torn>> /\ synced' = synced
    BY <1>1 DEF history
  <1> QED BY <1>2, <1>3, DiskStands DEF IndInv

\* A start takes the files as they are, or fails; it fails while a remove alone has
\* the env file truncated, since config.json still names what it removes.
LEMMA RestartKeeps == ASSUME IndInv, Restart PROVE IndInv'
  <1>1. /\ UNCHANGED <<disk, command, window, cut, gone, overlap, torn>>
        /\ up' = Readable(conf, file) /\ synced' = up'
        /\ env' = IF up' THEN file ELSE NoKeys
        /\ cfg' = IF up' THEN conf ELSE [s \in Sources |-> <<>>]
    BY DEF Restart
  <1>2. Synced'
    BY <1>1 DEF Synced, disk
  <1>3. FillFits'
    <2> SUFFICES ASSUME ~overlap, Filling PROVE ~synced' /\ \A v \in Vars : file[v] = None
      BY <1>1 DEF FillFits, Filling, disk, command
    <2>1. \A v \in Vars : file[v] = None
      BY DEF IndInv, FillFits
    <2>2. PICK c \in Cmds : pc[c] = "fill"
      BY DEF Filling
    <2>3. c \in Working /\ src[c] \notin Vault /\ op[c] = "remove"
      BY <2>2 DEF Working, IndInv, RemoveFits, Snapping
    <2>4. src[c] \in Sources /\ Uris(conf) /\ conf[src[c]] # <<>>
      BY <2>3 DEF IndInv, WorkFits
    <2>5. conf[src[c]] \in Seq(Vars)
      BY <2>4 DEF Uris
    <2>6. conf[src[c]][1] \in Vars /\ conf[src[c]][1] \in ToSet(conf[src[c]])
      BY <2>4, <2>5 DEF ToSet
    <2>7. conf[src[c]][1] \in EnvUris(conf)
      BY <2>3, <2>4, <2>6 DEF EnvUris
    <2> QED BY <1>1, <2>1, <2>6, <2>7 DEF Readable
  <1> QED BY <1>1, <1>2, <1>3, DiskStands DEF IndInv

-----------------------------------------------------------------------------
(* steps of commands *)

\* What was made stays made as a command goes on.
LEMMA MadeStays ==
    ASSUME NEW c \in Cmds,
           \A d \in Cmds : d # c => pc'[d] = pc[d] /\ new'[d] = new[d] /\ op'[d] = op[d],
           \/ pc[c] \in {"new", "store", "append"} \/ op[c] = "remove"
           \/ pc'[c] \notin {"new", "store", "append"} /\ new'[c] = new[c] /\ op'[c] = op[c]
    PROVE  \A z \in Sources : \A n \in 1..Cardinality(Cmds) :
             (\E d \in Cmds : Past(d, <<z, n>>)) => (\E d \in Cmds : Past(d, <<z, n>>)')
  <1> SUFFICES ASSUME NEW z \in Sources, NEW n \in 1..Cardinality(Cmds),
                      NEW d \in Cmds, Past(d, <<z, n>>)
               PROVE  Past(d, <<z, n>>)'
    OBVIOUS
  <1>1. CASE d = c
    BY <1>1 DEF Past
  <1>2. CASE d # c
    BY <1>2 DEF Past
  <1> QED BY <1>1, <1>2

\* A command that ends leaves what it has written.
LEMMA EndsKeeps ==
    ASSUME IndInv, NEW c \in Cmds, pc[c] # "new", At(c, "done"),
           UNCHANGED <<disk, op, src, raw, new, minted, up, env, cfg, window, cut, gone, overlap>>,
           snap' \in {snap, [snap EXCEPT ![c] = None]}, nth' \in {nth, [nth EXCEPT ![c] = 0]},
           torn \/ pc[c] = "fill" => torn', synced' => synced
    PROVE  IndInv'
  <1>1. /\ Types /\ Uris(conf) /\ Backed(conf) /\ WorkFits /\ RemoveFits /\ NewFits
        /\ NamesMade /\ WindowTrue /\ FillFits /\ Synced
    BY DEF IndInv
  <1>2. /\ pc' \in [Cmds -> WorkAt \cup {"new", "print", "done"}] /\ pc'[c] = "done"
        /\ \A d \in Cmds : d # c => pc'[d] = pc[d]
    BY <1>1 DEF At, Types, WorkAt
  <1>3. /\ nth' \in [Cmds -> Nat] /\ snap' \in [Cmds -> EnvFile \cup {None}]
        /\ \A d \in Cmds : d # c => nth'[d] = nth[d] /\ snap'[d] = snap[d]
    BY <1>1 DEF Types
  <1>4. Working' \subseteq Working /\ (Filling' => Filling)
    BY <1>2 DEF Working, Filling
  <1>5. Types'
    BY <1>1, <1>2, <1>3 DEF Types, disk
  <1>6. Uris(conf)' /\ Backed(conf)'
    BY <1>1 DEF Uris, Backed, disk
  <1>7. WorkFits'
    BY <1>1, <1>4 DEF WorkFits, Uris, Backed, disk
  <1>8. RemoveFits' /\ NewFits'
    BY <1>1, <1>2, <1>3 DEF RemoveFits, NewFits, Snapping, disk
  <1>9. NamesMade'
    <2>2. \A z \in Sources : \A n \in 1..Cardinality(Cmds) :
            (\E d \in Cmds : Past(d, <<z, n>>)) => (\E d \in Cmds : Past(d, <<z, n>>)')
      BY <1>2, <1>3, MadeStays
    <2>3. Made(file)'
      <3>1. Made(file) /\ file' = file
        BY <1>1 DEF NamesMade, disk
      <3> QED BY <2>2, <3>1 DEF Made
    <2>4. ASSUME NEW d \in Cmds, Snapping(d)' PROVE Made(snap[d])'
      <3>1. Snapping(d) /\ snap'[d] = snap[d]
        BY <1>2, <1>3, <2>4 DEF Snapping
      <3>2. Made(snap[d])
        BY <1>1, <3>1 DEF NamesMade
      <3> QED BY <2>2, <3>1, <3>2 DEF Made
    <2> QED BY <2>3, <2>4 DEF NamesMade
  <1>10. WindowTrue'
    <2> SUFFICES ASSUME ~overlap, ~torn'
                 PROVE  /\ ~Filling' => Leads(file, conf, window, cut)
                        /\ \A d \in Cmds : Snapping(d)' => Leads(snap'[d], conf, window, cut)
      BY DEF WindowTrue, disk
    <2>1. ~torn /\ pc[c] # "fill"
      OBVIOUS
    <2>2. ~Filling' => ~Filling
      BY <1>2, <2>1 DEF Filling
    <2>3. \A d \in Cmds : Snapping(d)' => d # c /\ Snapping(d) /\ snap'[d] = snap[d]
      BY <1>2, <1>3 DEF Snapping
    <2> QED BY <1>1, <2>1, <2>2, <2>3 DEF WindowTrue
  <1>11. FillFits' /\ Synced'
    BY <1>1, <1>4 DEF FillFits, Synced, disk
  <1> QED BY <1>5, <1>6, <1>7, <1>8, <1>9, <1>10, <1>11 DEF IndInv

\* A command begins with what is saved, and notes whether it is alone.
LEMMA LoadKeeps ==
    ASSUME IndInv, NEW c \in Cmds, NEW o \in {"add", "rotate", "remove"}, NEW s \in Sources,
           Load(c, o, s)
    PROVE  IndInv'
  <1>1. /\ Types /\ Uris(conf) /\ Backed(conf) /\ WorkFits /\ RemoveFits /\ NewFits
        /\ NamesMade /\ WindowTrue /\ FillFits /\ Synced
    BY DEF IndInv
  <1>2. /\ pc[c] = "new" /\ op' = [op EXCEPT ![c] = o] /\ src' = [src EXCEPT ![c] = s]
        /\ raw' = [raw EXCEPT ![c] = conf]
        /\ UNCHANGED <<disk, new, nth, snap, minted, daemon, window, cut, gone, torn, synced>>
        /\ overlap' = (overlap \/ Working \ {c} # {})
    BY DEF Load
  <1>3. /\ pc' \in [Cmds -> WorkAt \cup {"new", "print", "done"}]
        /\ \A d \in Cmds : d # c => pc'[d] = pc[d]
        /\ pc'[c] \in {"store", "save", "done"}
        /\ pc'[c] # "done" => (o = "add" <=> conf[s] = <<>>)
        /\ pc'[c] = "store" /\ o = "remove" => s \notin Vault
        /\ pc'[c] = "save" => o = "remove"
    <2> DEFINE w == IF ~(o = "add" <=> conf[s] = <<>>) THEN "done"
                    ELSE IF o = "remove" /\ s \in Vault THEN "save" ELSE "store"
    <2>1. pc' = [pc EXCEPT ![c] = w]
      BY DEF Load, At
    <2>2. /\ w \in {"store", "save", "done"}
          /\ w # "done" => (o = "add" <=> conf[s] = <<>>)
          /\ w = "store" /\ o = "remove" => s \notin Vault
          /\ w = "save" => o = "remove"
      OBVIOUS
    <2> HIDE DEF w
    <2>3. pc'[c] = w /\ \A d \in Cmds : d # c => pc'[d] = pc[d]
      BY <1>1, <2>1 DEF Types
    <2>4. pc' \in [Cmds -> WorkAt \cup {"new", "print", "done"}]
      BY <1>1, <2>1, <2>2 DEF Types, WorkAt
    <2> QED BY <2>2, <2>3, <2>4
  <1>4. /\ op'[c] = o /\ src'[c] = s /\ raw'[c] = conf
        /\ \A d \in Cmds : d # c => op'[d] = op[d] /\ src'[d] = src[d] /\ raw'[d] = raw[d]
    BY <1>1, <1>2 DEF Types
  <1>5. Types'
    <2>1. op' \in [Cmds -> {"add", "rotate", "remove", None}] /\ src' \in [Cmds -> Sources \cup {None}]
      BY <1>1, <1>2 DEF Types
    <2>2. raw' \in [Cmds -> [Sources -> Seq(Vars)] \cup {None}]
      BY <1>1, <1>2 DEF Types
    <2> QED BY <1>1, <1>2, <1>3, <2>1, <2>2 DEF Types, disk
  <1>6. Uris(conf)' /\ Backed(conf)'
    BY <1>1, <1>2 DEF Uris, Backed, disk
  <1>7. WorkFits'
    <2> SUFFICES ASSUME NEW d \in Working'
                 PROVE  /\ src'[d] \in Sources /\ op'[d] \in {"add", "rotate", "remove"}
                        /\ Uris(raw[d])' /\ Backed(raw[d])'
                        /\ op'[d] = "add" <=> raw'[d][src'[d]] = <<>>
                        /\ ~overlap' => raw'[d] = conf' /\ \A e \in Working' : e = d
      BY DEF WorkFits
    <2>1. d \in Cmds /\ conf' = conf
      BY <1>2 DEF Working, disk
    <2>2. ~overlap' => Working' \subseteq {c}
      BY <1>2, <1>3 DEF Working
    <2>3. CASE d = c
      <3>1. pc'[c] # "done"
        BY <2>3 DEF Working
      <3>2. Uris(raw[d])' /\ Backed(raw[d])'
        BY <1>4, <1>6, <2>1, <2>3 DEF Uris, Backed
      <3> QED BY <1>3, <1>4, <2>1, <2>2, <2>3, <3>1, <3>2
    <2>4. CASE d # c
      <3>1. d \in Working /\ overlap'
        BY <1>2, <1>3, <2>1, <2>4 DEF Working
      <3>2. Uris(raw[d])' /\ Backed(raw[d])'
        BY <1>1, <1>2, <1>4, <2>1, <2>4, <3>1 DEF WorkFits, Uris, Backed, disk
      <3> QED BY <1>1, <1>4, <2>1, <2>4, <3>1, <3>2 DEF WorkFits
    <2> QED BY <2>3, <2>4
  <1>8. RemoveFits'
    <2>1. pc'[c] = "store" /\ o = "remove" => nth'[c] = 0 /\ 0 < Len(conf[s])
      <3>1. pc'[c] = "store" /\ o = "remove" => conf[s] # <<>> /\ conf[s] \in Seq(Vars)
        BY <1>1, <1>3 DEF Uris
      <3> QED BY <1>1, <1>2, <3>1 DEF RemoveFits
    <2>2. pc'[c] = "store" /\ op'[c] = "remove" =>
              src'[c] \notin Vault /\ nth'[c] < Len(raw'[c][src'[c]])
      BY <1>3, <1>4, <2>1
    <2> QED BY <1>1, <1>2, <1>3, <1>4, <2>2 DEF RemoveFits, Snapping
  <1>9. NewFits'
    BY <1>1, <1>2, <1>3, <1>4 DEF NewFits, disk
  <1>10. NamesMade'
    <2>2. \A z \in Sources : \A n \in 1..Cardinality(Cmds) :
            (\E d \in Cmds : Past(d, <<z, n>>)) => (\E d \in Cmds : Past(d, <<z, n>>)')
      BY <1>2, <1>3, <1>4, MadeStays
    <2>3. Made(file)'
      <3>1. Made(file) /\ file' = file
        BY <1>1, <1>2 DEF NamesMade, disk
      <3> QED BY <2>2, <3>1 DEF Made
    <2>4. ASSUME NEW d \in Cmds, Snapping(d)' PROVE Made(snap[d])'
      <3>1. Snapping(d) /\ snap'[d] = snap[d]
        BY <1>2, <1>3, <2>4 DEF Snapping
      <3>2. Made(snap[d])
        BY <1>1, <3>1 DEF NamesMade
      <3> QED BY <2>2, <3>1, <3>2 DEF Made
    <2> QED BY <2>3, <2>4 DEF NamesMade
  <1>11. WindowTrue' /\ FillFits'
    <2>1. ASSUME ~overlap', NEW d \in Cmds PROVE ~overlap /\ ~Snapping(d) /\ ~Snapping(d)'
      <3>1. ~overlap /\ Working \subseteq {c} /\ c \notin Working
        BY <1>2, <2>1 DEF Working
      <3>2. ~Snapping(d)
        BY <3>1 DEF Working, Snapping
      <3> QED BY <1>3, <3>1, <3>2 DEF Snapping
    <2>2. ~overlap' => ~overlap /\ ~Filling /\ ~Filling' /\ \A d \in Cmds : ~Snapping(d)'
      BY <1>2, <2>1 DEF Filling, Snapping
    <2> QED BY <1>1, <1>2, <2>2 DEF WindowTrue, FillFits, disk
  <1>12. Synced'
    BY <1>1, <1>2 DEF Synced, disk, daemon
  <1> QED BY <1>5, <1>6, <1>7, <1>8, <1>9, <1>10, <1>11, <1>12 DEF IndInv

\* What every step of a command at work keeps that leaves config.json alone: only
\* the command itself moves, and what goes from the env file is noted as gone.
LEMMA MovesKeep ==
    ASSUME IndInv, NEW c \in Working, NEW w \in WorkAt, At(c, w),
           new' \in [Cmds -> Vars \cup {None}], nth' \in [Cmds -> Nat],
           snap' \in [Cmds -> EnvFile \cup {None}],
           \A d \in Cmds : d # c => new'[d] = new[d] /\ nth'[d] = nth[d] /\ snap'[d] = snap[d],
           file' \in EnvFile, minted' \in Nat,
           \A v \in Vars : file'[v] = None /\ (v \in gone \/ file[v] # None) => v \in gone',
           UNCHANGED <<conf, op, src, raw, env, cfg, window, overlap, torn>>, cut' \subseteq Sources,
           synced' = FALSE \/ UNCHANGED <<synced, file>>
    PROVE  /\ Types' /\ Uris(conf)' /\ Backed(conf)' /\ WorkFits' /\ Synced'
           /\ pc'[c] = w /\ \A d \in Cmds : d # c => pc'[d] = pc[d]
           /\ Working' = Working
  <1>1. /\ Types /\ Uris(conf) /\ Backed(conf) /\ WorkFits /\ Synced /\ c \in Cmds
    BY DEF IndInv, Working
  <1>2. /\ pc' \in [Cmds -> WorkAt \cup {"new", "print", "done"}] /\ pc'[c] = w
        /\ \A d \in Cmds : d # c => pc'[d] = pc[d]
    BY <1>1 DEF At, Types
  <1>3. Working' = Working
    BY <1>2 DEF Working, WorkAt
  <1>4. Types'
    BY <1>1, <1>2 DEF Types
  <1>5. ASSUME NEW z \in Sources, NEW v \in Vars, file[v] = None => v \in gone
        PROVE  file'[v] = None => v \in gone'
    BY <1>5
  <1>6. Uris(conf)' /\ Backed(conf)'
    <2>1. \A z \in Sources : \A v \in ToSet(conf[z]) : v \in Vars
      BY <1>1 DEF Uris, ToSet
    <2> QED BY <1>1, <2>1 DEF Uris, Backed
  <1>7. WorkFits'
    <2> SUFFICES ASSUME NEW d \in Working'
                 PROVE  /\ src'[d] \in Sources /\ op'[d] \in {"add", "rotate", "remove"}
                        /\ Uris(raw[d])' /\ Backed(raw[d])'
                        /\ op'[d] = "add" <=> raw'[d][src'[d]] = <<>>
                        /\ ~overlap' => raw'[d] = conf' /\ \A e \in Working' : e = d
      BY DEF WorkFits
    <2>1. Uris(raw[d]) /\ Backed(raw[d])
      BY <1>1, <1>3 DEF WorkFits
    <2>2. \A z \in Sources : \A v \in ToSet(raw[d][z]) : v \in Vars
      BY <2>1 DEF Uris, ToSet
    <2>3. Uris(raw[d])' /\ Backed(raw[d])'
      BY <2>1, <2>2 DEF Uris, Backed
    <2> QED BY <1>1, <1>3, <2>3 DEF WorkFits
  <1>8. Synced'
    BY <1>1 DEF Synced
  <1> QED BY <1>2, <1>3, <1>4, <1>6, <1>7, <1>8

\* A step that leaves the env file alone, and snapshots and truncation as they are.
LEMMA FileStands ==
    ASSUME IndInv, NEW c \in Working, ~Snapping(c), ~Snapping(c)',
           \A d \in Cmds : d # c => pc'[d] = pc[d] /\ new'[d] = new[d],
           UNCHANGED <<conf, op, snap, file, window, cut, overlap, torn>>,
           synced' => synced, pc[c] \in {"new", "store", "append"}
    PROVE  NamesMade' /\ WindowTrue' /\ FillFits'
  <1>1. /\ Types /\ Uris(conf) /\ WorkFits /\ RemoveFits /\ NewFits /\ NamesMade /\ WindowTrue /\ FillFits
    BY DEF IndInv
  <1>2. /\ c \in Cmds
        /\ \A d \in Cmds : (Snapping(d)' <=> Snapping(d)) /\ (pc'[d] = "fill" <=> pc[d] = "fill")
    BY DEF Working, Snapping
  <1>3. Filling' <=> Filling
    BY <1>2 DEF Filling
  <1>4. \A z \in Sources : \A n \in 1..Cardinality(Cmds) :
          (\E d \in Cmds : Past(d, <<z, n>>)) => (\E d \in Cmds : Past(d, <<z, n>>)')
    BY <1>2, MadeStays
  <1>5. NamesMade'
    BY <1>1, <1>2, <1>4 DEF NamesMade, Made
  <1>6. WindowTrue' /\ FillFits'
    BY <1>1, <1>2, <1>3 DEF WindowTrue, FillFits
  <1> QED BY <1>5, <1>6

\* The name is its source's, and free when it is settled.
LEMMA NamesKeeps == ASSUME IndInv, NEW c \in Cmds, Names(c) PROVE IndInv'
  <1>1. /\ Types /\ Uris(conf) /\ WorkFits /\ RemoveFits /\ NewFits /\ NamesMade /\ WindowTrue /\ FillFits
    BY DEF IndInv
  <1>2. /\ pc[c] = "store" /\ op[c] # "remove" /\ src[c] \notin Vault /\ At(c, "append")
        /\ op[c] = "add" => file[<<src[c], 0>>] = None
        /\ new' = [new EXCEPT ![c] = IF op[c] = "add" THEN <<src[c], 0>> ELSE FreshName(src[c])]
        /\ UNCHANGED <<disk, op, src, raw, nth, snap, minted, daemon, history>>
    BY DEF Names
  <1>3. c \in Working /\ src[c] \in Sources
    BY <1>1, <1>2 DEF Working, WorkFits
  <1>4. <<src[c], 0>> \in Vars
    <2>1. Cardinality(Cmds) \in Nat
      BY SecretsConstants, FS_CardinalityType
    <2> QED BY <1>3, <2>1 DEF Vars
  <1>5. FreshName(src[c]) \in Vars /\ FreshName(src[c])[1] = src[c] /\ file[FreshName(src[c])] = None
    BY <1>1, <1>2, <1>3, FreshNameFound
  <1>6. /\ new'[c] \in Vars /\ new'[c][1] = src[c] /\ file[new'[c]] = None
        /\ new' \in [Cmds -> Vars \cup {None}]
        /\ \A d \in Cmds : d # c => new'[d] = new[d]
    <2> DEFINE v == IF op[c] = "add" THEN <<src[c], 0>> ELSE FreshName(src[c])
    <2>1. v \in Vars /\ v[1] = src[c] /\ file[v] = None
      BY <1>2, <1>4, <1>5
    <2> HIDE DEF v
    <2>2. new' = [new EXCEPT ![c] = v]
      BY <1>2 DEF v
    <2> QED BY <1>1, <2>1, <2>2 DEF Types
  <1>7. /\ Types' /\ Uris(conf)' /\ Backed(conf)' /\ WorkFits' /\ Synced'
        /\ pc'[c] = "append" /\ \A d \in Cmds : d # c => pc'[d] = pc[d]
    <2>1. /\ UNCHANGED <<conf, op, src, raw, env, cfg, window, overlap, torn, cut, synced, file,
                         minted, nth, snap, gone>>
      BY <1>2 DEF disk, daemon, history
    <2>2. \A v \in Vars : file[v] = None /\ (v \in gone \/ file[v] # None) => v \in gone
      OBVIOUS
    <2>3. "append" \in WorkAt
      BY DEF WorkAt
    <2>4. nth' \in [Cmds -> Nat] /\ snap' \in [Cmds -> EnvFile \cup {None}] /\ file' \in EnvFile
          /\ minted' \in Nat /\ cut' \subseteq Sources
      BY <1>1, <2>1 DEF Types
    <2> QED BY <1>2, <1>3, <1>6, <2>1, <2>2, <2>3, <2>4, MovesKeep
  <1>8. RemoveFits'
    BY <1>1, <1>2, <1>7 DEF RemoveFits, Snapping
  <1>9. NewFits'
    <2> SUFFICES ASSUME NEW d \in Cmds, pc'[d] \in {"append", "save"}, op[d] # "remove"
                 PROVE  /\ new'[d] \in Vars /\ new'[d][1] = src[d]
                        /\ pc'[d] = "append" => src[d] \notin Vault /\ (~overlap => file[new'[d]] = None)
                        /\ pc'[d] = "save" /\ src[d] \notin Vault /\ file[new'[d]] = None =>
                             new'[d] \in gone /\ overlap
      BY <1>2 DEF NewFits, disk, history
    <2>1. CASE d = c
      BY <1>2, <1>6, <1>7, <2>1
    <2>2. CASE d # c
      BY <1>1, <1>6, <1>7, <2>2 DEF NewFits
    <2> QED BY <2>1, <2>2
  <1>10. NamesMade' /\ WindowTrue' /\ FillFits'
    <2>1. ~Snapping(c) /\ ~Snapping(c)'
      BY <1>2, <1>7 DEF Snapping
    <2>2. UNCHANGED <<conf, op, snap, file, window, cut, overlap, torn, synced>>
      BY <1>2 DEF disk, history
    <2> QED BY <1>2, <1>3, <1>6, <1>7, <2>1, <2>2, FileStands
  <1> QED BY <1>7, <1>8, <1>9, <1>10 DEF IndInv

\* A secret of Vault is written under the source's URI.
LEMMA WritesVaultKeeps == ASSUME IndInv, NEW c \in Cmds, WritesVault(c) PROVE IndInv'
  <1>1. /\ Types /\ Uris(conf) /\ WorkFits /\ RemoveFits /\ NewFits /\ NamesMade /\ WindowTrue /\ FillFits
    BY DEF IndInv
  <1>2. /\ pc[c] = "store" /\ op[c] # "remove" /\ src[c] \in Vault /\ At(c, "save")
        /\ new' = [new EXCEPT ![c] = IF op[c] = "add" THEN <<src[c], 0>> ELSE Head(raw[c][src[c]])]
        /\ minted' = minted + 1 /\ synced' = FALSE
        /\ UNCHANGED <<conf, file, op, src, raw, nth, snap, daemon, window, cut, gone, overlap, torn>>
    BY DEF WritesVault
  <1>3. /\ c \in Working /\ src[c] \in Sources /\ Uris(raw[c])
        /\ op[c] # "add" => raw[c][src[c]] # <<>>
    BY <1>1, <1>2 DEF Working, WorkFits
  <1>4. <<src[c], 0>> \in Vars
    <2>1. Cardinality(Cmds) \in Nat
      BY SecretsConstants, FS_CardinalityType
    <2> QED BY <1>3, <2>1 DEF Vars
  <1>5. op[c] # "add" => Head(raw[c][src[c]]) \in Vars /\ Head(raw[c][src[c]])[1] = src[c]
    <2> SUFFICES ASSUME op[c] # "add"
                 PROVE  Head(raw[c][src[c]]) \in Vars /\ Head(raw[c][src[c]])[1] = src[c]
      OBVIOUS
    <2>1. raw[c][src[c]] \in Seq(Vars) /\ raw[c][src[c]] # <<>>
      BY <1>3 DEF Uris
    <2>2. Head(raw[c][src[c]]) \in Vars /\ Head(raw[c][src[c]]) \in ToSet(raw[c][src[c]])
      BY <2>1 DEF ToSet
    <2> QED BY <1>3, <2>2 DEF Uris
  <1>6. /\ new'[c] \in Vars /\ new'[c][1] = src[c]
        /\ new' \in [Cmds -> Vars \cup {None}]
        /\ \A d \in Cmds : d # c => new'[d] = new[d]
    <2> DEFINE v == IF op[c] = "add" THEN <<src[c], 0>> ELSE Head(raw[c][src[c]])
    <2>1. v \in Vars /\ v[1] = src[c]
      BY <1>4, <1>5
    <2> HIDE DEF v
    <2>2. new' = [new EXCEPT ![c] = v]
      BY <1>2 DEF v
    <2> QED BY <1>1, <2>1, <2>2 DEF Types
  <1>7. /\ Types' /\ Uris(conf)' /\ Backed(conf)' /\ WorkFits' /\ Synced'
        /\ pc'[c] = "save" /\ \A d \in Cmds : d # c => pc'[d] = pc[d]
    <2>1. /\ UNCHANGED <<conf, op, src, raw, env, cfg, window, overlap, torn, cut, file, nth, snap, gone>>
      BY <1>2 DEF daemon
    <2>2. \A v \in Vars : file[v] = None /\ (v \in gone \/ file[v] # None) => v \in gone
      OBVIOUS
    <2>3. "save" \in WorkAt
      BY DEF WorkAt
    <2>4. nth' \in [Cmds -> Nat] /\ snap' \in [Cmds -> EnvFile \cup {None}] /\ file' \in EnvFile
          /\ minted' \in Nat /\ cut' \subseteq Sources
      BY <1>1, <1>2, <2>1 DEF Types
    <2> QED BY <1>2, <1>3, <1>6, <2>1, <2>2, <2>3, <2>4, MovesKeep
  <1>8. RemoveFits'
    BY <1>1, <1>2, <1>7 DEF RemoveFits, Snapping
  <1>9. NewFits'
    <2> SUFFICES ASSUME NEW d \in Cmds, pc'[d] \in {"append", "save"}, op[d] # "remove"
                 PROVE  /\ new'[d] \in Vars /\ new'[d][1] = src[d]
                        /\ pc'[d] = "append" => src[d] \notin Vault /\ (~overlap => file[new'[d]] = None)
                        /\ pc'[d] = "save" /\ src[d] \notin Vault /\ file[new'[d]] = None =>
                             new'[d] \in gone /\ overlap
      BY <1>2 DEF NewFits
    <2>1. CASE d = c
      BY <1>2, <1>6, <1>7, <2>1
    <2>2. CASE d # c
      BY <1>1, <1>6, <1>7, <2>2 DEF NewFits
    <2> QED BY <2>1, <2>2
  <1>10. NamesMade' /\ WindowTrue' /\ FillFits'
    <2>1. ~Snapping(c) /\ ~Snapping(c)'
      BY <1>2, <1>7 DEF Snapping
    <2> QED BY <1>2, <1>3, <1>6, <1>7, <2>1, FileStands
  <1> QED BY <1>7, <1>8, <1>9, <1>10 DEF IndInv

\* While a command is alone at work no other one is.
LEMMA Alone ==
    ASSUME IndInv, NEW c \in Working, ~overlap, NEW d \in Cmds, d # c
    PROVE  pc[d] \notin WorkAt
  <1>1. d \notin Working
    BY DEF IndInv, WorkFits
  <1> QED BY <1>1 DEF Working, WorkAt

\* The line appended is of a name that leads nowhere yet, if the command is alone.
LEMMA AppendsKeeps == ASSUME IndInv, NEW c \in Cmds, Appends(c) PROVE IndInv'
  <1>1. /\ Types /\ Uris(conf) /\ WorkFits /\ RemoveFits /\ NewFits /\ NamesMade /\ WindowTrue /\ FillFits
    BY DEF IndInv
  <1>2. /\ pc[c] = "append" /\ At(c, "save")
        /\ file' = [file EXCEPT ![new[c]] = minted] /\ gone' = (gone \cup Held(file)) \ Held(file')
        /\ minted' = minted + 1 /\ synced' = FALSE
        /\ UNCHANGED <<conf, vault, op, src, raw, new, nth, snap, daemon, window, cut, overlap, torn>>
    BY DEF Appends, Writes
  <1>3. c \in Working /\ op[c] # "remove" /\ new[c] \in Vars /\ (~overlap => file[new[c]] = None)
    BY <1>1, <1>2 DEF Working, RemoveFits, NewFits
  <1>4. /\ file' \in EnvFile /\ file'[new[c]] # None
        /\ \A v \in Vars : v # new[c] => file'[v] = file[v]
        /\ \A v \in Vars : file'[v] = None => file[v] = None
    <2>1. file \in EnvFile /\ minted \in Nat /\ minted # None
      BY <1>1, SecretsConstants DEF Types
    <2>2. file' \in EnvFile /\ file'[new[c]] = minted /\ \A v \in Vars : v # new[c] => file'[v] = file[v]
      BY <1>2, <1>3, <2>1 DEF EnvFile
    <2> QED BY <2>1, <2>2
  <1>5. \A v \in Vars : file'[v] = None /\ (v \in gone \/ file[v] # None) => v \in gone'
    BY <1>2 DEF Held
  <1>6. /\ Types' /\ Uris(conf)' /\ Backed(conf)' /\ WorkFits' /\ Synced'
        /\ pc'[c] = "save" /\ \A d \in Cmds : d # c => pc'[d] = pc[d]
    <2>1. "save" \in WorkAt
      BY DEF WorkAt
    <2>2. /\ new' \in [Cmds -> Vars \cup {None}] /\ nth' \in [Cmds -> Nat]
          /\ snap' \in [Cmds -> EnvFile \cup {None}] /\ minted' \in Nat /\ cut' \subseteq Sources
      BY <1>1, <1>2 DEF Types
    <2>3. UNCHANGED <<conf, op, src, raw, new, nth, snap, env, cfg, window, overlap, torn>>
      BY <1>2 DEF daemon
    <2> QED BY <1>2, <1>3, <1>4, <1>5, <2>1, <2>2, <2>3, MovesKeep
  <1>7. RemoveFits'
    BY <1>1, <1>2, <1>6 DEF RemoveFits, Snapping
  <1>8. NewFits'
    <2> SUFFICES ASSUME NEW d \in Cmds, pc'[d] \in {"append", "save"}, op[d] # "remove"
                 PROVE  /\ new[d] \in Vars /\ new[d][1] = src[d]
                        /\ pc'[d] = "append" => src[d] \notin Vault /\ (~overlap => file'[new[d]] = None)
                        /\ pc'[d] = "save" /\ src[d] \notin Vault /\ file'[new[d]] = None =>
                             new[d] \in gone' /\ overlap
      BY <1>2 DEF NewFits
    <2>1. CASE d = c
      BY <1>1, <1>2, <1>3, <1>4, <1>6, <2>1 DEF NewFits
    <2>2. CASE d # c
      <3>1. /\ new[d] \in Vars /\ new[d][1] = src[d] /\ pc'[d] = pc[d]
            /\ pc[d] = "append" => src[d] \notin Vault
            /\ pc[d] = "save" /\ src[d] \notin Vault /\ file[new[d]] = None => new[d] \in gone /\ overlap
        BY <1>1, <1>6, <2>2 DEF NewFits
      <3>2. pc[d] = "append" => overlap
        BY <1>3, <2>2, Alone DEF WorkAt
      <3> QED BY <1>4, <1>5, <3>1, <3>2
    <2> QED BY <2>1, <2>2
  <1>9. NamesMade'
    <2>1. \A z \in Sources : \A n \in 1..Cardinality(Cmds) :
            (\E d \in Cmds : Past(d, <<z, n>>)) => (\E d \in Cmds : Past(d, <<z, n>>)')
      BY <1>2, <1>6, MadeStays
    <2>2. Made(file)'
      <3> SUFFICES ASSUME NEW z \in Sources, NEW n \in 1..Cardinality(Cmds), file'[<<z, n>>] # None
                   PROVE  \E d \in Cmds : Past(d, <<z, n>>)'
        BY DEF Made
      <3>1. CASE <<z, n>> = new[c]
        BY <1>2, <1>3, <1>6, <3>1 DEF Past
      <3>2. CASE <<z, n>> # new[c]
        <4>1. <<z, n>> \in Vars
          <5>1. Cardinality(Cmds) \in Nat
            BY SecretsConstants, FS_CardinalityType
          <5> QED BY <5>1 DEF Vars
        <4>2. file[<<z, n>>] # None
          BY <1>4, <3>2, <4>1
        <4> QED BY <1>1, <2>1, <4>2 DEF NamesMade, Made
      <3> QED BY <3>1, <3>2
    <2>3. ASSUME NEW d \in Cmds, Snapping(d)' PROVE Made(snap[d])'
      <3>1. Snapping(d) /\ snap'[d] = snap[d]
        BY <1>2, <1>6, <2>3 DEF Snapping
      <3>2. Made(snap[d])
        BY <1>1, <3>1 DEF NamesMade
      <3> QED BY <2>1, <3>1, <3>2 DEF Made
    <2> QED BY <2>2, <2>3 DEF NamesMade
  <1>10. WindowTrue' /\ FillFits'
    <2>1. ASSUME ~overlap, NEW d \in Cmds PROVE ~Snapping(d) /\ ~Snapping(d)'
      <3>1. CASE d = c
        BY <1>2, <1>6, <3>1 DEF Snapping
      <3>2. CASE d # c
        BY <1>3, <1>6, <2>1, <3>2, Alone DEF WorkAt, Snapping
      <3> QED BY <3>1, <3>2
    <2>2. ~overlap => ~Filling /\ ~Filling'
      BY <2>1 DEF Filling, Snapping
    <2>3. ASSUME ~overlap, ~torn PROVE Leads(file', conf, window, cut)
      <3>1. Leads(file, conf, window, cut)
        BY <1>1, <2>2, <2>3 DEF WindowTrue
      <3>2. ASSUME NEW z \in Sources \ (Vault \cup cut), NEW i \in DOMAIN conf[z]
            PROVE  file'[conf[z][i]] = file[conf[z][i]]
        <4>1. conf[z][i] \in Vars
          BY <1>1 DEF Uris
        <4>2. file[conf[z][i]] # None
          BY <3>1 DEF Leads
        <4> QED BY <1>3, <1>4, <2>3, <4>1, <4>2
      <3> QED BY <3>1, <3>2 DEF Leads
    <2> QED BY <1>2, <2>1, <2>2, <2>3 DEF WindowTrue, FillFits
  <1> QED BY <1>6, <1>7, <1>8, <1>9, <1>10 DEF IndInv

\* What remove has read is the env file as it is.
LEMMA RemoveReadsKeeps == ASSUME IndInv, NEW c \in Cmds, RemoveReads(c) PROVE IndInv'
  <1>1. /\ Types /\ Uris(conf) /\ WorkFits /\ RemoveFits /\ NewFits /\ NamesMade /\ WindowTrue /\ FillFits
    BY DEF IndInv
  <1>2. /\ pc[c] = "store" /\ op[c] = "remove" /\ At(c, "truncate")
        /\ nth' = [nth EXCEPT ![c] = nth[c] + 1] /\ snap' = [snap EXCEPT ![c] = file]
        /\ UNCHANGED <<disk, op, src, raw, new, minted, daemon, history>>
    BY DEF RemoveReads
  <1>3. /\ c \in Working /\ src[c] \notin Vault /\ nth[c] \in Nat /\ src[c] \in Sources
        /\ nth[c] < Len(raw[c][src[c]]) /\ raw[c][src[c]] \in Seq(Vars)
    BY <1>1, <1>2 DEF Working, RemoveFits, Types, WorkFits, Uris
  <1>4. /\ nth' \in [Cmds -> Nat] /\ nth'[c] = nth[c] + 1
        /\ snap' \in [Cmds -> EnvFile \cup {None}] /\ snap'[c] = file
        /\ \A d \in Cmds : d # c => nth'[d] = nth[d] /\ snap'[d] = snap[d]
    BY <1>1, <1>2, <1>3 DEF Types
  <1>5. UNCHANGED <<conf, op, src, raw, new, env, cfg, window, overlap, torn, cut, synced, file, minted, gone>>
    BY <1>2 DEF disk, daemon, history
  <1>6. /\ Types' /\ Uris(conf)' /\ Backed(conf)' /\ WorkFits' /\ Synced'
        /\ pc'[c] = "truncate" /\ \A d \in Cmds : d # c => pc'[d] = pc[d]
    <2>1. "truncate" \in WorkAt
      BY DEF WorkAt
    <2>2. /\ new' \in [Cmds -> Vars \cup {None}] /\ file' \in EnvFile /\ minted' \in Nat
          /\ cut' \subseteq Sources
      BY <1>1, <1>5 DEF Types
    <2> QED BY <1>2, <1>3, <1>4, <1>5, <2>1, <2>2, MovesKeep
  <1>7. RemoveFits'
    <2>1. nth'[c] \in 1..Len(raw[c][src[c]]) /\ snap'[c] \in EnvFile
      BY <1>1, <1>3, <1>4 DEF Types
    <2> QED BY <1>1, <1>2, <1>3, <1>4, <1>5, <1>6, <2>1 DEF RemoveFits, Snapping
  <1>8. NewFits'
    BY <1>1, <1>2, <1>5, <1>6 DEF NewFits
  <1>9. NamesMade'
    <2>1. \A z \in Sources : \A n \in 1..Cardinality(Cmds) :
            (\E d \in Cmds : Past(d, <<z, n>>)) => (\E d \in Cmds : Past(d, <<z, n>>)')
      BY <1>2, <1>5, <1>6, MadeStays
    <2>2. Made(file)'
      BY <1>1, <1>5, <2>1 DEF NamesMade, Made
    <2>3. ASSUME NEW d \in Cmds, Snapping(d)' PROVE Made(snap[d])'
      <3>1. CASE d = c
        <4>1. Made(file) /\ snap'[d] = file
          BY <1>1, <1>4, <3>1 DEF NamesMade
        <4> QED BY <2>1, <4>1 DEF Made
      <3>2. CASE d # c
        <4>1. Snapping(d) /\ snap'[d] = snap[d]
          BY <1>4, <1>6, <2>3, <3>2 DEF Snapping
        <4>2. Made(snap[d])
          BY <1>1, <4>1 DEF NamesMade
        <4> QED BY <2>1, <4>1, <4>2 DEF Made
      <3> QED BY <3>1, <3>2
    <2> QED BY <2>2, <2>3 DEF NamesMade
  <1>10. WindowTrue' /\ FillFits'
    <2>1. ASSUME ~overlap, NEW d \in Cmds, d # c PROVE ~Snapping(d) /\ ~Snapping(d)'
      BY <1>3, <1>6, <2>1, Alone DEF WorkAt, Snapping
    <2>2. ~overlap => ~Filling /\ ~Filling'
      BY <1>2, <1>6, <2>1 DEF Filling, Snapping
    <2>3. ASSUME ~overlap, ~torn
          PROVE  Leads(file, conf, window, cut) /\ Leads(snap'[c], conf, window, cut)
      BY <1>1, <1>4, <2>2, <2>3 DEF WindowTrue
    <2> QED BY <1>5, <2>1, <2>2, <2>3 DEF WindowTrue, FillFits
  <1> QED BY <1>6, <1>7, <1>8, <1>9, <1>10 DEF IndInv

\* With the file truncated, what remove has read is all there is.
LEMMA TruncatesKeeps == ASSUME IndInv, NEW c \in Cmds, Truncates(c) PROVE IndInv'
  <1>1. /\ Types /\ Uris(conf) /\ WorkFits /\ RemoveFits /\ NewFits /\ NamesMade /\ WindowTrue /\ FillFits
    BY DEF IndInv
  <1>2. /\ pc[c] = "truncate" /\ At(c, "fill")
        /\ file' = NoKeys /\ gone' = (gone \cup Held(file)) \ Held(file') /\ synced' = FALSE
        /\ UNCHANGED <<conf, vault, op, src, raw, new, nth, snap, minted, daemon, window, cut, overlap, torn>>
    BY DEF Truncates, Writes
  <1>3. c \in Working /\ Snapping(c) /\ op[c] = "remove"
    BY <1>1, <1>2 DEF Working, RemoveFits, Snapping
  <1>4. file' \in EnvFile /\ \A v \in Vars : file'[v] = None
    BY <1>2 DEF NoKeys, EnvFile
  <1>5. \A v \in Vars : file'[v] = None /\ (v \in gone \/ file[v] # None) => v \in gone'
    BY <1>2 DEF Held
  <1>6. /\ Types' /\ Uris(conf)' /\ Backed(conf)' /\ WorkFits' /\ Synced'
        /\ pc'[c] = "fill" /\ \A d \in Cmds : d # c => pc'[d] = pc[d]
    <2>1. "fill" \in WorkAt
      BY DEF WorkAt
    <2>2. /\ new' \in [Cmds -> Vars \cup {None}] /\ nth' \in [Cmds -> Nat]
          /\ snap' \in [Cmds -> EnvFile \cup {None}] /\ minted' \in Nat /\ cut' \subseteq Sources
      BY <1>1, <1>2 DEF Types, daemon
    <2>3. UNCHANGED <<conf, op, src, raw, new, nth, snap, env, cfg, window, overlap, torn>>
      BY <1>2 DEF daemon
    <2> QED BY <1>2, <1>3, <1>4, <1>5, <2>1, <2>2, <2>3, MovesKeep
  <1>7. RemoveFits'
    BY <1>1, <1>2, <1>3, <1>6 DEF RemoveFits, Snapping
  <1>8. NewFits'
    <2> SUFFICES ASSUME NEW d \in Cmds, pc'[d] \in {"append", "save"}, op[d] # "remove"
                 PROVE  /\ new[d] \in Vars /\ new[d][1] = src[d]
                        /\ pc'[d] = "append" => src[d] \notin Vault /\ (~overlap => file'[new[d]] = None)
                        /\ pc'[d] = "save" /\ src[d] \notin Vault /\ file'[new[d]] = None =>
                             new[d] \in gone' /\ overlap
      BY <1>2 DEF NewFits
    <2>1. d # c
      BY <1>2, <1>3
    <2>2. /\ new[d] \in Vars /\ new[d][1] = src[d] /\ pc'[d] = pc[d]
          /\ pc[d] = "append" => src[d] \notin Vault
          /\ pc[d] = "save" /\ src[d] \notin Vault /\ file[new[d]] = None => new[d] \in gone /\ overlap
      BY <1>1, <1>6, <2>1 DEF NewFits
    <2>3. overlap
      BY <1>3, <2>1, <2>2, Alone DEF WorkAt
    <2> QED BY <1>5, <2>2, <2>3
  <1>9. NamesMade'
    <2>1. \A z \in Sources : \A n \in 1..Cardinality(Cmds) :
            (\E d \in Cmds : Past(d, <<z, n>>)) => (\E d \in Cmds : Past(d, <<z, n>>)')
      BY <1>2, <1>3, <1>6, MadeStays
    <2>2. Made(file)'
      <3>1. Cardinality(Cmds) \in Nat
        BY SecretsConstants, FS_CardinalityType
      <3>2. \A z \in Sources : \A n \in 1..Cardinality(Cmds) : <<z, n>> \in Vars
        BY <3>1 DEF Vars
      <3> QED BY <1>4, <3>2 DEF Made
    <2>3. ASSUME NEW d \in Cmds, Snapping(d)' PROVE Made(snap[d])'
      <3>1. Snapping(d) /\ snap'[d] = snap[d]
        BY <1>2, <1>3, <1>6, <2>3 DEF Snapping
      <3>2. Made(snap[d])
        BY <1>1, <3>1 DEF NamesMade
      <3> QED BY <2>1, <3>1, <3>2 DEF Made
    <2> QED BY <2>2, <2>3 DEF NamesMade
  <1>10. WindowTrue'
    <2> SUFFICES ASSUME ~overlap, ~torn
                 PROVE  /\ ~Filling' => Leads(file', conf, window, cut)
                        /\ \A d \in Cmds : Snapping(d)' => Leads(snap[d], conf, window, cut)
      BY <1>2 DEF WindowTrue
    <2>1. Filling'
      BY <1>6 DEF Filling
    <2>2. \A d \in Cmds : Snapping(d)' => Snapping(d)
      BY <1>3, <1>6 DEF Snapping
    <2> QED BY <1>1, <2>1, <2>2 DEF WindowTrue
  <1>11. FillFits'
    BY <1>2, <1>4 DEF FillFits
  <1> QED BY <1>6, <1>7, <1>8, <1>9, <1>10, <1>11 DEF IndInv

\* What remove has read goes back, without one variable of its source.
LEMMA FillsKeeps == ASSUME IndInv, NEW c \in Cmds, Fills(c) PROVE IndInv'
  <1> DEFINE u == raw[c][src[c]][nth[c]]
  <1>1. /\ Types /\ Uris(conf) /\ WorkFits /\ RemoveFits /\ NewFits /\ NamesMade /\ WindowTrue /\ FillFits
    BY DEF IndInv
  <1>2. /\ pc[c] = "fill"
        /\ file' = [snap[c] EXCEPT ![u] = None]
        /\ gone' = (gone \cup Held(file)) \ Held(file') /\ synced' = FALSE
        /\ snap' = [snap EXCEPT ![c] = None] /\ cut' = cut \cup {src[c]}
        /\ UNCHANGED <<conf, vault, op, src, raw, new, minted, daemon, window, overlap, torn>>
    BY DEF Fills, Writes
  <1>a. /\ c \in Working /\ Snapping(c) /\ op[c] = "remove" /\ src[c] \in Sources /\ src[c] \notin Vault
        /\ nth[c] \in 1..Len(raw[c][src[c]]) /\ snap[c] \in EnvFile
        /\ u \in Vars /\ u[1] = src[c]
    <2>1. /\ c \in Working /\ Snapping(c) /\ op[c] = "remove" /\ src[c] \in Sources /\ src[c] \notin Vault
          /\ nth[c] \in 1..Len(raw[c][src[c]]) /\ snap[c] \in EnvFile /\ Uris(raw[c])
      BY <1>1, <1>2 DEF Working, RemoveFits, Snapping, WorkFits
    <2>2. raw[c][src[c]] \in Seq(Vars)
      BY <2>1 DEF Uris
    <2>3. u \in Vars /\ u \in ToSet(raw[c][src[c]])
      BY <2>1, <2>2 DEF ToSet
    <2> QED BY <2>1, <2>3 DEF Uris
  <1> HIDE DEF u
  <1>b. PICK w \in {"store", "save"} :
          /\ At(c, w) /\ nth' \in [Cmds -> Nat] /\ \A d \in Cmds : d # c => nth'[d] = nth[d]
          /\ w = "store" => nth'[c] < Len(raw[c][src[c]])
    <2>1. CASE nth[c] < Len(raw[c][src[c]])
      <3>1. At(c, "store") /\ nth' = nth
        BY <2>1 DEF Fills
      <3> QED BY <1>1, <2>1, <3>1 DEF Types
    <2>2. CASE ~(nth[c] < Len(raw[c][src[c]]))
      <3>1. At(c, "save") /\ nth' = [nth EXCEPT ![c] = 0]
        BY <2>2 DEF Fills
      <3>2. nth' \in [Cmds -> Nat] /\ \A d \in Cmds : d # c => nth'[d] = nth[d]
        BY <1>1, <3>1 DEF Types
      <3> QED BY <3>1, <3>2
    <2> QED BY <2>1, <2>2
  <1>c. /\ snap' \in [Cmds -> EnvFile \cup {None}]
        /\ \A d \in Cmds : d # c => snap'[d] = snap[d]
    BY <1>1, <1>2 DEF Types
  <1>3. c \in Working /\ Snapping(c) /\ op[c] = "remove"
    BY <1>a
  <1>4. /\ file' \in EnvFile /\ file'[u] = None
        /\ \A v \in Vars : v # u => file'[v] = snap[c][v]
    BY <1>2, <1>a DEF EnvFile
  <1>5. \A v \in Vars : file'[v] = None /\ (v \in gone \/ file[v] # None) => v \in gone'
    BY <1>2 DEF Held
  <1>6. /\ Types' /\ Uris(conf)' /\ Backed(conf)' /\ WorkFits' /\ Synced'
        /\ pc'[c] = w /\ \A d \in Cmds : d # c => pc'[d] = pc[d]
    <2>1. w \in WorkAt
      BY DEF WorkAt
    <2>2. new' \in [Cmds -> Vars \cup {None}] /\ minted' \in Nat /\ cut' \subseteq Sources
      BY <1>1, <1>2, <1>a DEF Types
    <2>3. UNCHANGED <<conf, op, src, raw, new, env, cfg, window, overlap, torn>>
      BY <1>2 DEF daemon
    <2>4. \A d \in Cmds : d # c => new'[d] = new[d] /\ nth'[d] = nth[d] /\ snap'[d] = snap[d]
      BY <1>b, <1>c, <2>3
    <2> QED BY <1>2, <1>3, <1>4, <1>5, <1>b, <1>c, <2>1, <2>2, <2>3, <2>4, MovesKeep
  <1>7. RemoveFits'
    BY <1>1, <1>2, <1>6, <1>a, <1>b, <1>c DEF RemoveFits, Snapping
  <1>8. NewFits'
    <2> SUFFICES ASSUME NEW d \in Cmds, pc'[d] \in {"append", "save"}, op[d] # "remove"
                 PROVE  /\ new[d] \in Vars /\ new[d][1] = src[d]
                        /\ pc'[d] = "append" => src[d] \notin Vault /\ (~overlap => file'[new[d]] = None)
                        /\ pc'[d] = "save" /\ src[d] \notin Vault /\ file'[new[d]] = None =>
                             new[d] \in gone' /\ overlap
      BY <1>2 DEF NewFits
    <2>1. d # c
      BY <1>2, <1>3
    <2>2. /\ new[d] \in Vars /\ new[d][1] = src[d] /\ pc'[d] = pc[d]
          /\ pc[d] = "append" => src[d] \notin Vault
          /\ pc[d] = "save" /\ src[d] \notin Vault /\ file[new[d]] = None => new[d] \in gone /\ overlap
      BY <1>1, <1>6, <2>1 DEF NewFits
    <2>3. overlap
      BY <1>3, <2>1, <2>2, Alone DEF WorkAt
    <2> QED BY <1>5, <2>2, <2>3
  <1>9. NamesMade'
    <2>1. \A z \in Sources : \A n \in 1..Cardinality(Cmds) :
            (\E d \in Cmds : Past(d, <<z, n>>)) => (\E d \in Cmds : Past(d, <<z, n>>)')
      BY <1>2, <1>3, <1>6, MadeStays
    <2>2. Made(file)'
      <3> SUFFICES ASSUME NEW z \in Sources, NEW n \in 1..Cardinality(Cmds), file'[<<z, n>>] # None
                   PROVE  \E d \in Cmds : Past(d, <<z, n>>)'
        BY DEF Made
      <3>1. <<z, n>> \in Vars
        <4>1. Cardinality(Cmds) \in Nat
          BY SecretsConstants, FS_CardinalityType
        <4> QED BY <4>1 DEF Vars
      <3>2. snap[c][<<z, n>>] # None
        BY <1>4, <3>1
      <3> QED BY <1>1, <1>3, <2>1, <3>2 DEF NamesMade, Made
    <2>3. ASSUME NEW d \in Cmds, Snapping(d)' PROVE Made(snap[d])'
      <3>1. Snapping(d) /\ snap'[d] = snap[d]
        BY <1>6, <1>c, <2>3 DEF Snapping
      <3>2. Made(snap[d])
        BY <1>1, <3>1 DEF NamesMade
      <3> QED BY <2>1, <3>1, <3>2 DEF Made
    <2> QED BY <2>2, <2>3 DEF NamesMade
  <1>10. WindowTrue' /\ FillFits'
    <2>1. ASSUME ~overlap, NEW d \in Cmds PROVE ~Snapping(d)'
      <3>1. CASE d = c
        BY <1>6, <3>1 DEF Snapping
      <3>2. CASE d # c
        BY <1>3, <1>6, <2>1, <3>2, Alone DEF WorkAt, Snapping
      <3> QED BY <3>1, <3>2
    <2>2. ~overlap => ~Filling'
      BY <2>1 DEF Filling, Snapping
    <2>3. ASSUME ~overlap, ~torn PROVE Leads(file', conf, window, cut')
      <3>1. Leads(snap[c], conf, window, cut)
        BY <1>1, <1>3, <2>3 DEF WindowTrue
      <3>2. ASSUME NEW z \in Sources \ (Vault \cup cut'), NEW i \in DOMAIN conf[z]
            PROVE  file'[conf[z][i]] = snap[c][conf[z][i]]
        <4>1. conf[z][i] \in Vars /\ conf[z][i][1] = z /\ z # src[c]
          BY <1>1, <1>2 DEF Uris, ToSet
        <4> QED BY <1>4, <1>a, <4>1
      <3>3. \A z \in Sources \ (Vault \cup cut') : z \in Sources \ (Vault \cup cut)
        BY <1>2
      <3> QED BY <3>1, <3>2, <3>3 DEF Leads
    <2> QED BY <1>2, <2>1, <2>2, <2>3 DEF WindowTrue, FillFits
  <1> QED BY <1>6, <1>7, <1>8, <1>9, <1>10 DEF IndInv

-----------------------------------------------------------------------------
(* steps that save the configuration *)

\* The last two of a window and one more.
LEMMA TwoNewest ==
    ASSUME NEW S, NEW W \in Seq(S), NEW x \in S
    PROVE  SubSeq(<<x>> \o W, 1, Min({2, Len(W) + 1})) = IF W = <<>> THEN <<x>> ELSE <<x, W[1]>>
  <1> DEFINE V == <<x>> \o W
  <1>1. V \in Seq(S) /\ Len(V) = Len(W) + 1 /\ V[1] = x /\ (W # <<>> => V[2] = W[1])
    OBVIOUS
  <1>2. Len(W) \in Nat /\ Min({2, Len(W) + 1}) = IF W = <<>> THEN 1 ELSE 2
    <2>1. Len(W) \in Nat /\ (W = <<>> <=> Len(W) = 0)
      OBVIOUS
    <2>2. Min({2, Len(W) + 1}) = IF Len(W) + 1 < 2 THEN Len(W) + 1 ELSE 2
      BY <2>1, MinOfTwo
    <2> QED BY <2>1, <2>2
  <1> HIDE DEF V
  <1>3. CASE W = <<>>
    <2>1. SubSeq(V, 1, 1) = <<x>>
      <3> DEFINE Q == SubSeq(V, 1, 1)
      <3>1. \A i \in 1..1 : V[i] \in S
        BY <1>1
      <3>2. Q \in Seq(S) /\ Len(Q) = 1 /\ \A i \in 1..1 : Q[i] = V[i]
        BY <3>1, SubSeqProperties
      <3> HIDE DEF Q
      <3>3. Q = <<x>>
        BY <1>1, <3>2
      <3> QED BY <3>3 DEF Q
    <2> QED BY <1>2, <1>3, <2>1 DEF V
  <1>4. CASE W # <<>>
    <2>1. SubSeq(V, 1, 2) = <<x, W[1]>>
      <3> DEFINE Q == SubSeq(V, 1, 2)
      <3>1. V[1] = x /\ V[2] = W[1] /\ W[1] \in S
        BY <1>1, <1>4
      <3>2. \A i \in 1..2 : V[i] \in S
        BY <3>1
      <3>3. Q \in Seq(S) /\ Len(Q) = 2 /\ \A i \in 1..2 : Q[i] = V[i]
        BY <3>2, SubSeqProperties
      <3> HIDE DEF Q
      <3>4. Q = <<x, W[1]>>
        BY <3>1, <3>3
      <3> QED BY <3>4 DEF Q
    <2> QED BY <1>2, <1>4, <2>1 DEF V
  <1> QED BY <1>3, <1>4

\* What a command saves is what it has read, but for the entry of its source.
LEMMA SavedFits ==
    ASSUME IndInv, NEW c \in Cmds, pc[c] = "save"
    PROVE  /\ Uris(Saved(c)) /\ src[c] \in Sources
           /\ \A z \in Sources : z # src[c] => Saved(c)[z] = raw[c][z]
           /\ op[c] = "add" => Saved(c)[src[c]] = <<new[c]>>
           /\ op[c] = "rotate" => Saved(c)[src[c]] = <<new[c], raw[c][src[c]][1]>>
           /\ op[c] = "remove" => Saved(c)[src[c]] = <<>>
  <1> DEFINE s == src[c]
             x == CASE op[c] = "add" -> <<new[c]>>
                    [] op[c] = "rotate" -> Trim(new[c], raw[c][s])
                    [] op[c] = "remove" -> <<>>
  <1>1. c \in Working
    BY DEF Working
  <1>2. /\ s \in Sources /\ Uris(raw[c]) /\ op[c] \in {"add", "rotate", "remove"}
        /\ op[c] = "add" <=> raw[c][s] = <<>>
        /\ op[c] # "remove" => new[c] \in Vars /\ new[c][1] = s
    BY <1>1 DEF IndInv, WorkFits, NewFits
  <1>3. raw[c][s] \in Seq(Vars) /\ \A u \in ToSet(raw[c][s]) : u[1] = s
    BY <1>2 DEF Uris
  <1>4. /\ op[c] = "add" => x = <<new[c]>>
        /\ op[c] = "rotate" => x = <<new[c], raw[c][s][1]>>
        /\ op[c] = "remove" => x = <<>>
    BY <1>2, <1>3 DEF Trim
  <1>5. x \in Seq(Vars) /\ \A u \in ToSet(x) : u[1] = s
    <2>1. CASE op[c] = "add"
      <3>1. x = <<new[c]>>
        BY <1>4, <2>1
      <3> HIDE DEF x
      <3> QED BY <1>2, <2>1, <3>1 DEF ToSet
    <2>2. CASE op[c] = "rotate"
      <3>1. x = <<new[c], raw[c][s][1]>>
        BY <1>4, <2>2
      <3>2. raw[c][s][1] \in Vars /\ raw[c][s][1][1] = s
        BY <1>2, <1>3, <2>2 DEF ToSet
      <3> HIDE DEF x
      <3> QED BY <1>2, <2>2, <3>1, <3>2 DEF ToSet
    <2>3. CASE op[c] = "remove"
      <3>1. x = <<>>
        BY <1>4, <2>3
      <3> HIDE DEF x
      <3> QED BY <3>1 DEF ToSet
    <2> QED BY <1>2, <2>1, <2>2, <2>3
  <1>6. Saved(c) = [raw[c] EXCEPT ![s] = x]
    BY DEF Saved
  <1> HIDE DEF x
  <1>7. raw[c] \in [Sources -> Seq(Vars)]
    BY <1>2 DEF Uris
  <1>8. /\ Saved(c) \in [Sources -> Seq(Vars)] /\ Saved(c)[s] = x
        /\ \A z \in Sources : z # s => Saved(c)[z] = raw[c][z]
    BY <1>2, <1>5, <1>6, <1>7
  <1>9. Uris(Saved(c))
    BY <1>2, <1>5, <1>8 DEF Uris
  <1> QED BY <1>2, <1>4, <1>8, <1>9

\* A save that succeeds.
LEMMA SavesKeeps ==
    ASSUME IndInv, NEW c \in Cmds, Save(c), Configured(Saved(c)) # {}
    PROVE  IndInv'
  <1> DEFINE s == src[c]
             k == Saved(c)
  <1>1. /\ Types /\ Uris(conf) /\ Backed(conf) /\ WorkFits /\ RemoveFits /\ NewFits /\ NamesMade
        /\ WindowTrue /\ FillFits
    BY DEF IndInv
  <1>2. /\ pc[c] = "save" /\ conf' = k /\ At(c, "print") /\ synced' = FALSE
        /\ window' = [window EXCEPT ![s] =
                IF op[c] = "remove" THEN <<>>
                ELSE SubSeq(<<Stored(s, new[c])>> \o @, 1, Min({2, Len(@) + 1}))]
        /\ cut' = IF op[c] = "remove" /\ ~overlap THEN cut \ {s} ELSE cut
        /\ UNCHANGED <<file, vault, op, src, raw, new, nth, snap, minted, daemon, gone, overlap, torn>>
    BY DEF Save
  <1>3. /\ Uris(k) /\ s \in Sources
        /\ \A z \in Sources : z # s => k[z] = raw[c][z]
        /\ op[c] = "add" => k[s] = <<new[c]>>
        /\ op[c] = "rotate" => k[s] = <<new[c], raw[c][s][1]>>
        /\ op[c] = "remove" => k[s] = <<>>
    BY <1>2, SavedFits
  <1> HIDE DEF k
  <1>4. c \in Working
    BY <1>2 DEF Working
  <1>5. /\ op[c] \in {"add", "rotate", "remove"} /\ Uris(raw[c]) /\ Backed(raw[c])
        /\ op[c] = "add" <=> raw[c][s] = <<>>
        /\ ~overlap => raw[c] = conf /\ \A d \in Working : d = c
    BY <1>1, <1>4 DEF WorkFits
  <1>6. /\ pc' \in [Cmds -> WorkAt \cup {"new", "print", "done"}] /\ pc'[c] = "print"
        /\ \A d \in Cmds : d # c => pc'[d] = pc[d]
    BY <1>1, <1>2 DEF Types, At
  <1>7. Working' \subseteq Working \ {c}
    BY <1>6 DEF Working
  <1>8. ASSUME NEW d \in Working'
        PROVE  d \in Working /\ d # c /\ overlap
    BY <1>5, <1>7
  <1>9. Types'
    <2>1. /\ UNCHANGED <<file, op, src, raw, new, nth, snap, minted>>
      BY <1>2
    <2>2. conf' \in [Sources -> Seq(Vars)] /\ DOMAIN window' = Sources /\ cut' \subseteq Sources
      BY <1>1, <1>2, <1>3 DEF Types, Uris
    <2> QED BY <1>1, <1>6, <2>1, <2>2 DEF Types
  <1>10. Uris(conf)'
    BY <1>2, <1>3 DEF Uris
  <1>11. Backed(conf)'
    <2> SUFFICES ASSUME NEW z \in Sources \ Vault, NEW u \in ToSet(k[z]), file[u] = None
                 PROVE  u \in gone
      BY <1>2 DEF Backed
    <2>1. CASE z # s
      <3>1. u \in ToSet(raw[c][z])
        BY <1>3, <2>1
      <3> QED BY <1>5, <3>1 DEF Backed
    <2>2. CASE z = s /\ op[c] # "remove"
      <3>1. CASE u = new[c]
        BY <1>1, <1>2, <2>2, <3>1 DEF NewFits
      <3>2. CASE u # new[c]
        <4>1. op[c] = "rotate"
          <5>1. CASE op[c] = "add"
            BY <1>3, <2>2, <3>2, <5>1 DEF ToSet
          <5> QED BY <1>5, <2>2, <5>1
        <4>2. u = raw[c][s][1]
          BY <1>3, <2>2, <3>2, <4>1 DEF ToSet
        <4>3. raw[c][s] \in Seq(Vars) /\ raw[c][s] # <<>>
          BY <1>3, <1>5, <4>1 DEF Uris
        <4>4. u \in ToSet(raw[c][s])
          BY <4>2, <4>3 DEF ToSet
        <4> QED BY <1>5, <2>2, <4>4 DEF Backed
      <3> QED BY <3>1, <3>2
    <2>3. CASE z = s /\ op[c] = "remove"
      BY <1>3, <2>3 DEF ToSet
    <2> QED BY <2>1, <2>2, <2>3
  <1>12. WorkFits'
    <2> SUFFICES ASSUME NEW d \in Working'
                 PROVE  /\ src'[d] \in Sources /\ op'[d] \in {"add", "rotate", "remove"}
                        /\ Uris(raw[d])' /\ Backed(raw[d])'
                        /\ op'[d] = "add" <=> raw'[d][src'[d]] = <<>>
                        /\ ~overlap' => raw'[d] = conf' /\ \A e \in Working' : e = d
      BY DEF WorkFits
    <2>1. d \in Working /\ overlap'
      BY <1>2, <1>8
    <2>2. Uris(raw[d])' /\ Backed(raw[d])'
      BY <1>1, <1>2, <2>1 DEF WorkFits, Uris, Backed
    <2> QED BY <1>1, <1>2, <2>1, <2>2 DEF WorkFits
  <1>13. RemoveFits'
    BY <1>1, <1>2, <1>6 DEF RemoveFits, Snapping
  <1>14. NewFits'
    BY <1>1, <1>2, <1>6 DEF NewFits
  <1>17. NamesMade'
    <2>1. \A z \in Sources : \A n \in 1..Cardinality(Cmds) :
            (\E d \in Cmds : Past(d, <<z, n>>)) => (\E d \in Cmds : Past(d, <<z, n>>)')
      BY <1>2, <1>6, MadeStays
    <2>2. Made(file)'
      BY <1>1, <1>2, <2>1 DEF NamesMade, Made
    <2>3. ASSUME NEW d \in Cmds, Snapping(d)' PROVE Made(snap[d])'
      <3>1. Snapping(d) /\ snap'[d] = snap[d]
        BY <1>2, <1>6, <2>3 DEF Snapping
      <3>2. Made(snap[d])
        BY <1>1, <3>1 DEF NamesMade
      <3> QED BY <2>1, <3>1, <3>2 DEF Made
    <2> QED BY <2>2, <2>3 DEF NamesMade
  <1>18. ASSUME ~overlap, NEW d \in Cmds PROVE ~Snapping(d) /\ ~Snapping(d)'
    <2>1. CASE d = c
      BY <1>2, <1>6, <2>1 DEF Snapping
    <2>2. CASE d # c
      BY <1>4, <1>6, <1>18, <2>2, Alone DEF WorkAt, Snapping
    <2> QED BY <2>1, <2>2
  <1>19. ~overlap => ~Filling /\ ~Filling'
    BY <1>18 DEF Filling, Snapping
  <1>15. ASSUME ~overlap, ~torn PROVE Leads(file, k, window', cut')
    <2> SUFFICES ASSUME NEW z \in Sources \ (Vault \cup cut')
                 PROVE  /\ \A i \in DOMAIN k[z] : file[k[z][i]] # None
                        /\ window'[z] = [i \in DOMAIN k[z] |-> file[k[z][i]]]
      BY DEF Leads
    <2>1. raw[c] = conf /\ Leads(file, conf, window, cut)
      BY <1>1, <1>5, <1>15, <1>19 DEF WindowTrue
    <2>2. z \notin cut => /\ \A i \in DOMAIN conf[z] : file[conf[z][i]] # None
                          /\ window[z] = [i \in DOMAIN conf[z] |-> file[conf[z][i]]]
      BY <2>1 DEF Leads
    <2>3. CASE z # s
      <3>1. window'[z] = window[z] /\ z \notin cut /\ k[z] = conf[z]
        BY <1>1, <1>2, <1>3, <2>1, <2>3 DEF Types
      <3> QED BY <2>2, <3>1
    <2>4. CASE z = s /\ op[c] = "remove"
      <3>1. window'[s] = <<>> /\ k[s] = <<>>
        BY <1>1, <1>2, <1>3, <2>4 DEF Types
      <3> QED BY <2>4, <3>1
    <2>5. CASE z = s /\ op[c] # "remove"
      <3> DEFINE W == window[s]
                 x == file[new[c]]
      <3>1. s \notin cut /\ s \notin Vault
        BY <1>2, <2>5
      <3>2. W = [i \in DOMAIN conf[s] |-> file[conf[s][i]]] /\ conf[s] \in Seq(Vars)
        BY <1>1, <1>3, <2>2, <2>5, <3>1 DEF Uris
      <3>3. new[c] \in Vars /\ x \in Nat \cup {None} /\ x # None
        <4>1. new[c] \in Vars /\ file[new[c]] # None
          BY <1>1, <1>2, <1>15, <2>5, <3>1 DEF NewFits
        <4> QED BY <1>1, <4>1 DEF Types, EnvFile
      <3>4. W \in Seq(Nat \cup {None}) /\ Len(W) = Len(conf[s])
        <4>1. \A i \in 1..Len(conf[s]) : file[conf[s][i]] \in Nat \cup {None}
          BY <1>1, <3>2 DEF Types, EnvFile
        <4>2. W \in [1..Len(conf[s]) -> Nat \cup {None}] /\ Len(conf[s]) \in Nat
          BY <3>2, <4>1
        <4> QED BY <4>2
      <3>5. window'[s] = SubSeq(<<x>> \o W, 1, Min({2, Len(W) + 1}))
        BY <1>1, <1>2, <1>3, <2>5, <3>1 DEF Types, Stored
      <3> HIDE DEF x
      <3>6. window'[s] = IF W = <<>> THEN <<x>> ELSE <<x, W[1]>>
        <4> HIDE DEF W
        <4> QED BY <3>3, <3>4, <3>5, TwoNewest
      <3>7. CASE op[c] = "add"
        <4>1. conf[s] = <<>> /\ k[s] = <<new[c]>>
          BY <1>3, <1>5, <2>1, <3>7
        <4>2. W = <<>>
          BY <3>4, <4>1
        <4>3. window'[s] = <<x>>
          BY <3>6, <4>2
        <4>4. file[new[c]] # None
          BY <3>3 DEF x
        <4> QED BY <2>5, <4>1, <4>3, <4>4 DEF x
      <3>8. CASE op[c] = "rotate"
        <4>1. conf[s] # <<>> /\ k[s] = <<new[c], conf[s][1]>>
          BY <1>3, <1>5, <2>1, <3>8
        <4>2. W # <<>> /\ W[1] = file[conf[s][1]]
          BY <3>2, <3>4, <4>1
        <4>3. window'[s] = <<x, file[conf[s][1]]>>
          BY <3>6, <4>2
        <4>4. file[new[c]] # None /\ file[conf[s][1]] # None
          <5>1. file[new[c]] # None
            BY <3>3 DEF x
          <5>2. 1 \in DOMAIN conf[s]
            BY <3>2, <4>1
          <5> QED BY <2>2, <2>5, <3>1, <5>1, <5>2
        <4> QED BY <2>5, <4>1, <4>3, <4>4 DEF x
      <3> QED BY <1>5, <2>5, <3>7, <3>8
    <2> QED BY <2>3, <2>4, <2>5
  <1>16. WindowTrue' /\ FillFits' /\ Synced'
    BY <1>2, <1>15, <1>18, <1>19 DEF WindowTrue, FillFits, Synced
  <1> QED BY <1>9, <1>10, <1>11, <1>12, <1>13, <1>14, <1>16, <1>17 DEF IndInv

\* A save, whether config.json may be written or not.
LEMMA SaveKeeps == ASSUME IndInv, NEW c \in Cmds, Save(c) PROVE IndInv'
  <1>1. CASE Configured(Saved(c)) = {}
    <2>1. /\ pc[c] = "save" /\ At(c, "done") /\ synced' = FALSE
          /\ UNCHANGED <<conf, file, vault, op, src, raw, new, nth, snap, minted, daemon, window, cut,
                         gone, overlap, torn>>
      BY <1>1 DEF Save
    <2>2. /\ UNCHANGED <<disk, op, src, raw, new, minted, up, env, cfg, window, cut, gone, overlap>>
          /\ nth' = nth /\ snap' = snap /\ pc[c] # "new" /\ pc[c] # "fill" /\ torn' = torn
      BY <2>1 DEF disk, daemon
    <2>3. (torn \/ pc[c] = "fill" => torn') /\ (synced' => synced)
      BY <2>1, <2>2
    <2> QED BY <2>1, <2>2, <2>3, EndsKeeps
  <1>2. CASE Configured(Saved(c)) # {}
    BY <1>2, SavesKeeps
  <1> QED BY <1>1, <1>2

-----------------------------------------------------------------------------
(* the theorems *)

\* The first configuration, and what its variables hold.
LEMMA InitHolds == Init => IndInv
  <1> SUFFICES ASSUME Init PROVE IndInv
    OBVIOUS
  <1>1. /\ FirstKey \in [FirstSources -> Nat] /\ None \notin Nat /\ FirstSources \subseteq Sources
        /\ Cardinality(Cmds) \in Nat /\ Cardinality(FirstSources) \in Nat
    BY SecretsConstants, FirstKeyType, FS_CardinalityType, FS_Subset
  <1>2. \A s \in Sources : \A n \in 0..Cardinality(Cmds) : <<s, n>> \in Vars
    BY DEF Vars
  <1>3. \A s \in Sources : <<s, 0>> \in Vars
    BY <1>1, <1>2
  <1>4. /\ conf = [s \in Sources |-> IF s \in FirstSources THEN <<<<s, 0>>>> ELSE <<>>]
        /\ file = [v \in Vars |-> IF v[1] \in FirstSources \ Vault /\ v[2] = 0
                                  THEN FirstKey[v[1]] ELSE None]
        /\ pc = [d \in Cmds |-> "new"] /\ op = [d \in Cmds |-> None]
        /\ src = [d \in Cmds |-> None] /\ raw = [d \in Cmds |-> None]
        /\ new = [d \in Cmds |-> None] /\ nth = [d \in Cmds |-> 0] /\ snap = [d \in Cmds |-> None]
        /\ minted = Cardinality(FirstSources)
        /\ env = file /\ cfg = conf
        /\ window = [s \in Sources |-> IF s \in FirstSources THEN <<FirstKey[s]>> ELSE <<>>]
        /\ cut = {} /\ overlap = FALSE /\ synced = TRUE
    BY DEF Init
  <1>5. /\ conf \in [Sources -> Seq(Vars)]
        /\ \A s \in Sources : conf[s] = IF s \in FirstSources THEN <<<<s, 0>>>> ELSE <<>>
    BY <1>3, <1>4
  <1>6. \A s \in Sources : \A u \in ToSet(conf[s]) : s \in FirstSources /\ u = <<s, 0>>
    BY <1>5 DEF ToSet
  <1>7. file \in [Vars -> Nat \cup {None}]
    BY <1>1, <1>4
  <1>8. \A s \in FirstSources \ Vault : file[<<s, 0>>] = FirstKey[s] /\ file[<<s, 0>>] # None
    BY <1>1, <1>3, <1>4
  <1>9. Types
    BY <1>1, <1>4, <1>5, <1>7 DEF Types, EnvFile
  <1>10. Uris(conf)
    BY <1>5, <1>6 DEF Uris
  <1>11. Backed(conf)
    BY <1>6, <1>8 DEF Backed
  <1>12. WorkFits /\ RemoveFits /\ NewFits /\ FillFits
    BY <1>4 DEF WorkFits, RemoveFits, NewFits, FillFits, Filling, Snapping, Working
  <1>13. NamesMade
    <2> SUFFICES ASSUME NEW s \in Sources, NEW n \in 1..Cardinality(Cmds) PROVE file[<<s, n>>] = None
      BY <1>4 DEF NamesMade, Made, Snapping
    <2>1. <<s, n>> \in Vars /\ <<s, n>>[2] # 0
      BY <1>1, <1>2
    <2> QED BY <1>4, <2>1
  <1>14. WindowTrue
    <2> SUFFICES ASSUME NEW s \in Sources \ Vault
                 PROVE  /\ \A i \in DOMAIN conf[s] : file[conf[s][i]] # None
                        /\ window[s] = [i \in DOMAIN conf[s] |-> file[conf[s][i]]]
      <3>1. \A c \in Cmds : ~Snapping(c)
        BY <1>4 DEF Snapping
      <3>2. cut = {} /\ Sources \ (Vault \cup cut) = Sources \ Vault
        BY <1>4
      <3> QED BY <3>1, <3>2 DEF WindowTrue, Leads
    <2>1. CASE s \in FirstSources
      <3>1. /\ conf[s] = <<<<s, 0>>>> /\ window[s] = <<FirstKey[s]>>
            /\ file[<<s, 0>>] = FirstKey[s] /\ file[<<s, 0>>] # None
        BY <1>4, <1>5, <1>8, <2>1
      <3> QED BY <3>1
    <2>2. CASE s \notin FirstSources
      <3>1. conf[s] = <<>> /\ window[s] = <<>>
        BY <1>4, <1>5, <2>2
      <3> QED BY <3>1
    <2> QED BY <2>1, <2>2
  <1>15. Synced
    BY <1>4 DEF Synced
  <1> QED BY <1>9, <1>10, <1>11, <1>12, <1>13, <1>14, <1>15 DEF IndInv

\* Every step keeps the invariant.
LEMMA NextKeeps == ASSUME IndInv, [Next]_vars PROVE IndInv'
  <1>1. ASSUME NEW c \in Cmds, NEW o \in {"add", "rotate", "remove"}, NEW s \in Sources, Load(c, o, s)
        PROVE  IndInv'
    BY <1>1, LoadKeeps
  <1>2. ASSUME NEW c \in Cmds, Refused(c) \/ Finish(c) \/ Crash(c) PROVE IndInv'
    <2>1. CASE Refused(c) \/ Finish(c)
      <3>1. /\ pc[c] # "new" /\ pc[c] # "fill" /\ At(c, "done")
            /\ UNCHANGED <<disk, op, src, raw, new, nth, snap, minted, up, env, cfg, window, cut, gone,
                           overlap, torn, synced>>
        BY <2>1 DEF Refused, Finish, daemon, history
      <3>2. (torn \/ pc[c] = "fill" => torn') /\ (synced' => synced)
        BY <3>1
      <3> QED BY <3>1, <3>2, EndsKeeps
    <2>2. CASE Crash(c)
      <3>1. /\ pc[c] # "new" /\ At(c, "done")
            /\ UNCHANGED <<disk, op, src, raw, new, minted, up, env, cfg, window, cut, gone, overlap, synced>>
            /\ snap' = [snap EXCEPT ![c] = None] /\ nth' = [nth EXCEPT ![c] = 0]
            /\ torn' = (torn \/ pc[c] = "fill")
        BY <2>2 DEF Crash, Working, daemon
      <3> QED BY <3>1, EndsKeeps
    <2> QED BY <1>2, <2>1, <2>2
  <1>3. ASSUME NEW c \in Cmds, Names(c) \/ Appends(c) \/ WritesVault(c) PROVE IndInv'
    BY <1>3, NamesKeeps, AppendsKeeps, WritesVaultKeeps
  <1>4. ASSUME NEW c \in Cmds, RemoveReads(c) \/ Truncates(c) \/ Fills(c) \/ Save(c) PROVE IndInv'
    BY <1>4, RemoveReadsKeeps, TruncatesKeeps, FillsKeeps, SaveKeeps
  <1>5. CASE Reload \/ Restart \/ \E s \in Vault : Fetch(s)
    BY <1>5, ReloadKeeps, RestartKeeps
  <1>6. CASE UNCHANGED vars
    <2>1. UNCHANGED <<disk, command, window, cut, gone, overlap, torn>> /\ UNCHANGED <<synced, env, cfg>>
      BY <1>6 DEF vars, daemon, history
    <2>2. Synced'
      BY <2>1 DEF IndInv, Synced, disk
    <2> QED BY <2>1, <2>2, DiskStands DEF IndInv
  <1> QED BY <1>1, <1>2, <1>3, <1>4, <1>5, <1>6 DEF Next

\* What the commands and the daemon keep, whatever is killed and whatever overlaps.
THEOREM SecretsInvariant == Spec => []IndInv
  <1>1. Init => IndInv
    BY InitHolds
  <1>2. IndInv /\ [Next]_vars => IndInv'
    BY NextKeeps
  <1> QED BY <1>1, <1>2, PTL DEF Spec

\* A variable that config.json names and secrets.env does not hold was there, and a
\* remove (cli/secrets.py) has dropped it: of its own source, or with the file
\* truncated, killed then, or overlapping another command.
THEOREM OnlyRemoveLeavesHoles == Spec => []OnlyRemoveCuts
  <1>1. IndInv => OnlyRemoveCuts
    <2> SUFFICES ASSUME IndInv, NEW u \in EnvUris(conf), file[u] = None
                 PROVE  u \in gone /\ (~overlap /\ ~torn /\ ~Filling => u[1] \in cut)
      BY DEF OnlyRemoveCuts, Filling
    <2>1. PICK s \in Sources \ Vault : u \in ToSet(conf[s])
      BY DEF EnvUris
    <2>2. u \in gone /\ u[1] = s
      BY <2>1 DEF IndInv, Backed, Uris
    <2>3. ASSUME ~overlap, ~torn, ~Filling, s \notin cut PROVE FALSE
      <3>1. Leads(file, conf, window, cut)
        BY <2>3 DEF IndInv, WindowTrue
      <3>2. PICK i \in DOMAIN conf[s] : conf[s][i] = u
        BY <2>1 DEF ToSet
      <3> QED BY <2>1, <2>3, <3>1, <3>2 DEF Leads
    <2> QED BY <2>2, <2>3
  <1> QED BY <1>1, SecretsInvariant, PTL

\* A daemon that starts after the last command accepts the last two secrets saved
\* for a source and no other (main.py's start on what cli/secrets.py has written).
THEOREM StartTakesWindow == Spec => []StartVerifiesWindow
  <1>1. IndInv => StartVerifiesWindow
    <2> SUFFICES ASSUME IndInv, synced, ~overlap, ~torn, NEW s \in Sources \ (Vault \cup cut)
                 PROVE  Accepts(s) = ToSet(window[s])
      BY DEF StartVerifiesWindow
    <2>1. cfg = conf /\ env = file
      BY DEF IndInv, Synced
    <2>2. Leads(file, conf, window, cut)
      BY DEF IndInv, FillFits, WindowTrue
    <2>3. window[s] = [i \in DOMAIN conf[s] |-> file[conf[s][i]]]
      BY <2>2 DEF Leads
    <2>4. Accepts(s) = {file[u] : u \in ToSet(conf[s])}
      BY <2>1 DEF Accepts
    <2> QED BY <2>3, <2>4 DEF ToSet
  <1> QED BY <1>1, SecretsInvariant, PTL
=============================================================================

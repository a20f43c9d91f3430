----------------------------- MODULE PathProofs -----------------------------
(***************************************************************************)
(* Proofs about what is found at the end of a path: that it is what the    *)
(* callers of the file system have put there, and what the commands of the *)
(* shell, which prefix the working directory to their paths, do to it.     *)
(***************************************************************************)
EXTENDS Shell, FoxFSProofs

(***************************************************************************)
(* What the callers have put at each path.  A table in which every parent  *)
(* lies in an earlier slot gives each entry one path of names: going up    *)
(* from the entry spells it.  So a call changes what is found at the path  *)
(* it names, and at no other.                                              *)
(***************************************************************************)
(* Every parent lies in an earlier slot, and the root has no name.         *)
GoesUp(t, n) ==
  /\ t[0].name = NoName
  /\ \A j \in 1 .. n - 1 : t[j].parent_index \in 0 .. j - 1

(* A path to an entry ends in its name, and the rest leads to its parent.  *)
LEMMA LeadsBack ==
  ASSUME NEW t, NEW n \in Nat \ {0}, GoesUp(t, n), NEW p \in Seq(Names), p # << >>,
         NEW i \in 0 .. n - 1, Leads(t, n, p, i)
  PROVE  /\ i # 0 /\ 1 <= Len(p) /\ last_name(p) = t[i].name
         /\ parent_path(p) \in Seq(Names)
         /\ Leads(t, n, parent_path(p), t[i].parent_index)
<1>1. PICK m \in Nat : Len(p) = m + 1
  <2>1. Len(p) \in Nat /\ Len(p) # 0
    BY LenProperties, EmptySeq
  <2>2. Len(p) - 1 \in Nat /\ Len(p) = Len(p) - 1 + 1
    BY <2>1
  <2> QED BY <2>2, Zenon
<1>2. p \in Seq(Components)
  BY NamesAreComponents
<1>3. PICK f : IsWalk(f, t, n, p) /\ f[Len(p)] = i
  BY DEF Leads
<1>4. /\ m \in 0 .. Len(p) /\ m + 1 \in 1 .. Len(p) /\ m + 1 - 1 = m
      /\ p[m + 1] = last_name(p)
  BY <1>1 DEF last_name
<1>5. PICK name \in Names : name = last_name(p) /\ name # NoName
  <2>1. p[m + 1] \in Names
    BY <1>4, ElementOfSeq
  <2> QED BY <1>4, <2>1, FSAssumption
<1>6. i = Step(t, n, f[m], name) /\ i # -1
  BY <1>1, <1>3, <1>4, <1>5 DEF IsWalk
<1>7. f[m] # -1 /\ i = FirstOf(Hits(t, n, f[m], name))
  BY <1>5, <1>6 DEF Step
<1>8. i \in Hits(t, n, f[m], name)
  <2>1. Hits(t, n, f[m], name) \in SUBSET (0 .. n - 1)
    BY DEF Hits
  <2> QED BY <1>6, <1>7, <2>1, FirstOfSet, Zenon
<1>9. t[i].parent_index = f[m] /\ t[i].name = name /\ i # 0
  BY <1>5, <1>8 DEF Hits, GoesUp
<1>10. PICK q \in Seq(Components) :
         /\ q = parent_path(p) /\ Len(q) = m
         /\ \A k \in 1 .. m : q[k] = p[k]
  <2>1. Len(p) - 1 = m /\ 1 <= Len(p)
    BY <1>1
  <2> QED BY <1>2, <2>1, FrontOfPath
<1>11. q \in Seq(Names)
  <2>1. \A k \in 1 .. m : q[k] \in Names
    BY <1>1, <1>10, ElementOfSeq
  <2>2. q \in [1 .. m -> Components]
    BY <1>10, LenProperties
  <2>3. q \in [1 .. m -> Names]
    BY <2>1, <2>2
  <2> QED BY <2>3, SeqDef
<1> DEFINE g == [k \in 0 .. m |-> f[k]]
<1>12. IsWalk(g, t, n, q) /\ g[Len(q)] = f[m]
  <2>1. /\ f \in [0 .. m + 1 -> (0 .. n - 1) \cup {-1}] /\ f[0] = 0
        /\ \A k \in 1 .. m + 1 : f[k] = Step(t, n, f[k - 1], p[k])
    BY <1>1, <1>3 DEF IsWalk
  <2>2. g \in [0 .. m -> (0 .. n - 1) \cup {-1}] /\ g[0] = 0 /\ g[m] = f[m]
    BY <2>1
  <2>3. ASSUME NEW k \in 1 .. m PROVE g[k] = Step(t, n, g[k - 1], q[k])
    <3>1. k \in 1 .. m + 1 /\ g[k] = f[k] /\ g[k - 1] = f[k - 1] /\ q[k] = p[k]
      BY <1>10
    <3> QED BY <2>1, <3>1
  <2> QED BY <1>10, <2>2, <2>3, Zenon DEF IsWalk
<1> HIDE DEF g
<1>13. Leads(t, n, q, f[m])
  BY <1>12 DEF Leads
<1> QED BY <1>1, <1>5, <1>9, <1>10, <1>11, <1>13

(* A sequence is its front and its last element.                           *)
LEMMA FrontAndLast ==
  ASSUME NEW p \in Seq(Names), NEW q \in Seq(Names), 1 <= Len(p), 1 <= Len(q),
         parent_path(p) = parent_path(q), last_name(p) = last_name(q)
  PROVE  p = q
<1>0. p \in Seq(Components) /\ q \in Seq(Components) /\ Len(p) \in Nat /\ Len(q) \in Nat
  BY NamesAreComponents
<1>1. /\ Len(parent_path(p)) = Len(p) - 1 /\ Len(parent_path(q)) = Len(q) - 1
      /\ \A k \in 1 .. Len(p) - 1 : parent_path(p)[k] = p[k]
      /\ \A k \in 1 .. Len(q) - 1 : parent_path(q)[k] = q[k]
  BY <1>0, FrontOfPath
<1>2. Len(p) = Len(q)
  BY <1>0, <1>1
<1>3. p[Len(p)] = q[Len(q)]
  BY DEF last_name
<1>4. \A k \in 1 .. Len(p) : p[k] = q[k]
  BY <1>0, <1>1, <1>2, <1>3
<1> QED BY <1>2, <1>4, SeqEqual

(* Two paths of names to one entry are the same path.                      *)
LEMMA OnePath ==
  ASSUME NEW t, NEW n \in Nat \ {0}, GoesUp(t, n), NEW i \in 0 .. n - 1,
         NEW p \in Seq(Names), NEW q \in Seq(Names), Leads(t, n, p, i), Leads(t, n, q, i)
  PROVE  p = q
<1> DEFINE One(j) == \A a, b \in Seq(Names) : Leads(t, n, a, j) /\ Leads(t, n, b, j) => a = b
           T == {k \in 0 .. n - 1 : \A j \in 0 .. k : One(j)}
<1>1. ASSUME NEW j \in 0 .. n - 1, \A l \in 0 .. j - 1 : One(l) PROVE One(j)
  <2> SUFFICES ASSUME NEW a \in Seq(Names), NEW b \in Seq(Names),
                      Leads(t, n, a, j), Leads(t, n, b, j)
               PROVE  a = b
    OBVIOUS
  <2> HIDE DEF One
  <2>0. << >> \in Seq(Components) /\ Leads(t, n, << >>, 0)
    BY LeadsEmpty
  <2>1. Leads(t, n, << >>, j) => j = 0
    BY DEF Leads, IsWalk
  <2>2. CASE j = 0
    BY <2>2, LeadsBack, Zenon
  <2>3. CASE j # 0
    <3>1. a # << >> /\ b # << >>
      BY <2>1, <2>3
    <3>2. /\ 1 <= Len(a) /\ last_name(a) = t[j].name /\ parent_path(a) \in Seq(Names)
          /\ Leads(t, n, parent_path(a), t[j].parent_index)
      BY <3>1, LeadsBack
    <3>3. /\ 1 <= Len(b) /\ last_name(b) = t[j].name /\ parent_path(b) \in Seq(Names)
          /\ Leads(t, n, parent_path(b), t[j].parent_index)
      BY <3>1, LeadsBack
    <3>4. t[j].parent_index \in 0 .. j - 1
      BY <2>3 DEF GoesUp
    <3>5. One(t[j].parent_index)
      BY <1>1, <3>4
    <3>6. parent_path(a) = parent_path(b)
      BY <3>2, <3>3, <3>5, Zenon DEF One
    <3> QED BY <3>2, <3>3, <3>6, FrontAndLast
  <2> QED BY <2>2, <2>3
<1> HIDE DEF One
<1>2. 0 \in T
  <2>1. One(0)
    BY <1>1
  <2> QED BY <2>1
<1>3. ASSUME NEW k \in 0 .. n - 1 - 1, k \in T PROVE k + 1 \in T
  <2>1. k + 1 \in 0 .. n - 1 /\ k + 1 - 1 = k
    OBVIOUS
  <2>2. One(k + 1)
    BY <1>1, <1>3, <2>1
  <2>3. \A j \in 0 .. k + 1 : j = k + 1 \/ j \in 0 .. k
    OBVIOUS
  <2> QED BY <1>3, <2>1, <2>2, <2>3
<1> HIDE DEF T
<1>4. 0 .. n - 1 \subseteq T
  <2>1. n - 1 \in Nat
    OBVIOUS
  <2> QED BY <1>2, <1>3, <2>1, InductiveUpTo
<1>5. i \in T /\ i \in 0 .. i
  BY <1>4
<1>6. One(i)
  BY <1>5, Zenon DEF T
<1> QED BY <1>6 DEF One

Orderly == TypeOK /\ TableSafe /\ ParentsAreDirs

(* The table is such a table until a deletion misplaces an entry.          *)
LEMMA OrderlyGoesUp == Orderly => file_count \in Nat \ {0} /\ GoesUp(files, file_count)
<1> SUFFICES ASSUME Orderly PROVE file_count \in Nat \ {0} /\ GoesUp(files, file_count)
  OBVIOUS
<1>1. file_count \in Nat \ {0} /\ file_count <= MAX_FILES
  BY FSAssumption DEF Orderly, TypeOK
<1>2. ASSUME NEW j \in 1 .. file_count - 1 PROVE files[j].parent_index \in 0 .. j - 1
  <2>1. j \in Live \ {0} /\ j \in Slots
    BY <1>1, FSAssumption DEF Live, Slots
  <2>2. files[j] \in Entry /\ files[j].parent_index < j
    BY <2>1 DEF Orderly, TypeOK, ParentsAreDirs
  <2> QED BY <2>2, FSAssumption DEF Entry, Slots
<1> QED BY <1>1, <1>2 DEF Orderly, TableSafe, GoesUp

(* The same after a step.                                                  *)
LEMMA OrderlyGoesUpNext ==
  Orderly' => file_count' \in Nat \ {0} /\ GoesUp(files', file_count')
<1>1. Orderly' => (file_count \in Nat \ {0} /\ GoesUp(files, file_count))'
  BY OrderlyGoesUp, PTL
<1> QED BY <1>1

OnePathEach ==
  \A p, q \in NamePaths :
    fs_parse_path(p) = fs_parse_path(q) /\ fs_parse_path(p) # -1 => p = q

(* So two paths of names do not lead to the same entry.                    *)
LEMMA ParseOnePath == Orderly => OnePathEach
<1> SUFFICES ASSUME Orderly, NEW p \in NamePaths, NEW q \in NamePaths, NEW i,
                    i = fs_parse_path(p), i = fs_parse_path(q), i # -1
             PROVE  p = q
  BY DEF OnePathEach
<1>1. /\ p \in Seq(Names) /\ q \in Seq(Names) /\ TypeOK
      /\ p \in Seq(Components) /\ q \in Seq(Components)
  BY NamePathsAreSequences, PathsAreSequences DEF Orderly
<1>2. i \in 0 .. file_count - 1
  BY <1>1, ParseNamed DEF Live
<1>3. Leads(files, file_count, p, i) /\ Leads(files, file_count, q, i)
  BY <1>1, ParseIsLed, Zenon
<1> QED BY <1>1, <1>2, <1>3, OrderlyGoesUp, OnePath

(* The same after a step.                                                  *)
LEMMA ParseOnePathNext == Orderly' => OnePathEach'
  BY ParseOnePath, PTL

(* An entry that a path leads to is at one path of names: the same path    *)
(* without its empty components.                                           *)
LEMMA NamedFinds ==
  ASSUME Orderly, NEW path \in Paths, NEW i \in Live \ {0}, fs_parse_path(path) = i
  PROVE  /\ Named(path) \in NamePaths
         /\ \A p \in NamePaths : fs_parse_path(p) = i <=> p = Named(path)
<1>0. TypeOK /\ file_count \in Nat \ {0} /\ i # -1
  BY FSAssumption DEF Orderly, TypeOK, Live
<1>1. path \in Seq(Components) /\ Len(path) \in 1 .. MaxDepth
  BY PathsAreSequences
<1>2. Leads(files, file_count, path, i)
  BY <1>0, <1>1, ParseIsLed
<1>3. PICK q \in Seq(Names) :
        q = Named(path) /\ Len(q) <= Len(path) /\ Leads(files, file_count, q, i)
  BY <1>0, <1>1, <1>2, NamedLeads
<1>4. q \in Seq(Components) /\ Len(q) \in Nat
  BY NamesAreComponents
<1>5. fs_parse_path(q) = i
  BY <1>0, <1>3, <1>4, ParseIsLed
<1>6. Len(q) # 0
  <2>1. ASSUME Len(q) = 0 PROVE FALSE
    <3>1. PICK f : IsWalk(f, files, file_count, q) /\ f[Len(q)] = i
      BY <1>3 DEF Leads
    <3> QED BY <2>1, <3>1 DEF IsWalk
  <2> QED BY <2>1
<1>7. q \in NamePaths
  <2>1. Len(q) \in 1 .. MaxDepth
    BY <1>1, <1>3, <1>4, <1>6, FSAssumption
  <2> QED BY <2>1, NamePathsAreSequences
<1>8. \A p \in NamePaths : fs_parse_path(p) = i => p = q
  BY <1>0, <1>5, <1>7, ParseOnePath DEF OnePathEach
<1> QED BY <1>3, <1>5, <1>7, <1>8

-----------------------------------------------------------------------------
(* A step after which node is found at path q, and at every other path     *)
(* what was found there before.                                            *)
Changes(q, node) ==
  /\ q \in NamePaths
  /\ \A p \in NamePaths : Seen(p)' = IF p = q THEN node ELSE Seen(p)

(* What is found depends on the lookup and the entry it ends on.           *)
LEMMA SeenSame ==
  ASSUME NEW p, \/ fs_parse_path(p) = -1 /\ fs_parse_path(p)' = -1
                \/ /\ fs_parse_path(p) # -1 /\ fs_parse_path(p)' # -1
                   /\ files'[fs_parse_path(p)'].type = files[fs_parse_path(p)].type
                   /\ Content(files'[fs_parse_path(p)']) = Content(files[fs_parse_path(p)])
  PROVE  Seen(p)' = Seen(p)
BY Zenon DEF Seen, Nothing, Content

(* Creating a file or a directory with a name.                             *)
LEMMA CreatedSeen ==
  ASSUME TypeOK, TableSafe, Orderly', NEW path \in Paths, last_name(path) # NoName,
         NEW type \in {"FILE", "DIR"}, NEW dir \in Found(parent_path(path)),
         Created(last_name(path), type, dir)
  PROVE  Changes(Named(path), [type |-> type, text |-> << >>])
<1>0. /\ file_count \in Nat /\ file_count # -1 /\ Live \subseteq Slots /\ TypeOK'
      /\ \A i \in Live : i # file_count /\ i # -1
  BY FSAssumption DEF Orderly, TypeOK, Live, Slots
<1>1. PICK name \in Components : name = last_name(path)
  <2>1. path \in Seq(Components) /\ Len(path) \in 1 .. MaxDepth
    BY PathsAreSequences
  <2> QED BY <2>1, ElementOfSeq DEF last_name
<1>2. dir \in Live /\ Created(name, type, dir)
  BY <1>1 DEF Found
<1>3. Named(path) \in NamePaths /\ fs_parse_path(Named(path))' = file_count
  BY <1>0, CreatedAtPath
<1>4. /\ files'[file_count].type = type /\ files'[file_count].size = 0
      /\ \A s \in Slots \ {file_count} : files'[s] = files[s]
  BY <1>2, CreatedSlots DEF Components
<1>5. ASSUME NEW p \in NamePaths, p # Named(path) PROVE Seen(p)' = Seen(p)
  <2>1. p \in Seq(Components)
    BY PathsAreSequences
  <2>2. fs_parse_path(p)' # file_count
    BY <1>0, <1>3, <1>5, ParseOnePathNext DEF OnePathEach
  <2>3. fs_parse_path(p)' = fs_parse_path(p) /\ fs_parse_path(p) \in Live \cup {-1}
    BY <1>0, <1>2, <2>1, <2>2, CreatedLookups, ParseNamed
  <2>4. fs_parse_path(p) # -1 =>
          files'[fs_parse_path(p)'] = files[fs_parse_path(p)]
    BY <1>0, <1>4, <2>3
  <2> QED BY <2>3, <2>4, SeenSame
<1>6. Seen(Named(path))' = [type |-> type, text |-> << >>]
  <2>1. Content(files'[file_count]) = << >>
    BY <1>4 DEF Content
  <2> QED BY <1>0, <1>3, <1>4, <2>1 DEF Seen, Content
<1> QED BY <1>3, <1>5, <1>6 DEF Changes

(* Creating a file without a name: no path leads to it.                    *)
LEMMA NamelessSeen ==
  ASSUME TypeOK, TableSafe, TypeOK', NEW path \in Paths, last_name(path) = NoName,
         NEW dir \in Found(parent_path(path)), Created(last_name(path), "FILE", dir),
         NEW p \in NamePaths
  PROVE  Seen(p)' = Seen(p)
<1>0. /\ file_count \in Nat \ {0} /\ Live \subseteq Slots /\ p \in Seq(Components)
      /\ \A i \in Live : i # file_count /\ i # -1
  BY PathsAreSequences, FSAssumption DEF TypeOK, Live, Slots
<1>1. PICK name \in Components : name = last_name(path) /\ name = NoName
  BY DEF Components
<1>2. dir \in Live /\ Created(name, "FILE", dir)
  BY <1>1 DEF Found
<1>3. /\ file_count' = file_count + 1 /\ files'[file_count].name = NoName
      /\ \A s \in Slots \ {file_count} : files'[s] = files[s]
  BY <1>1, <1>2, CreatedSlots DEF Components
<1>4. fs_parse_path(p)' # file_count
  <2>1. file_count \in Live' \ {0}
    BY <1>0, <1>3 DEF Live
  <2> QED BY <1>0, <1>3, <2>1, ParseNamedNext DEF ParsesToNames
<1>5. fs_parse_path(p)' = fs_parse_path(p) /\ fs_parse_path(p) \in Live \cup {-1}
  BY <1>0, <1>2, <1>4, CreatedLookups, ParseNamed
<1>6. fs_parse_path(p) # -1 => files'[fs_parse_path(p)'] = files[fs_parse_path(p)]
  BY <1>0, <1>3, <1>5, Zenon
<1> QED BY <1>5, <1>6, SeenSame, Zenon

(* What a read returns of a file that has been written.                    *)
LEMMA WrittenContent ==
  ASSUME TypeOK, NEW i \in Live, NEW buffer \in Buffers, Written(i, buffer)
  PROVE  Content(files'[i]) = Beginning(buffer)
<1>1. PICK n \in Nat : buffer \in [1 .. n -> Bytes] /\ Len(buffer) = n /\ buffer \in Seq(Bytes)
  <2>1. PICK n \in 0 .. MaxWrite : buffer \in [1 .. n -> Bytes]
    BY DEF Buffers
  <2>2. n \in Nat
    BY FSAssumption
  <2> QED BY <2>1, <2>2, SeqDef, LenProperties
<1>2. PICK c \in Nat : /\ c = Clip(n) /\ c <= n
                       /\ c = IF n < MAX_FILE_SIZE THEN n ELSE MAX_FILE_SIZE
  BY FSAssumption DEF Clip
<1>3. files'[i].size = c /\ \A k \in 1 .. c : files'[i].data[k - 1] = buffer[k]
  <2>1. /\ files'[i].size = Clip(Len(buffer))
        /\ \A k \in 1 .. files'[i].size : files'[i].data[k - 1] = buffer[k]
    BY WrittenSlots
  <2> QED BY <1>1, <1>2, <2>1, Zenon
<1>4. Content(files'[i]) = [k \in 1 .. c |-> buffer[k]]
  BY <1>3 DEF Content
<1>5. Beginning(buffer) = SubSeq(buffer, 1, c)
  BY <1>1, <1>2 DEF Beginning
<1>6. SubSeq(buffer, 1, c) = [k \in 1 .. c |-> buffer[k]]
  BY <1>1, <1>2
<1> QED BY <1>4, <1>5, <1>6

(* Writing to a file.                                                      *)
LEMMA WrittenSeen ==
  ASSUME Orderly, TypeOK', NEW path \in Paths, NEW buffer \in Buffers, fs_write(path, buffer)
  PROVE  Changes(Named(path), File(Beginning(buffer)))
<1>0. TypeOK /\ Live \subseteq Slots /\ \A i \in Live : i # -1
  BY FSAssumption DEF Orderly, TypeOK, Live, Slots
<1>1. PICK i \in Live : fs_parse_path(path) = i /\ files[i].type = "FILE" /\ Written(i, buffer)
  BY ZenonT(30) DEF fs_write, Found, Written
<1>2. i # 0
  BY <1>1 DEF Orderly, TableSafe
<1>3. /\ Named(path) \in NamePaths
      /\ \A p \in NamePaths : fs_parse_path(p) = i <=> p = Named(path)
  BY <1>1, <1>2, NamedFinds
<1>4. /\ files'[i].type = "FILE" /\ Content(files'[i]) = Beginning(buffer)
      /\ \A s \in Slots \ {i} : files'[s] = files[s]
  BY <1>0, <1>1, WrittenSlots, WrittenContent
<1>5. ASSUME NEW p \in NamePaths
      PROVE  fs_parse_path(p)' = fs_parse_path(p) /\ fs_parse_path(p) \in Live \cup {-1}
  BY <1>0, <1>1, PathsAreSequences, WrittenLookups, ParseNamed
<1>6. ASSUME NEW p \in NamePaths, p # Named(path) PROVE Seen(p)' = Seen(p)
  <2>1. fs_parse_path(p) # i
    BY <1>3, <1>6
  <2>2. fs_parse_path(p) # -1 => files'[fs_parse_path(p)'] = files[fs_parse_path(p)]
    BY <1>0, <1>4, <1>5, <2>1
  <2> QED BY <1>5, <2>2, SeenSame
<1>7. Seen(Named(path))' = File(Beginning(buffer))
  <2>1. fs_parse_path(Named(path))' = i /\ i # -1
    BY <1>0, <1>3, <1>5
  <2> QED BY <1>4, <2>1, Zenon DEF Seen, File, Content
<1> QED BY <1>3, <1>6, <1>7 DEF Changes

(* Deleting what a path leads to.                                          *)
LEMMA RemovedSeen ==
  ASSUME Orderly, SiblingsDiffer, TypeOK', NEW path \in Paths,
         NEW x \in Found(path) \ {0}, Removed(x), ~Misplaces(x)
  PROVE  Changes(Named(path), Nothing)
<1>0. TypeOK /\ TableSafe /\ ParentsAreDirs /\ file_count' \in Nat
  BY FSAssumption DEF Orderly, TypeOK
<1>1. x \in Live \ {0} /\ fs_parse_path(path) = x
  BY DEF Found
<1>2. /\ Named(path) \in NamePaths
      /\ \A p \in NamePaths : fs_parse_path(p) = x <=> p = Named(path)
  BY <1>1, NamedFinds
<1>3. ASSUME NEW p \in NamePaths
      PROVE  /\ fs_parse_path(p) \in {-1, x} => fs_parse_path(p)' = -1
             /\ fs_parse_path(p) \notin {-1, x} =>
                  /\ fs_parse_path(p) \in Live \ {x}
                  /\ fs_parse_path(p)' = Renumber(fs_parse_path(p), x)
  BY <1>0, <1>1, PathsAreSequences, RemovedLookups, ParseNamed
<1>4. ASSUME NEW p \in NamePaths, p # Named(path) PROVE Seen(p)' = Seen(p)
  <2>1. CASE fs_parse_path(p) = -1
    BY <1>3, <2>1, SeenSame
  <2>2. CASE fs_parse_path(p) # -1
    <3>1. PICK m \in Live \ {x} : m = fs_parse_path(p) /\ fs_parse_path(p)' = Renumber(m, x)
      BY <1>2, <1>3, <1>4, <2>2
    <3>2. Renumber(m, x) # -1
      <4>1. Renumber(m, x) \in Live'
        BY <1>0, <1>1, RemovedSlot
      <4> QED BY <1>0, <4>1 DEF Live
    <3>3. /\ files'[Renumber(m, x)].type = files[m].type
          /\ Content(files'[Renumber(m, x)]) = Content(files[m])
      BY <1>0, <1>1, RemovedContent, Zenon
    <3> QED BY <2>2, <3>1, <3>2, <3>3, SeenSame
  <2> QED BY <2>1, <2>2
<1>5. Seen(Named(path))' = Nothing
  <2>1. fs_parse_path(Named(path))' = -1
    BY <1>2, <1>3
  <2> QED BY <2>1, Zenon DEF Seen, Nothing
<1> QED BY <1>2, <1>4, <1>5 DEF Changes

IsTree == tree = [p \in NamePaths |-> tree[p]]

(* A call that changes what is found at its path to what it puts there.    *)
LEMMA PutAgrees ==
  ASSUME IsTree, TableIsTree, ~reparented, ~reparented',
         NEW path, NEW node, Changes(Named(path), node), Put(path, node)
  PROVE  IsTree' /\ TableIsTree'
<1>1. tree' = [tree EXCEPT ![Named(path)] = node] /\ Named(path) \in NamePaths
  BY DEF Put, Changes
<1>2. /\ tree' = [p \in NamePaths |-> tree'[p]]
      /\ \A p \in NamePaths : tree'[p] = IF p = Named(path) THEN node ELSE tree[p]
  BY <1>1 DEF IsTree
<1>3. \A p \in NamePaths : Seen(p)' = tree'[p]
  BY <1>2 DEF Changes, TableIsTree
<1> QED BY <1>2, <1>3 DEF IsTree, TableIsTree

(* The tree only watches the calls.                                        *)
LEMMA CallsAreCalls == TreeNext => Next
BY DEF TreeNext, Next

(* Every call changes what is found the way it changes the tree.           *)
LEMMA AgreeStep ==
  TypeOK /\ TableSafe /\ TreeUnlessReparented /\ IsTree /\ TableIsTree /\ [TreeNext]_treeVars
    => IsTree' /\ TableIsTree'
<1> SUFFICES ASSUME TypeOK, TableSafe, TreeUnlessReparented, IsTree, TableIsTree,
                    [TreeNext]_treeVars
             PROVE  IsTree' /\ TableIsTree'
  OBVIOUS
<1>0. [Next]_vars
  BY CallsAreCalls DEF treeVars
<1>1. TypeOK' /\ TableSafe' /\ TreeUnlessReparented'
  BY <1>0, TableStep, TreeStep
<1>2. ASSUME UNCHANGED tree, \A p \in NamePaths : Seen(p)' = Seen(p),
             ~reparented' => ~reparented
      PROVE  IsTree' /\ TableIsTree'
  BY <1>2 DEF IsTree, TableIsTree
<1>3. CASE UNCHANGED vars /\ UNCHANGED tree
  <2>1. files' = files /\ reparented' = reparented
    BY <1>3 DEF vars
  <2>2. ASSUME NEW p \in NamePaths PROVE Seen(p)' = Seen(p)
    <3>1. fs_parse_path(p)' = fs_parse_path(p)
      BY <1>1, <1>3, PathsAreSequences, UnchangedLookups
    <3> QED BY <2>1, <3>1, SeenSame
  <2> QED BY <1>2, <1>3, <2>1, <2>2
<1>4. ASSUME NEW path \in Paths, NEW type \in {"FILE", "DIR"},
             NEW dir \in Found(parent_path(path)), Created(last_name(path), type, dir),
             last_name(path) # NoName, Put(path, [type |-> type, text |-> << >>])
      PROVE  IsTree' /\ TableIsTree'
  <2>1. reparented' = reparented
    BY <1>4 DEF Created, fs_create_file
  <2>2. CASE reparented
    BY <1>4, <2>1, <2>2 DEF Put, IsTree, TableIsTree, Bare
  <2>3. CASE ~reparented
    <3>1. Orderly'
      BY <1>1, <2>1, <2>3 DEF Orderly, TreeUnlessReparented
    <3>2. Changes(Named(path), [type |-> type, text |-> << >>])
      BY <1>4, <3>1, CreatedSeen
    <3> QED BY <1>4, <2>1, <2>3, <3>2, PutAgrees
  <2> QED BY <2>2, <2>3
<1>5. ASSUME NEW path \in Paths, touch(path), last_name(path) = NoName, UNCHANGED tree
      PROVE  IsTree' /\ TableIsTree'
  <2>1. PICK dir \in Found(parent_path(path)) : Created(last_name(path), "FILE", dir)
    BY <1>5 DEF touch, Created
  <2>2. reparented' = reparented
    BY <2>1 DEF Created, fs_create_file
  <2>3. \A p \in NamePaths : Seen(p)' = Seen(p)
    BY <1>1, <1>5, <2>1, NamelessSeen
  <2> QED BY <1>2, <1>5, <2>2, <2>3
<1>6. ASSUME NEW path \in Paths, NEW buffer \in Buffers, fs_write(path, buffer),
             Put(path, File(Beginning(buffer)))
      PROVE  IsTree' /\ TableIsTree'
  <2>1. reparented' = reparented
    BY <1>6 DEF fs_write
  <2>2. CASE reparented
    BY <1>6, <2>1, <2>2 DEF Put, IsTree, TableIsTree, Bare
  <2>3. CASE ~reparented
    <3>1. Orderly
      BY <2>3 DEF Orderly, TreeUnlessReparented
    <3>2. Changes(Named(path), File(Beginning(buffer)))
      BY <1>1, <1>6, <3>1, WrittenSeen
    <3> QED BY <1>6, <2>1, <2>3, <3>2, PutAgrees
  <2> QED BY <2>2, <2>3
<1>7. ASSUME NEW path \in Paths, fs_delete_file(path), Put(path, Nothing)
      PROVE  IsTree' /\ TableIsTree'
  <2>1. PICK x \in Found(path) \ {0} : Removed(x)
    BY <1>7 DEF fs_delete_file, Removed
  <2>2. reparented' = (reparented \/ Misplaces(x))
    BY <2>1 DEF Removed, RemoveSlot
  <2>3. CASE reparented'
    BY <1>7, <2>3 DEF Put, IsTree, TableIsTree, Bare
  <2>4. CASE ~reparented'
    <3>1. ~reparented /\ ~Misplaces(x)
      BY <2>2, <2>4, Zenon
    <3>2. Orderly /\ SiblingsDiffer
      BY <3>1 DEF Orderly, TreeUnlessReparented
    <3>3. Changes(Named(path), Nothing)
      BY <1>1, <2>1, <3>1, <3>2, RemovedSeen
    <3> QED BY <1>7, <2>4, <3>1, <3>3, PutAgrees
  <2> QED BY <2>3, <2>4
<1>8. ASSUME NEW path \in Paths,
             \/ fs_mkdir(path) /\ Put(path, Directory)
             \/ fs_create(path) /\ Put(path, File(<< >>))
             \/ touch(path) /\ last_name(path) # NoName /\ Put(path, File(<< >>))
      PROVE  IsTree' /\ TableIsTree'
  BY <1>4, <1>8
     DEF fs_mkdir, fs_create, CreateAt, touch, Created, Directory, File
<1>9. ASSUME NEW path \in Paths, (fs_read(path) \/ fs_list_dir(path)) /\ UNCHANGED tree
      PROVE  IsTree' /\ TableIsTree'
  BY <1>3, <1>9 DEF fs_read, fs_list_dir
<1> QED BY <1>3, <1>5, <1>6, <1>7, <1>8, <1>9 DEF TreeNext, treeVars

(* At first nothing is found anywhere but the root.                        *)
LEMMA AgreeInit == Init /\ tree = Bare => IsTree /\ TableIsTree
<1> SUFFICES ASSUME Init, tree = Bare, NEW p \in NamePaths, fs_parse_path(p) # -1
             PROVE  FALSE
  BY DEF IsTree, TableIsTree, Bare, Seen
<1>1. Orderly /\ Live = {0}
  <2>1. ~reparented /\ file_count = 1
    BY DEF Init
  <2> QED BY <2>1, TableInit, TreeInit DEF Orderly, TreeUnlessReparented, Live
<1>2. TypeOK /\ p \in Seq(Names) /\ Len(p) # 0 /\ p \in Seq(Components)
  BY <1>1, NamePathsAreSequences, PathsAreSequences DEF Orderly
<1>3. fs_parse_path(p) = 0
  BY <1>1, <1>2, ParseNamed
<1>4. Leads(files, file_count, p, 0) /\ 0 \in 0 .. file_count - 1
  BY <1>1, <1>2, <1>3, ParseIsLed DEF Live
<1>5. p # << >>
  BY <1>2
<1> QED BY <1>1, <1>2, <1>4, <1>5, OrderlyGoesUp, LeadsBack

(* Until a deletion misplaces an entry, every path leads to what the calls *)
(* have put there: the last text written to a file, cut off at             *)
(* MAX_FILE_SIZE, a directory, or nothing.                                 *)
THEOREM TableIsAlwaysTree == TreeSpec => []TableIsTree
<1>1. [TreeNext]_treeVars => [Next]_vars
  BY CallsAreCalls DEF treeVars
<1>2. TypeOK /\ TableSafe /\ TreeUnlessReparented /\ IsTree /\ TableIsTree /\ [TreeNext]_treeVars
        => (TypeOK /\ TableSafe /\ TreeUnlessReparented /\ IsTree /\ TableIsTree)'
  BY <1>1, TableStep, TreeStep, AgreeStep
<1> QED BY <1>2, TableInit, TreeInit, AgreeInit, PTL DEF TreeSpec

-----------------------------------------------------------------------------
(***************************************************************************)
(* The shell.                                                              *)
(***************************************************************************)
(* Every command step of execute_command is a step of the file system on   *)
(* the path that build_path made, or leaves the table alone.               *)
LEMMA CommandStep == ASSUME ShellNext PROVE [Next]_vars
<1>1. CASE cd_home
  BY <1>1 DEF cd_home
<1>2. CASE ls(current_dir)
  BY <1>2 DEF ls, fs_list_dir
<1>3. ASSUME NEW arg \in Args, cd(arg) PROVE [Next]_vars
  BY <1>3 DEF cd
<1>4. ASSUME NEW arg \in Args, mkdir(arg) PROVE [Next]_vars
  BY <1>4 DEF mkdir, Built, Next
<1>5. ASSUME NEW arg \in Args, touch_command(arg) PROVE [Next]_vars
  BY <1>5 DEF touch_command, Built, Next
<1>6. ASSUME NEW arg \in Args, rm(arg) PROVE [Next]_vars
  BY <1>6 DEF rm, Built, Next
<1>7. ASSUME NEW arg \in Args, NEW full_path \in Built(arg), ls(full_path) PROVE [Next]_vars
  BY <1>7 DEF ls, fs_list_dir
<1> QED BY <1>1, <1>2, <1>3, <1>4, <1>5, <1>6, <1>7 DEF ShellNext

(* What is proved of the file system therefore holds under the shell.      *)
LEMMA CommandsAreCalls == ShellSpec => Spec
<1>1. ShellInit => Init
  BY DEF ShellInit
<1>2. [ShellNext]_shellVars => [Next]_vars
  BY CommandStep DEF shellVars
<1> QED BY <1>1, <1>2, PTL DEF ShellSpec, Spec

(* The working directory that cd assigns is always one of the paths the    *)
(* file system accepts.                                                    *)
THEOREM ShellTypeCorrect == ShellSpec => []ShellTypeOK
<1>1. ShellInit => current_dir \in Paths
  <2>1. Root \in [1 .. 1 -> Names \cup {NoName}] /\ 1 \in 1 .. MaxDepth
    BY FSAssumption DEF Root
  <2> QED BY <2>1 DEF ShellInit, Paths
<1>2. current_dir \in Paths /\ [ShellNext]_shellVars => (current_dir \in Paths)'
  <2> SUFFICES ASSUME current_dir \in Paths, [ShellNext]_shellVars
               PROVE  current_dir' \in Paths
    OBVIOUS
  <2>1. Root \in Paths
    <3>1. Root \in [1 .. 1 -> Names \cup {NoName}] /\ 1 \in 1 .. MaxDepth
      BY FSAssumption DEF Root
    <3> QED BY <3>1 DEF Paths
  <2>2. CASE cd_home
    BY <2>1, <2>2 DEF cd_home
  <2>3. ASSUME NEW arg \in Args, cd(arg) PROVE current_dir' \in Paths
    BY <2>3 DEF cd, Built
  <2>4. CASE current_dir' = current_dir
    BY <2>4
  <2> QED BY <2>2, <2>3, <2>4 DEF ShellNext, shellVars, ls, mkdir, touch_command, rm
<1>3. ShellSpec => []TypeOK
  BY CommandsAreCalls, TypeCorrect
<1> QED BY <1>1, <1>2, <1>3, PTL DEF ShellSpec, ShellTypeOK

(* Under the shell, too, lookups only ever follow entries in use.          *)
THEOREM ShellTableSafe == ShellSpec => []TableSafe
  BY CommandsAreCalls, TableStaysSafe

(* fs_parse_path of the working directory after a command that does not    *)
(* change it, with the path it is as a constant.                           *)
LEMMA WorkingDirNext ==
  ASSUME TypeOK', NEW path \in Seq(Components), current_dir' = path
  PROVE  fs_parse_path(current_dir)' = fs_parse_path(path)'
  BY DEF fs_parse_path, Descend, FirstMatch, Matches, Live

(* What a path command of the shell does to the table, with the path it    *)
(* hands to the file system.                                               *)
LEMMA CommandShape ==
  ASSUME ShellNext, UNCHANGED current_dir
  PROVE  \/ UNCHANGED vars
         \/ \E path \in Paths, type \in {"FILE", "DIR"} :
              \E dir \in Found(parent_path(path)) : Created(last_name(path), type, dir)
         \/ \E path \in Paths : \E x \in Found(path) \ {0} : Removed(x)
<1>1. CASE cd_home \/ ls(current_dir)
  BY <1>1 DEF cd_home, ls, fs_list_dir
<1>2. ASSUME NEW arg \in Args, cd(arg) \/ \E full_path \in Built(arg) : ls(full_path)
      PROVE  UNCHANGED vars
  BY <1>2 DEF cd, ls, fs_list_dir
<1>3. ASSUME NEW arg \in Args, mkdir(arg) \/ touch_command(arg)
      PROVE  \E path \in Paths, type \in {"FILE", "DIR"} :
               \E dir \in Found(parent_path(path)) : Created(last_name(path), type, dir)
  BY <1>3 DEF mkdir, touch_command, Built, fs_mkdir, CreateAt, touch, Created
<1>4. ASSUME NEW arg \in Args, rm(arg)
      PROVE  \E path \in Paths : \E x \in Found(path) \ {0} : Removed(x)
  BY <1>4 DEF rm, Built, fs_delete_file, Removed
<1> QED BY <1>1, <1>2, <1>3, <1>4 DEF ShellNext

(* What LookupsSurviveCreate and LookupsSurviveDelete say of paths, for    *)
(* the working directory.                                                  *)
THEOREM WorkingDirSurvives == ShellSpec => WorkingDirKept
<1> DEFINE Kept ==
      current_dir' = current_dir /\ ~reparented' =>
        LET before == fs_parse_path(current_dir)
            after  == fs_parse_path(current_dir)'
        IN  \/ before = -1
            \/ files' = files /\ after = before
            \/ file_count' = file_count + 1 /\ after = before
            \/ \E x \in Live : /\ files' = Shifted(files, file_count, x)
                               /\ IF x = before THEN after = -1 /\ Children(x) = {}
                                  ELSE after = Renumber(before, x)
<1>1. ShellSpec => []TypeOK
  BY CommandsAreCalls, TypeCorrect
<1>2. ShellSpec => []TreeUnlessReparented
  BY CommandsAreCalls, TreeKept
<1>3. ASSUME TypeOK, TypeOK', TableSafe, TreeUnlessReparented, current_dir \in Paths, 
             [ShellNext]_shellVars
      PROVE  [Kept]_shellVars
  <2> SUFFICES ASSUME ShellNext, current_dir' = current_dir, ~reparented',
                      fs_parse_path(current_dir) # -1
               PROVE  \/ files' = files /\ fs_parse_path(current_dir)' = fs_parse_path(current_dir)
                      \/ /\ file_count' = file_count + 1
                         /\ fs_parse_path(current_dir)' = fs_parse_path(current_dir)
                      \/ \E x \in Live :
                           /\ files' = Shifted(files, file_count, x)
                           /\ IF x = fs_parse_path(current_dir)
                              THEN fs_parse_path(current_dir)' = -1 /\ Children(x) = {}
                              ELSE fs_parse_path(current_dir)'
                                     = Renumber(fs_parse_path(current_dir), x)
    BY <1>3
  <2>1. PICK wd : wd = current_dir /\ wd \in Seq(Components)
    BY <1>3, PathsAreSequences
  <2>2. PICK before : before = fs_parse_path(wd) /\ before # -1
    BY <2>1
  <2>3. fs_parse_path(current_dir)' = fs_parse_path(wd)'
    BY <1>3, <2>1, WorkingDirNext
  <2>4. CASE UNCHANGED vars
    BY <1>3, <2>1, <2>3, <2>4, UnchangedLookups DEF vars
  <2>5. ASSUME NEW path \in Paths, NEW type \in {"FILE", "DIR"},
               NEW dir \in Found(parent_path(path)), Created(last_name(path), type, dir)
        PROVE  /\ file_count' = file_count + 1
               /\ fs_parse_path(wd)' = before
    <3>1. PICK name \in Components : name = last_name(path)
      BY PathsAreSequences, ElementOfSeq, FSAssumption DEF last_name
    <3>2. dir \in Live
      BY DEF Found
    <3>3. fs_parse_path(wd)' = before
      BY <1>3, <2>1, <2>2, <2>5, <3>1, <3>2, CreatedLookups
    <3> QED BY <2>5, <3>3 DEF Created, fs_create_file
  <2>6. ASSUME NEW path \in Paths, NEW x \in Found(path) \ {0}, Removed(x)
        PROVE  /\ x \in Live
               /\ files' = Shifted(files, file_count, x)
               /\ x = before => fs_parse_path(wd)' = -1 /\ Children(x) = {}
               /\ x # before => fs_parse_path(wd)' = Renumber(before, x)
    <3>1. x \in Live \ {0}
      BY DEF Found
    <3>0. ~reparented /\ ~Misplaces(x)
      <4>1. reparented' = (reparented \/ Misplaces(x))
        BY <2>6 DEF Removed, RemoveSlot
      <4> QED BY <4>1, Zenon
    <3>2. files' = Shifted(files, file_count, x) /\ MayDelete(x)
      BY <2>6 DEF Removed, RemoveSlot
    <3>3. ParentsAreDirs /\ SiblingsDiffer
      BY <1>3, <3>0 DEF TreeUnlessReparented
    <3>4. Children(x) = {}
      BY <1>3, <3>1, <3>2, <3>3, NobodysParent DEF Children
    <3>5. IF before \in {-1, x} THEN fs_parse_path(wd)' = -1
          ELSE fs_parse_path(wd)' = Renumber(before, x)
      BY <1>3, <2>1, <2>2, <2>6, <3>0, <3>1, <3>2, <3>3, RemovedLookups
    <3> QED BY <2>2, <3>1, <3>2, <3>4, <3>5
  <2>7. \/ UNCHANGED vars
        \/ \E path \in Paths, type \in {"FILE", "DIR"} :
             \E dir \in Found(parent_path(path)) : Created(last_name(path), type, dir)
        \/ \E path \in Paths : \E x \in Found(path) \ {0} : Removed(x)
    BY CommandShape
  <2> QED BY <2>1, <2>2, <2>3, <2>4, <2>5, <2>6, <2>7
<1> QED BY <1>1, <1>2, <1>3, ShellTableSafe, ShellTypeCorrect, PTL
       DEF ShellSpec, WorkingDirKept, ShellTypeOK

-----------------------------------------------------------------------------
(* The directories above entry i of a table, level by level.               *)
IsUp(u, t, n, i) ==
  /\ u \in [0 .. n -> SUBSET (0 .. n - 1)]
  /\ u[0] = {i}
  /\ \A k \in 1 .. n : u[k] = u[k - 1] \cup {t[j].parent_index : j \in u[k - 1]}

ParentsBelow(t, n) == \A j \in 0 .. n - 1 : t[j].parent_index \in 0 .. j

(* The levels exist: no parent lies outside of the table.                  *)
LEMMA UpExists ==
  ASSUME NEW t, NEW n \in Nat \ {0}, ParentsBelow(t, n), NEW i \in 0 .. n - 1
  PROVE  \E u : IsUp(u, t, n, i)
<1> DEFINE S == SUBSET (0 .. n - 1)
           G == [k \in 1 .. n |-> [v \in S |-> v \cup {t[j].parent_index : j \in v}]]
<1>1. \A k \in 1 .. n : \A v \in S : G[k][v] = v \cup {t[j].parent_index : j \in v}
  OBVIOUS
<1>2. \A k \in 1 .. n : \A v \in S : G[k][v] \in S
  <2>1. \A j \in 0 .. n - 1 : t[j].parent_index \in 0 .. n - 1
    BY DEF ParentsBelow
  <2> QED BY <2>1, Zenon
<1>3. {i} \in S /\ n \in Nat
  OBVIOUS
<1> HIDE DEF S, G
<1>4. PICK u : Follows(u, n, S, {i}, G)
  BY <1>2, <1>3, RecursionExists
<1>5. ASSUME NEW k \in 1 .. n
      PROVE  u[k] = u[k - 1] \cup {t[j].parent_index : j \in u[k - 1]}
  <2>1. k - 1 \in 0 .. n
    OBVIOUS
  <2>2. u[k - 1] \in S /\ u[k] = G[k][u[k - 1]]
    BY <1>4, <2>1 DEF Follows
  <2> QED BY <1>1, <2>2
<1>6. IsUp(u, t, n, i)
  BY <1>4, <1>5 DEF IsUp, Follows, S
<1> QED BY <1>6

(* UpFrom collects them.                                                   *)
UpFromIsUp ==
  \A i \in Live : \E u : IsUp(u, files, file_count, i) /\ UpFrom(i) = u[file_count]

(* TableSafe as a property of a table.                                     *)
LEMMA SafeIsBelow == TypeOK /\ TableSafe => ParentsBelow(files, file_count)
<1> SUFFICES ASSUME TypeOK, TableSafe, NEW j \in 0 .. file_count - 1
             PROVE  files[j].parent_index \in 0 .. j
  BY DEF ParentsBelow
<1>1. j \in Slots /\ j \in Live /\ j \in Nat
  BY FSAssumption DEF TypeOK, Slots, Live
<1>2. files[j].parent_index \in Nat
  BY <1>1, FSAssumption DEF TypeOK, Entry, Slots
<1> QED BY <1>1, <1>2 DEF TableSafe

(* UpFrom is the last level of going up from parent to parent.             *)
LEMMA UpFromLevels == TypeOK /\ TableSafe => UpFromIsUp
<1> SUFFICES ASSUME TypeOK, TableSafe, NEW i \in Live
             PROVE  \E u : IsUp(u, files, file_count, i) /\ UpFrom(i) = u[file_count]
  BY DEF UpFromIsUp
<1>1. file_count \in Nat \ {0} /\ i \in 0 .. file_count - 1
  BY FSAssumption DEF TypeOK, Live
<1>2. PICK u : IsUp(u, files, file_count, i)
  BY <1>1, SafeIsBelow, UpExists
<1> DEFINE Is(v) == v = [n \in 0 .. file_count |->
                           IF n = 0 THEN {i}
                           ELSE v[n - 1] \cup {files[k].parent_index : k \in v[n - 1]}]
<1>3. Is(u)
  <2>1. \A n \in 0 .. file_count :
          u[n] = IF n = 0 THEN {i}
                 ELSE u[n - 1] \cup {files[k].parent_index : k \in u[n - 1]}
    BY <1>1, <1>2, SMTT(30) DEF IsUp
  <2>2. u = [n \in 0 .. file_count |-> u[n]]
    BY <1>2 DEF IsUp
  <2> QED BY <2>1, <2>2
<1>4. PICK v : Is(v) /\ UpFrom(i) = v[file_count]
  BY <1>3, Zenon DEF UpFrom
<1>5. \A n \in 0 .. file_count : u[n] = v[n]
  <2>1. u[0] = v[0]
    BY <1>1, <1>3, <1>4
  <2>2. ASSUME NEW n \in 1 .. file_count, u[n - 1] = v[n - 1] PROVE u[n] = v[n]
    <3>1. n \in 0 .. file_count /\ n # 0
      BY <1>1
    <3>2. u[n] = u[n - 1] \cup {files[k].parent_index : k \in u[n - 1]}
      BY <1>2 DEF IsUp
    <3>3. v[n] = v[n - 1] \cup {files[k].parent_index : k \in v[n - 1]}
      BY <1>4, <3>1, Zenon
    <3> HIDE DEF Is
    <3> QED BY <2>2, <3>2, <3>3, Zenon
  <2>3. \A n \in 1 .. file_count : u[n - 1] = v[n - 1] => u[n] = v[n]
    BY <2>2
  <2>4. file_count \in Nat
    BY <1>1
  <2> HIDE DEF Is
  <2> QED BY <2>1, <2>3, <2>4, RecursionUnique
<1> HIDE DEF Is
<1>6. UpFrom(i) = u[file_count]
  BY <1>1, <1>4, <1>5
<1> QED BY <1>2, <1>6

(* The same after a step.                                                  *)
LEMMA UpFromLevelsNext ==
  TypeOK' /\ TableSafe' => UpFromIsUp' /\ ParentsBelow(files, file_count)'
  BY UpFromLevels, SafeIsBelow, PTL

(* A level contains the ones below it.                                     *)
LEMMA UpGrows ==
  ASSUME NEW t, NEW n \in Nat, NEW i, NEW u, IsUp(u, t, n, i),
         NEW a \in 0 .. n, NEW b \in 0 .. n, a <= b
  PROVE  u[a] \subseteq u[b]
<1> DEFINE T == {d \in 0 .. n - a : u[a] \subseteq u[a + d]}
<1>1. 0 \in T
  OBVIOUS
<1>2. ASSUME NEW d \in 0 .. n - a - 1, d \in T PROVE d + 1 \in T
  <2>1. a + d + 1 \in 1 .. n /\ a + d + 1 - 1 = a + d /\ a + (d + 1) = a + d + 1
    OBVIOUS
  <2>2. u[a + d] \subseteq u[a + d + 1]
    BY <2>1 DEF IsUp
  <2> QED BY <1>2, <2>1, <2>2
<1>3. n - a \in Nat
  OBVIOUS
<1> HIDE DEF T
<1>4. 0 .. n - a \subseteq T
  BY <1>1, <1>2, <1>3, InductiveUpTo
<1>5. b - a \in T /\ a + (b - a) = b
  BY <1>4
<1> QED BY <1>5 DEF T

(* A parent is found as many levels further up as it lies lower.           *)
LEMMA UpStep ==
  ASSUME NEW t, NEW n \in Nat, NEW i, NEW u, IsUp(u, t, n, i), NEW m \in 0 .. n,
         NEW e \in 0 .. n - 1, m + e <= n, NEW c \in 0 .. e, NEW b \in 0 .. c,
         c \in u[m + e - c], t[c].parent_index = b, b # c
  PROVE  b \in u[m + e - b]
<1>1. PICK k \in 1 .. n : k - 1 = m + e - c
  <2>1. m + e - c + 1 \in 1 .. n /\ (m + e - c + 1) - 1 = m + e - c
    OBVIOUS
  <2> QED BY <2>1
<1>2. b \in u[k]
  <2>1. c \in u[k - 1]
    BY <1>1
  <2>2. b \in {t[j].parent_index : j \in u[k - 1]}
    BY <2>1
  <2>3. u[k] = u[k - 1] \cup {t[j].parent_index : j \in u[k - 1]}
    BY DEF IsUp
  <2> QED BY <2>2, <2>3
<1>3. m + e - b \in 0 .. n /\ k \in 0 .. n /\ k <= m + e - b
  BY <1>1
<1>4. u[k] \subseteq u[m + e - b]
  BY <1>3, UpGrows, Zenon
<1> QED BY <1>2, <1>4

EndsAt(f, path, e) == f[Len(path)] = e

(* Where a walk has been lies above where it ends.                         *)
LEMMA WalkIsAbove ==
  ASSUME NEW t, NEW n \in Nat \ {0}, ParentsBelow(t, n), NEW path \in Seq(Components),
         NEW f, IsWalk(f, t, n, path), NEW i, NEW u, IsUp(u, t, n, i), NEW m \in 0 .. n,
         NEW e \in 0 .. n - 1, EndsAt(f, path, e), e \in u[m], m + e <= n
  PROVE  \A j \in 0 .. Len(path) : f[j] \in u[n]
<1> DEFINE Index == (0 .. n - 1) \cup {-1}
<1>0. PICK len \in Nat : len = Len(path)
  BY LenProperties
<1>a. n \in Nat /\ f \in [0 .. len -> Index] /\ e = f[len]
  BY <1>0 DEF IsWalk, EndsAt
<1>b. ASSUME NEW k \in 1 .. len PROVE f[k] = Step(t, n, f[k - 1], path[k])
  BY <1>0 DEF IsWalk
<1> DEFINE T == {d \in 0 .. len : f[len - d] \in 0 .. e /\ f[len - d] \in u[m + e - f[len - d]]}
<1>1. 0 \in T
  <2>1. len - 0 = len /\ m + e - e = m /\ e \in 0 .. e /\ 0 \in 0 .. len
    BY <1>0
  <2>2. f[len - 0] = e /\ u[m + e - e] = u[m]
    BY <1>a, <2>1
  <2>3. f[len - 0] \in 0 .. e /\ f[len - 0] \in u[m + e - f[len - 0]]
    BY <2>1, <2>2
  <2> QED BY <2>1, <2>3
<1>2. ASSUME NEW d \in 0 .. len - 1, d \in T PROVE d + 1 \in T
  <2>0. len - d \in 1 .. len /\ (len - d) - 1 = len - (d + 1) /\ (len - d) - 1 \in 0 .. len
    BY <1>0
  <2>1. PICK k \in 1 .. len : k = len - d /\ k - 1 = len - (d + 1) /\ k - 1 \in 0 .. len
    BY <2>0
  <2>2. PICK c \in 0 .. e : c = f[k] /\ c \in u[m + e - c]
    BY <1>2, <2>1
  <2>3. PICK b \in Index : b = f[k - 1]
    BY <1>a, <2>1
  <2>4. c = Step(t, n, b, path[k])
    BY <1>b, <2>2, <2>3
  <2>5. b # -1 /\ b \in 0 .. n - 1
    BY <2>2, <2>4 DEF Step
  <2>6. b \in 0 .. c /\ b \in u[m + e - b]
    <3>1. CASE b = c
      BY <2>2, <3>1
    <3>2. CASE b # c
      <4>1. c = FirstOf(Hits(t, n, b, path[k]))
        BY <2>4, <3>2 DEF Step
      <4>2. Hits(t, n, b, path[k]) \in SUBSET (0 .. n - 1)
        BY DEF Hits
      <4>3. c # -1
        BY <2>2
      <4>4. c \in Hits(t, n, b, path[k])
        BY <1>a, <4>1, <4>2, <4>3, FirstOfSet, Zenon
      <4>5. c \in 0 .. n - 1 /\ t[c].parent_index = b
        BY <4>4 DEF Hits
      <4>6. b \in 0 .. c
        BY <4>5 DEF ParentsBelow
      <4>7. b \in u[m + e - b]
        BY <1>a, <2>2, <3>2, <4>5, <4>6, UpStep, Zenon
      <4> QED BY <4>6, <4>7
    <3> QED BY <3>1, <3>2
  <2>7. b \in 0 .. e /\ d + 1 \in 0 .. len
    BY <1>0, <2>2, <2>6
  <2> QED BY <2>1, <2>3, <2>6, <2>7
<1> HIDE DEF T
<1>3. 0 .. len \subseteq T
  BY <1>0, <1>1, <1>2, InductiveUpTo, Zenon
<1>4. ASSUME NEW j \in 0 .. len PROVE f[j] \in u[n]
  <2>1. len - j \in T /\ len - (len - j) = j
    BY <1>0, <1>3
  <2>2. PICK c \in 0 .. e : c = f[j] /\ c \in u[m + e - c]
    BY <2>1 DEF T
  <2>3. PICK k \in 0 .. n : k = m + e - c /\ k <= n
    OBVIOUS
  <2>4. n \in Nat /\ n \in 0 .. n
    OBVIOUS
  <2>5. n \in Nat
    BY <2>4
  <2>6. u[k] \subseteq u[n]
    BY <2>3, <2>4, <2>5, UpGrows, Zenon
  <2> QED BY <2>2, <2>3, <2>6
<1> QED BY <1>0, <1>4

(* A path is the working directory and something more.                     *)
Begins(path, q) == Len(q) <= Len(path) /\ \A k \in 1 .. Len(q) : q[k] = path[k]

Extends(path, q) == q = Root \/ Begins(path, q)

(* Two walks along paths that begin alike go through the same entries.     *)
LEMMA PrefixWalk ==
  ASSUME NEW t, NEW n, NEW path \in Seq(Components), NEW q \in Seq(Components),
         NEW f, IsWalk(f, t, n, path), NEW g, IsWalk(g, t, n, q), Begins(path, q)
  PROVE  \A k \in 0 .. Len(q) : g[k] = f[k]
<1>1. PICK len \in Nat : len = Len(q)
  BY LenProperties
<1>2. g[0] = f[0]
  BY DEF IsWalk
<1>3. InStep(g, f, len)
  <2>1. \A k \in 1 .. len : k \in 1 .. Len(path)
    BY <1>1, LenProperties DEF Begins
  <2> QED BY <1>1, <2>1 DEF IsWalk, Begins, InStep
<1>4. \A k \in 0 .. len : g[k] = f[k]
  BY <1>2, <1>3, InStepAgree
<1> QED BY <1>1, <1>4

(* The path of the working directory leads to where the longer path comes  *)
(* through, so that lies above where the longer path leads.                *)
LEMMA PrefixIsAbove ==
  ASSUME NEW t, NEW n \in Nat \ {0}, ParentsBelow(t, n),
         NEW path \in Seq(Components), NEW q \in Seq(Components), Extends(path, q),
         NEW i, NEW u, IsUp(u, t, n, i), NEW m \in 0 .. n,
         NEW e \in 0 .. n - 1, Leads(t, n, path, e), e \in u[m], m + e <= n,
         NEW c, Leads(t, n, q, c)
  PROVE  c \in u[n]
<1>0. Len(path) \in Nat /\ Len(q) \in Nat
  BY LenProperties
<1>1. PICK f : IsWalk(f, t, n, path) /\ EndsAt(f, path, e)
  BY DEF Leads, EndsAt
<1>2. PICK g : IsWalk(g, t, n, q) /\ g[Len(q)] = c
  BY DEF Leads
<1>3. IsWalk(f, t, n, path)
  BY <1>1
<1>4. EndsAt(f, path, e)
  BY <1>1
<1>5. \A j \in 0 .. Len(path) : f[j] \in u[n]
  BY <1>3, <1>4, WalkIsAbove, ZenonT(30)
<1>6. CASE q = Root
  <2>1. Len(q) = 1 /\ q[1] = NoName
    BY <1>6 DEF Root
  <2>2. g[1] = Step(t, n, g[0], q[1]) /\ g[0] = 0
    BY <1>2, <2>1 DEF IsWalk
  <2>3. c = 0
    BY <1>2, <2>1, <2>2, ZenonT(30) DEF Step
  <2>4. f[0] = 0 /\ 0 \in 0 .. Len(path)
    BY <1>0, <1>1 DEF IsWalk
  <2> QED BY <1>5, <2>3, <2>4
<1>7. CASE Begins(path, q)
  <2>1. IsWalk(g, t, n, q)
    BY <1>2
  <2>2. \A k \in 0 .. Len(q) : g[k] = f[k]
    BY <1>3, <1>7, <2>1, PrefixWalk, SMTT(30)
  <2>3. Len(q) \in 0 .. Len(q) /\ Len(q) \in 0 .. Len(path)
    BY <1>0, <1>7 DEF Begins
  <2> QED BY <1>2, <1>5, <2>2, <2>3
<1> QED BY <1>6, <1>7 DEF Extends

(* What build_path makes of a relative argument goes on from the working   *)
(* directory, and so does the path of its parent.                          *)
LEMMA BuiltExtends ==
  ASSUME current_dir \in Paths, NEW arg \in Relative, NEW path \in Built(arg)
  PROVE  /\ path \in Paths
         /\ Extends(path, current_dir)
         /\ Extends(parent_path(path), current_dir)
<1>1. path \in Paths /\ path = build_path(arg)
  BY DEF Built
<1>2. arg.path \in Paths /\ arg.absolute = FALSE
  BY Zenon DEF Relative
<1>3. PICK wd \in Seq(Components) : wd = current_dir
  BY PathsAreSequences
<1>4. PICK r \in Seq(Components) : r = arg.path /\ 1 <= Len(r)
  BY <1>2, PathsAreSequences, FSAssumption
<1>5. CASE wd = Root
  BY <1>1, <1>3, <1>5 DEF Extends, Begins
<1>6. CASE wd # Root
  <2>1. path = wd \o r
    BY <1>1, <1>2, <1>3, <1>4, <1>6 DEF build_path
  <2>2. /\ path \in Seq(Components) /\ Len(path) = Len(wd) + Len(r)
        /\ Len(wd) \in Nat /\ Len(r) \in Nat
        /\ \A k \in 1 .. Len(wd) : path[k] = wd[k]
    <3>1. Len(wd) \in Nat /\ Len(r) \in Nat
      BY LenProperties
    <3>2. /\ wd \o r \in Seq(Components) /\ Len(wd \o r) = Len(wd) + Len(r)
          /\ \A k \in 1 .. Len(wd) + Len(r) :
               (wd \o r)[k] = IF k <= Len(wd) THEN wd[k] ELSE r[k - Len(wd)]
      BY ConcatProperties
    <3> QED BY <2>1, <3>1, <3>2
  <2>3. /\ Len(parent_path(path)) = Len(path) - 1
        /\ \A k \in 1 .. Len(path) - 1 : parent_path(path)[k] = path[k]
    <3>1. path \in Seq(Components) /\ 1 <= Len(path)
      BY <1>4, <2>2
    <3> QED BY <3>1, FrontOfPath, Zenon
  <2>4. Len(wd) <= Len(path) - 1 /\ Len(wd) <= Len(path)
    BY <1>4, <2>2
  <2>5. \A k \in 1 .. Len(wd) : k \in 1 .. Len(path) - 1
    BY <2>2, <2>4
  <2> QED BY <1>1, <1>3, <2>2, <2>3, <2>4, <2>5 DEF Extends, Begins
<1> QED BY <1>5, <1>6

(* A relative argument never reaches out of the working directory, in any  *)
(* table, damaged ones included.                                           *)
THEOREM RelativeIsBelow == ShellSpec => RelativeStaysBelow
<1> DEFINE Below ==
      \A arg \in Relative :
        /\ mkdir(arg) \/ touch_command(arg) =>
             \E dir \in {fs_parse_path(current_dir)}, new \in {file_count} :
               (dir \in UpFrom(new))'
        /\ rm(arg) =>
             \E x \in Live : /\ files' = Shifted(files, file_count, x)
                             /\ fs_parse_path(current_dir) \in UpFrom(x)
<1>1. ShellSpec => []TypeOK
  BY CommandsAreCalls, TypeCorrect
<1>2. ASSUME TypeOK, TypeOK', TableSafe, TableSafe', current_dir \in Paths
      PROVE  Below
  <2> USE <1>2
  <2>0. /\ file_count \in Nat \ {0} /\ Live = 0 .. file_count - 1
        /\ file_count' \in Nat \ {0}
        /\ ParentsBelow(files, file_count) /\ ParentsBelow(files', file_count')
    BY SafeIsBelow, UpFromLevelsNext, FSAssumption DEF TypeOK, Live
  <2>1. PICK wd \in Seq(Components) : wd = current_dir
    BY PathsAreSequences
  <2>2. PICK before : before = fs_parse_path(wd)
    OBVIOUS
  <2>3. Leads(files, file_count, wd, before)
    BY <2>2, ParseIsLed
  <2>4. ASSUME NEW path \in Seq(Components), Extends(path, wd), NEW e \in Live,
               e = fs_parse_path(path)
        PROVE  before \in UpFrom(e) /\ before \in Live
    <3>1. PICK u : IsUp(u, files, file_count, e) /\ UpFrom(e) = u[file_count]
      BY UpFromLevels DEF UpFromIsUp
    <3>2. /\ 0 \in 0 .. file_count /\ e \in 0 .. file_count - 1
          /\ e \in u[0] /\ 0 + e <= file_count
      BY <2>0, <3>1 DEF IsUp
    <3>3. Leads(files, file_count, path, e)
      BY <2>4, ParseIsLed
    <3>4. IsUp(u, files, file_count, e)
      BY <3>1
    <3>5. before \in u[file_count]
      BY <2>0, <2>3, <2>4, <3>2, <3>3, <3>4, PrefixIsAbove, Zenon
    <3>6. file_count \in 0 .. file_count
      BY <2>0
    <3> QED BY <2>0, <3>1, <3>5, <3>6 DEF IsUp
  <2>5. ASSUME NEW arg \in Relative, mkdir(arg) \/ touch_command(arg)
        PROVE  \E new \in {file_count} : (before \in UpFrom(new))'
    <3>0. PICK path \in Built(arg) :
            \E type \in {"FILE", "DIR"} :
              \E dir \in Found(parent_path(path)) : Created(last_name(path), type, dir)
      BY <2>5 DEF mkdir, touch_command, fs_mkdir, CreateAt, touch, Created
    <3>1. PICK type \in {"FILE", "DIR"}, dir \in Found(parent_path(path)) :
            Created(last_name(path), type, dir)
      BY <3>0
    <3>2. /\ path \in Seq(Components) /\ 1 <= Len(path)
          /\ Extends(parent_path(path), wd)
      BY <2>1, BuiltExtends, PathsAreSequences, FSAssumption
    <3>3. PICK front \in Seq(Components) : front = parent_path(path)
      BY <3>2, FrontOfPath
    <3>4. dir \in Live /\ dir = fs_parse_path(front) /\ dir \in 0 .. file_count - 1
      BY <2>0, <3>3 DEF Found
    <3>5. PICK name \in Components : name = last_name(path)
      BY <3>2, ElementOfSeq DEF last_name
    <3>6. Created(name, type, dir)
      BY <3>1, <3>5
    <3>7. before \in Live /\ before # -1 /\ dir # -1
      BY <2>0, <2>4, <3>2, <3>3, <3>4
    <3>8. fs_parse_path(wd)' = before /\ fs_parse_path(front)' = dir
      BY <2>2, <3>4, <3>6, <3>7, CreatedLookups
    <3>9. Leads(files', file_count', wd, before) /\ Leads(files', file_count', front, dir)
      BY <3>8, ParseIsLedNext DEF ParseIsLedAlways
    <3>10. PICK new : new = file_count
      OBVIOUS
    <3>11. /\ new \in Live' /\ new \in Nat /\ file_count' = new + 1
           /\ files'[new].parent_index = dir
      <4>1. name \in Names \cup {NoName}
        BY DEF Components
      <4>2. file_count' = file_count + 1 /\ files'[file_count].parent_index = dir
        BY <3>4, <3>6, <4>1, CreatedSlots, Zenon
      <4> QED BY <2>0, <3>10, <4>2 DEF Live
    <3>12. PICK u : IsUp(u, files', file_count', new) /\ UpFrom(new)' = u[file_count']
      BY <3>11, UpFromLevelsNext DEF UpFromIsUp
    <3>13. dir \in u[1]
      <4>1. 1 \in 1 .. file_count' /\ 1 - 1 = 0
        BY <3>11
      <4>2. u[1] = u[0] \cup {files'[j].parent_index : j \in u[0]} /\ u[0] = {new}
        BY <3>12, <4>1, Zenon DEF IsUp
      <4> QED BY <3>11, <4>2, Zenon
    <3>14. /\ 1 \in 0 .. file_count' /\ dir \in 0 .. file_count' - 1
           /\ 1 + dir <= file_count'
      BY <3>4, <3>10, <3>11
    <3>15. IsUp(u, files', file_count', new)
      BY <3>12
    <3>16. before \in u[file_count']
      <4>1. Leads(files', file_count', wd, before)
        BY <3>9
      <4>2. Leads(files', file_count', front, dir)
        BY <3>9
      <4>3. Extends(front, wd)
        BY <3>2, <3>3
      <4> QED BY <2>0, <3>13, <3>14, <3>15, <4>1, <4>2, <4>3, PrefixIsAbove
    <3> QED BY <3>10, <3>12, <3>16
  <2>6. ASSUME NEW arg \in Relative, rm(arg)
        PROVE  \E x \in Live : /\ files' = Shifted(files, file_count, x)
                               /\ before \in UpFrom(x)
    <3>0. PICK path \in Built(arg) : \E x \in Found(path) \ {0} : RemoveSlot(x)
      BY <2>6 DEF rm, fs_delete_file
    <3>1. PICK x \in Found(path) \ {0} : RemoveSlot(x)
      BY <3>0
    <3>2. path \in Seq(Components) /\ Extends(path, wd)
      BY <2>1, BuiltExtends, PathsAreSequences
    <3>3. x \in Live /\ x = fs_parse_path(path)
      BY DEF Found
    <3>4. before \in UpFrom(x)
      BY <2>4, <3>2, <3>3
    <3> QED BY <3>1, <3>3, <3>4 DEF RemoveSlot
  <2> QED BY <2>1, <2>2, <2>5, <2>6
<1> QED BY <1>1, <1>2, ShellTableSafe, ShellTypeCorrect, PTL
       DEF ShellSpec, RelativeStaysBelow, ShellTypeOK
=============================================================================

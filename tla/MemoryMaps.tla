----------------------------- MODULE MemoryMaps -----------------------------
(***************************************************************************)
(* /proc/self/maps and what the loader asks of it: utils/elf_util.cpp and     *)
(* the two searches of hook/plt.cpp.  The maps are a set of entries that do    *)
(* not overlap, listed by address.  Addresses, offsets and sizes are pages,    *)
(* sizes rounded up.  A path is a directory and a name; a name without a        *)
(* directory has the directory NoDir, and so has a mapping of no file ([...]). *)
(***************************************************************************)
EXTENDS Naturals

NoDir == "-"
NoPath == [dir |-> NoDir, name |-> "none"]
NoMapping == [none |-> TRUE]

\* parseMaps lists them by address: the first of some of them.
FirstOf(entries) == CHOOSE m \in entries : \A n \in entries : m.start =< n.start

Span(m) == m.end - m.start

Covers(m, page) == m.start =< page /\ page < m.end

LoadBase(m) == m.start - m.offset

mapMatchesName(m, name) ==
  /\ m.path.dir # NoDir
  /\ IF name.dir # NoDir THEN m.path = name ELSE m.path.name = name.name

resolveMapPath(maps, name) ==
  LET matching == {m \in maps : mapMatchesName(m, name)}
  IN IF matching = {} THEN NoPath ELSE FirstOf(matching).path

\* A bug: a mapping of the whole file is taken for a segment.
findLibraryBaseAnywhere(maps, name, whole) ==
  LET matching == {m \in maps : mapMatchesName(m, name) /\ m.start >= m.offset}
  IN IF matching = {} THEN 0 ELSE LoadBase(FirstOf(matching))

\* A mapping of the whole file is passed over as another resolver's, unless it is
\* the only one.  A span of the file's size rounded up to a page passes the test
\* of the code, and so does no other.
findLibraryBase(maps, name, whole) ==
  LET matching == {m \in maps : mapMatchesName(m, name)}
      wholeFile(m) == matching # {m} /\ whole # 0 /\ Span(m) = whole
      segments == {m \in matching : m.start >= m.offset /\ ~wholeFile(m)}
  IN IF segments = {} THEN 0 ELSE LoadBase(FirstOf(segments))

\* pltHook: the mapping of a file that holds an address, or that an image with
\* that load base has.
findMapping(maps, base) ==
  LET hits == {m \in maps : m.ino # 0 /\ (Covers(m, base) \/ (m.start >= m.offset /\ base = LoadBase(m)))}
  IN IF hits = {} THEN NoMapping ELSE FirstOf(hits)

\* A bug: any mapping of the file will do.
firstMappingOfInode(maps, hit) ==
  LET headers == {m \in maps : m.ino = hit.ino /\ m.readable /\ m.offset = 0}
  IN IF headers = {} THEN hit ELSE FirstOf(headers)

\* The first readable mapping of the image hit belongs to, at best the one of the
\* beginning of the file.
firstMappingOfFile(maps, hit) ==
  LET ofImage == {m \in maps : /\ m.ino = hit.ino /\ m.start >= m.offset
                               /\ LoadBase(m) = LoadBase(hit) /\ m.readable}
      headers == {m \in ofImage : m.offset = 0}
  IN IF hit.start < hit.offset \/ ofImage = {} THEN hit
     ELSE IF headers # {} THEN FirstOf(headers) ELSE FirstOf(ofImage)
=============================================================================

------------------------------- MODULE JsonFs -------------------------------
(***************************************************************************)
(* sem03-lowlevel-io-fs/fuse/fuse_json.py: a JSON value shown as a read-   *)
(* only file system.  _build_tree() flattens the value into files and      *)
(* dirs, two dictionaries from paths; getattr(), readdir() and read() look *)
(* there.  Somebody who uses it, external, walks down from the root and    *)
(* reads a file piece by piece.                                            *)
(*                                                                         *)
(* A path is the sequence of its names.  The names are plain: os.path.join *)
(* takes one that begins with a slash for a path from the root, and an     *)
(* empty one for none.  A scalar is given by the length of its str(), a    *)
(* list by its items under "0" and "1".                                    *)
(***************************************************************************)
EXTENDS Naturals, Sequences, SequencesExt

CONSTANTS
    Key,        \* the names that objects use
    MaxSize     \* bound: the length of a scalar, and of the pieces read

VARIABLES
    program,
    json_data,
    todo,       \* the calls of _build_tree() to come: path and value
    files,      \* the length of the content of each file
    dirs,       \* the names in each directory
    path,       \* where the user is
    offset,     \* how much of the file was read
    whole       \* read() has returned nothing

vars == <<program, json_data, todo, files, dirs, path, offset, whole>>

Scalar == {[kind |-> "scalar", size |-> n] : n \in 0 .. MaxSize}

\* The objects and lists of such values; a list is filled from the front.
Container(value) ==
    {[kind |-> "object", items |-> f] : f \in UNION {[K -> value] : K \in SUBSET Key}}
    \cup {[kind |-> "list", items |-> f] :
             f \in UNION {[K -> value] : K \in {{}, {"0"}, {"0", "1"}}}}

Json == LET flat == Scalar \cup Container({[kind |-> "scalar", size |-> MaxSize]})
        IN  Scalar \cup Container(flat)

IsScalar(data) == data.kind = "scalar"
Names(data)    == DOMAIN data.items
-----------------------------------------------------------------------------
(* _build_tree() *)

\* The names of data with a scalar below, or with an object or a list.
Leaves(data)   == {name \in Names(data) : IsScalar(data.items[name])}
Branches(data) == Names(data) \ Leaves(data)

\* One call, for an object or a list: its names are listed, its scalars become
\* files, and each of its containers a directory that a further call fills.
BuildTree ==
    LET p    == Head(todo)[1]
        data == Head(todo)[2]
        below(names) == {Append(p, name) : name \in names}
        value(q)     == data.items[Last(q)]
    IN
    /\ todo # << >>
    /\ dirs' = [q \in DOMAIN dirs \cup {p} \cup below(Branches(data)) |->
                    IF q = p THEN Names(data)
                    ELSE IF q \in below(Branches(data)) THEN {} ELSE dirs[q]]
    /\ files' = [q \in DOMAIN files \cup below(Leaves(data)) |->
                    IF q \in below(Leaves(data)) THEN value(q).size ELSE files[q]]
    /\ todo' = SetToSeq({<<q, value(q)>> : q \in below(Branches(data))}) \o Tail(todo)
    /\ UNCHANGED <<program, json_data, path, offset, whole>>
-----------------------------------------------------------------------------
(* The user, once the file system is mounted *)

\* readdir() lists the name and getattr() finds it.
Enter(name) ==
    LET new_path == Append(path, name) IN
    /\ todo = << >>
    /\ path \in DOMAIN dirs /\ name \in dirs[path]
    /\ new_path \in DOMAIN files \cup DOMAIN dirs
    /\ path' = new_path
    /\ UNCHANGED <<program, json_data, todo, files, dirs, offset, whole>>

\* Deviation: content[offset:size], the end of the slice taken for its length.
SliceToSize(content, at, size) ==
    IF at >= content \/ at >= size THEN 0
    ELSE IF size < content THEN size - at ELSE content - at

\* The length of content[offset:offset + size], empty behind the end.
Slice(content, at, size) ==
    IF at >= content THEN 0
    ELSE IF at + size < content THEN size ELSE content - at

ReadPiece(size) ==
    LET n == Slice(files[path], offset, size) IN
    /\ todo = << >>
    /\ path \in DOMAIN files
    /\ offset' = offset + n
    /\ whole' = (n = 0)
    /\ UNCHANGED <<program, json_data, todo, files, dirs, path>>
-----------------------------------------------------------------------------
\* A file that holds only a scalar leaves the root empty.
Init ==
    /\ program = "fuse_json"
    /\ json_data \in Json
    /\ todo = IF IsScalar(json_data) THEN << >> ELSE <<<< << >>, json_data >>>>
    /\ files = << >>
    /\ dirs = [p \in {<< >>} |-> {}]
    /\ path = << >>
    /\ offset = 0
    /\ whole = FALSE

Next ==
    \/ BuildTree
    \/ \E name \in Key \cup {"0", "1"} : Enter(name)
    \/ \E size \in 1 .. MaxSize : ReadPiece(size)
-----------------------------------------------------------------------------
(* Properties *)

Mounted == todo = << >>

\* The value at path p of the JSON file.
ValueAt(p) ==
    LET value[k \in 0 .. Len(p)] ==
            IF k = 0 THEN json_data ELSE value[k - 1].items[p[k]]
    IN  value[Len(p)]

\* Once the tree is built it is the JSON file: each path is a file or a
\* directory and not both, a directory lists the names of its value, each
\* name listed can be found, and a file is as long as its value's text;
\* whoever has read a file until nothing comes has read all of it.
TreeFaithful ==
    Mounted =>
        /\ DOMAIN files \cap DOMAIN dirs = {}
        /\ \A p \in DOMAIN files : files[p] = ValueAt(p).size
        /\ \A p \in DOMAIN dirs :
              /\ dirs[p] = IF IsScalar(json_data) THEN {} ELSE Names(ValueAt(p))
              /\ \A name \in dirs[p] : Append(p, name) \in DOMAIN files \cup DOMAIN dirs
        /\ whole => offset = ValueAt(path).size
=============================================================================

-------------------------------- MODULE Initrd -------------------------------
(***************************************************************************)
(* The initial RAM disk: initialise_initrd and the callbacks it gives the  *)
(* nodes (kernel/filesystem/initrd.c), the dispatch of                     *)
(* kernel/filesystem/file.c, and the loop in which _start lists the files  *)
(* (kernel/kernel.c).                                                      *)
(*                                                                         *)
(* The image lies from the address location on: nfiles, the file headers   *)
(* (one word each here), the files, somewhere behind them.  A file's       *)
(* content is a sequence of bytes; NUL is the byte a string ends with.     *)
(***************************************************************************)
EXTENDS Integers, Sequences, FiniteSetsExt

CONSTANTS
  Names,     \* names of files in the image; they may include "/" and "dev"
  Images,    \* what the image can be: a sequence of files
  MaxRead,   \* bound on the offset and the size of a read
  BufSize,   \* bytes of buf in _start (256)
  location   \* where the boot loader put the image

Octets == 0 .. 255

\* A file's name and content, and where the tool that made the image put the content.
File == [name : Names, content : Seq(Octets), start : Nat]

\* The files lie behind the headers and do not overlap.
LaidOut(image) ==
  \A k \in DOMAIN image :
    /\ image[k].start > Len(image)
    /\ \A j \in DOMAIN image \ {k} :
         \/ image[j].start + Len(image[j].content) <= image[k].start
         \/ image[k].start + Len(image[k].content) <= image[j].start

ASSUME InitrdAssumption ==
  /\ Images \subseteq Seq(File) /\ \A image \in Images : LaidOut(image)
  /\ MaxRead \in Nat /\ location \in Nat
  /\ BufSize \in Nat \ {0}

VARIABLES
  files,        \* the image's files
  file_headers, \* the headers in the image: name, offset, length
  root_nodes,   \* the nodes: inode, length, flags, read; nodes 0 and 1 are "/" and "dev"
  root_dirents, \* the names of the nodes
  initrdStage, i,        \* the loop of _start
  node,         \* the node _start lists
  buf,          \* the buffer of _start
  printed       \* printed[k]: what was printed for the k-th node, Nothing before

initrdVars == <<files, file_headers, root_nodes, root_dirents, initrdStage, i, node, buf, printed>>

NUL == 0
Garbage == 255      \* a byte _start's stack happens to hold
NoNode == -1
Nothing == <<-1>>    \* not printed yet
Directory == <<-2>>  \* "(directory)" was printed

nfiles == Len(files)
nroot_nodes == nfiles + 2

\* What is at an address.
Byte(address) ==
  LET there == {k \in 1 .. nfiles :
                  /\ location + files[k].start <= address
                  /\ address < location + files[k].start + Len(files[k].content)}
  IN IF there = {} THEN Garbage
     ELSE LET k == CHOOSE k \in there : TRUE
          IN files[k].content[address - location - files[k].start + 1]

InitrdInit ==
  /\ files = << >> /\ file_headers = << >>
  /\ root_nodes = << >> /\ root_dirents = << >>
  /\ initrdStage = "image" /\ i = 0 /\ node = NoNode
  /\ buf = << >>
  /\ printed = << >>

\* The image the boot loader found, and what _start's stack holds where buf is.
loadImage ==
  /\ initrdStage = "image"
  /\ files' \in Images
  /\ file_headers' = [k \in 1 .. nfiles' |->
       [name |-> files'[k].name, offset |-> files'[k].start, length |-> Len(files'[k].content)]]
  /\ buf' \in {[b \in 1 .. BufSize |-> Garbage], [b \in 1 .. BufSize |-> NUL]}
  /\ printed' = [k \in 0 .. nroot_nodes' - 1 |-> Nothing]
  /\ initrdStage' = "initialise_initrd"
  /\ UNCHANGED <<root_nodes, root_dirents, i, node>>

------------------------------------------------------------------------------
\* initrd.c.  Nodes and directory entries are indexed from 0.
initialise_initrd ==
  /\ initrdStage = "initialise_initrd"
  /\ file_headers' = [k \in 1 .. nfiles |->
       [file_headers[k] EXCEPT !.offset = @ + location]]
  /\ root_dirents' = [n \in 0 .. nroot_nodes - 1 |->
       IF n = 0 THEN "/" ELSE IF n = 1 THEN "dev" ELSE file_headers[n - 1].name]
  /\ root_nodes' = [n \in 0 .. nroot_nodes - 1 |->
       [inode |-> n, directory |-> n < 2,
        length |-> IF n < 2 THEN 0 ELSE file_headers[n - 1].length]]
  /\ initrdStage' = "readdir"
  /\ UNCHANGED <<files, i, node, buf, printed>>

\* Variant with a bug: a read past the end is cut to the whole length.
initrd_readWhole(n, offset, size) ==
  LET header == file_headers[n - 1]
      count == IF offset > header.length THEN 0
               ELSE IF offset + size > header.length THEN header.length
               ELSE size
  IN [b \in 1 .. count |-> Byte(header.offset + offset + b - 1)]

\* The bytes initrd_read copies.
initrd_read(n, offset, size) ==
  LET header == file_headers[n - 1]
      count == IF offset > header.length THEN 0
               ELSE IF offset + size > header.length THEN header.length - offset
               ELSE size
  IN [b \in 1 .. count |-> Byte(header.offset + offset + b - 1)]

\* The first node with the name.
initrd_finddir(name) ==
  LET named == {n \in 0 .. nroot_nodes - 1 : root_dirents[n] = name}
  IN IF named = {} THEN NoNode ELSE Min(named)

\* file.c: a node without the callback reads nothing, and only a directory finds
\* something.  Directories have no read, files no finddir.
read_fs(n, offset, size) == IF root_nodes[n].directory THEN << >> ELSE initrd_read(n, offset, size)
finddir_fs(n, name) == IF root_nodes[n].directory THEN initrd_finddir(name) ELSE NoNode

------------------------------------------------------------------------------
\* The loop of _start.
readdir_fs ==
  /\ initrdStage = "readdir"
  /\ initrdStage' = IF i >= nroot_nodes THEN "done" ELSE "finddir"
  /\ UNCHANGED <<files, file_headers, root_nodes, root_dirents, i, node, buf, printed>>

finddir ==
  /\ initrdStage = "finddir"
  /\ node' = finddir_fs(0, root_dirents[i])
  /\ initrdStage' = IF root_nodes[node'].directory THEN "directory" ELSE "file"
  /\ UNCHANGED <<files, file_headers, root_nodes, root_dirents, i, buf, printed>>

directory ==
  /\ initrdStage = "directory"
  /\ printed' = [printed EXCEPT ![i] = Directory]
  /\ i' = i + 1
  /\ initrdStage' = "readdir"
  /\ UNCHANGED <<files, file_headers, root_nodes, root_dirents, node, buf>>

\* The string at buf.  If buf has no NUL, it goes on past buf, with any byte.
StringsIn(b) ==
  IF \E j \in 1 .. BufSize : b[j] = NUL
  THEN {SubSeq(b, 1, Min({j \in 1 .. BufSize : b[j] = NUL}) - 1)}
  ELSE {b, Append(b, Garbage)}

\* Variant with a bug: buf is not cleared.
fileNotCleared ==
  /\ initrdStage = "file"
  /\ LET data == read_fs(node, 0, BufSize)
         filled == [b \in 1 .. BufSize |-> IF b <= Len(data) THEN data[b] ELSE buf[b]]
     IN /\ \E string \in StringsIn(filled) : printed' = [printed EXCEPT ![i] = string]
        /\ buf' = filled
  /\ i' = i + 1
  /\ initrdStage' = "readdir"
  /\ UNCHANGED <<files, file_headers, root_nodes, root_dirents, node>>

\* read_fs overwrites the start of buf, the string there is printed, and buf
\* cleared for the next file.
file ==
  /\ initrdStage = "file"
  /\ LET data == read_fs(node, 0, BufSize)
         filled == [b \in 1 .. BufSize |-> IF b <= Len(data) THEN data[b] ELSE buf[b]]
     IN \E string \in StringsIn(filled) : printed' = [printed EXCEPT ![i] = string]
  /\ buf' = [b \in 1 .. BufSize |-> NUL]
  /\ i' = i + 1
  /\ initrdStage' = "readdir"
  /\ UNCHANGED <<files, file_headers, root_nodes, root_dirents, node>>

InitrdNext == loadImage \/ initialise_initrd \/ readdir_fs \/ finddir \/ directory \/ file

InitrdSpec == InitrdInit /\ [][InitrdNext]_initrdVars

------------------------------------------------------------------------------
InitrdTypeOK ==
  /\ \A k \in DOMAIN file_headers :
       file_headers[k].offset \in {files[k].start, location + files[k].start}
  /\ DOMAIN root_nodes = DOMAIN root_dirents
  /\ initrdStage \in {"image", "initialise_initrd", "readdir", "finddir", "directory", "file", "done"}
  /\ i \in 0 .. nroot_nodes
  /\ node \in {NoNode} \cup 0 .. nroot_nodes - 1
  /\ initrdStage # "image" =>
       /\ buf \in [1 .. BufSize -> Octets]
       /\ DOMAIN printed = 0 .. nroot_nodes - 1

\* A file the lookup can find: no directory and no earlier file has its name.
Findable(k) ==
  /\ files[k].name \notin {"/", "dev"}
  /\ \A j \in 1 .. k - 1 : files[j].name # files[k].name

\* Once initialised, a file looked up by its name reads as its content, from any
\* offset and for any size, although its header was edited in the image and its
\* index shifted by the two directories (initrd.c:15).
FilesByName ==
  root_nodes # << >> =>
    \A k \in 1 .. nfiles : Findable(k) =>
      \A offset, size \in 0 .. MaxRead :
        read_fs(finddir_fs(0, files[k].name), offset, size)
          = SubSeq(files[k].content, offset + 1, Min({offset + size, Len(files[k].content)}))

\* What the loop should print of a file: its bytes before the first NUL, as many as
\* buf takes.
Text(k) ==
  LET content == files[k].content
      ends == {j \in 1 .. Len(content) : content[j] = NUL} \cup {Len(content) + 1, BufSize + 1}
  IN SubSeq(content, 1, Min(ends) - 1)

FileListedBefore(n) == \E m \in 0 .. n - 1 : printed[m] \notin {Nothing, Directory}

\* Every file that can be found is printed from its first byte; nothing of an
\* earlier file follows it if it leaves room for a NUL, and what _start's stack held
\* can follow the first file only (kernel.c:213, "contents").
PrintsText ==
  \A k \in 1 .. nfiles :
    Findable(k) /\ printed[k + 1] # Nothing =>
      /\ SubSeq(printed[k + 1], 1, Len(Text(k))) = Text(k)
      /\ Len(Text(k)) < BufSize /\ FileListedBefore(k + 1) => printed[k + 1] = Text(k)
==============================================================================

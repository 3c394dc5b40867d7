----------------------------- MODULE HttpTarget -----------------------------
(***************************************************************************)
(* From the target of a request to its answer: the text is coded and taken *)
(* apart (UrlCode), and a path is looked up by Http_Server::Route of       *)
(* Http.hpp or by HandleRequest of echo/echoserver.cc, while another       *)
(* process adds and removes files.                                         *)
(*                                                                         *)
(* Names are short: "a", and "i.h" and ".h" for "index.html" and ".html".  *)
(* The root of the files is "./", so that it ends in a slash and holds a   *)
(* dot, as the roots in the examples do.                                   *)
(***************************************************************************)
EXTENDS UrlCode

CONSTANTS
  MaxPieces,   (* bound: most pieces of a target                           *)
  MaxChanges   (* bound: changes of the tree while a request is handled;   *)
               (* with one, no file is replaced by a directory             *)

ASSUME TargetAssumption == MaxPieces \in Nat /\ MaxChanges \in 0 .. 1

VARIABLES
  target,      (* the text of a target                                     *)
  pieces,      (* ... and how many pieces it was made of                   *)
  pc,          (* where the handling of a request is, "target" before it   *)
  server,      (* whose it is: "Http_Server" or "HttpServer" (echo)        *)
  method,
  path,        (* req._path                                                *)
  tree,        (* the files under the root: their paths, split             *)
  file,        (* the name that was found, or that is to be read           *)
  reply,       (* the answer                                               *)
  trees        (* history: the trees since the request came                *)

vars == <<target, pieces, pc, server, method, path, tree, file, reply, trees>>

A == 97
Index == <<105, Dot, 104>>
Html == <<Dot, 104>>
Root == <<Dot, Slash>>

(* Targets are made of these; the letters hold a byte above 127, and the   *)
(* escapes of capital and of small digits.                                 *)
Pieces == {<<Slash>>, <<Slash, A>>, Html, <<Slash, Dot>>, <<Slash, Dot, Dot>>,
           <<Percent, 50, 69, Percent, 50, 101>>, <<Percent>>, <<Question>>, <<Plus>>,
           <<Space>>, <<Ampersand>>, <<Equals>>, <<228>>}

(* A name is a file or a directory, not both. *)
Trees ==
  {t \in SUBSET {<<Index>>, <<<<A>>>>, <<<<A>> \o Html>>, <<<<A>>, Index>>} :
     \A f, g \in t : ~IsStrictPrefix(f, g)}

-----------------------------------------------------------------------------
(* The file system: where a name leads from the root, step by step, each   *)
(* of which has to be a directory.                                         *)
Outside == <<<<0>>>>

IsDir(t, p) == p = <<>> \/ \E f \in t : IsStrictPrefix(p, f)

StepTo(t, at, piece) ==
  IF ~IsDir(t, at) \/ (piece = <<Dot, Dot>> /\ at = <<>>) THEN Outside
  ELSE IF piece = <<Dot>> THEN at
  ELSE IF piece = <<Dot, Dot>> THEN Front(at)
  ELSE Append(at, piece)

Follow(t, v) ==
  LET at[i \in 0 .. Len(v)] == IF i = 0 THEN <<>> ELSE StepTo(t, at[i - 1], v[i])
  IN  at[Len(v)]

Walk(t, name) == Follow(t, split(name, <<Slash>>))

EndsInSlash(name) == name # <<>> /\ Last(name) = Slash

IsRegular(t, name) == ~EndsInSlash(name) /\ Walk(t, name) \in t

IsDirectory(t, name) == IsDir(t, Walk(t, name))

-----------------------------------------------------------------------------
NoReply == [status |-> 0, handler |-> 0, file |-> Outside, type |-> "none"]
Reply(status) == [NoReply EXCEPT !.status = status]
Page(t, name) == [Reply(200) EXCEPT !.file = Walk(t, name), !.type = ExMime(name)]

(* Handlers of the user, by the paths their expressions match. *)
Handlers(m) ==
  IF m = "POST" THEN <<{<<Slash, A>>}>>
  ELSE <<{<<Slash, A>> \o Html, <<Slash>>}, {<<Slash, A>>, <<Slash>>}>>

Init ==
  /\ target = <<>>
  /\ pieces = 0
  /\ pc = "target"
  /\ server = "none"
  /\ method = "none"
  /\ path = <<>>
  /\ tree = {}
  /\ file = <<>>
  /\ reply = NoReply
  /\ trees = {}

Extend(piece) ==
  /\ pc = "target" /\ pieces < MaxPieces
  /\ target' = target \o piece
  /\ pieces' = pieces + 1
  /\ UNCHANGED <<pc, server, method, path, tree, file, reply, trees>>

(* What ParseHttpLine takes of the text between the method and the version *)
(* (one target or none): there may be spaces around a target and none in   *)
(* it, and its query has to be sound.                                      *)
Targets(text) ==
  LET spans == {r \in (1 .. Len(text)) \X (1 .. Len(text)) :
                  /\ r[1] <= r[2]
                  /\ \A i \in 1 .. Len(text) : text[i] = Space <=> i \notin r[1] .. r[2]}
  IN  {t \in {SubSeq(text, r[1], r[2]) : r \in spans} : Params(QueryOf(t)).sound}

Refuse ==
  /\ pc = "target" /\ Targets(target) = {}
  /\ pc' = "done"
  /\ reply' = Reply(400)
  /\ target' = <<>>
  /\ pieces' = 0
  /\ UNCHANGED <<server, method, path, tree, file, trees>>

Request(s, m, t) ==
  /\ pc = "target"
  /\ server' = s
  /\ method' = m
  /\ tree' = t
  /\ trees' = {t}
  /\ \E text \in Targets(target) : path' = PathOf(text)
  /\ pc' = IF s = "Http_Server" THEN "route" ELSE "handle"
  /\ target' = <<>>
  /\ pieces' = 0
  /\ UNCHANGED <<file, reply>>

(* Another process adds or removes a file. *)
Change(t) ==
  /\ pc \notin {"target", "done"}
  /\ Cardinality(trees) <= MaxChanges
  /\ t # tree /\ Cardinality((t \ tree) \union (tree \ t)) = 1
  /\ tree' = t
  /\ trees' = trees \union {t}
  /\ UNCHANGED <<target, pieces, pc, server, method, path, file, reply>>

Finish(answer) ==
  /\ pc' = "done"
  /\ reply' = answer
  /\ UNCHANGED <<target, pieces, server, method, path, tree, file, trees>>

Go(label, name) ==
  /\ pc' = label
  /\ file' = name
  /\ UNCHANGED <<target, pieces, server, method, path, tree, reply, trees>>

ReadFile(failure) ==
  Finish(IF IsRegular(tree, file) THEN Page(tree, file) ELSE Reply(failure))

-----------------------------------------------------------------------------
(* Http_Server. *)

BackPath(p) == Root \o p \o (IF EndsInSlash(p) THEN Index ELSE <<>>)

IsFileHandler(t, m, p) ==
  m \in {"GET", "HEAD"} /\ VaildPath(p) /\ IsRegular(t, BackPath(p))

(* The number of the first handler that matches is its answer. *)
Dispather(m, p) ==
  LET at == {i \in 1 .. Len(Handlers(m)) : p \in Handlers(m)[i]} IN
  IF at = {} THEN Reply(404) ELSE [Reply(200) EXCEPT !.handler = Min(at)]

Route ==
  /\ pc = "route"
  /\ IF IsFileHandler(tree, method, path)
     THEN Go("file", BackPath(path))
     ELSE Finish(Dispather(method, path))

(* What comes of reading a directory depends on the file system: no byte,  *)
(* a failed read, or a length that resize refuses with an exception, which *)
(* nobody catches (NoReply, the process ends).                             *)
ReadRoot == \E answer \in {Page(tree, Root), Reply(404), NoReply} : Finish(answer)

(* back() of an empty path is undefined: FileHandler may see a slash, as   *)
(* IsFileHandler did at the end of the root, or not, and reads the root.   *)
FileHandler ==
  /\ pc = "file"
  /\ \/ ReadFile(404)
     \/ path = <<>> /\ ReadRoot

-----------------------------------------------------------------------------
(* HttpServer. *)

HandleRequest ==
  /\ pc = "handle"
  /\ IF method \notin {"GET", "HEAD"} THEN Finish(Reply(405))
     ELSE IF ~VaildPath(path) THEN Finish(Reply(403))
     ELSE Go("regular", Root \o (IF path \in {<<>>, <<Slash>>} THEN <<Slash>> \o Index ELSE path))

TryRegular ==
  /\ pc = "regular"
  /\ Go(IF IsRegular(tree, file) THEN "read" ELSE "html", file)

(* A path without a dot and without a slash at its end may lack ".html". *)
TryHtml ==
  /\ pc = "html"
  /\ IF /\ ~Contains(SubSeq(file, Len(Root) + 1, Len(file)), Dot)
        /\ ~EndsInSlash(file)
        /\ IsRegular(tree, file \o Html)
     THEN Go("read", file \o Html)
     ELSE Go("directory", file)

TryDirectory ==
  /\ pc = "directory"
  /\ IF ~EndsInSlash(file) /\ IsDirectory(tree, file)
     THEN Finish(Reply(302))
     ELSE Go("index", file)

(* Mistake: the name that was found first is kept. *)
TryIndexOfFile ==
  /\ pc = "index"
  /\ IF EndsInSlash(file) /\ IsRegular(tree, file \o Index)
     THEN Go("read", file)
     ELSE Finish(Reply(404))

TryIndex ==
  /\ pc = "index"
  /\ IF EndsInSlash(file) /\ IsRegular(tree, file \o Index)
     THEN Go("read", file \o Index)
     ELSE Finish(Reply(404))

Read ==
  /\ pc = "read"
  /\ ReadFile(500)

(* The next request. *)
Again ==
  /\ pc = "done"
  /\ pc' = "target"
  /\ server' = "none" /\ method' = "none" /\ path' = <<>>
  /\ tree' = {} /\ trees' = {} /\ file' = <<>> /\ reply' = NoReply
  /\ UNCHANGED <<target, pieces>>

Next ==
  \/ \E piece \in Pieces : Extend(piece)
  \/ \E s \in {"Http_Server", "HttpServer"}, m \in {"GET", "HEAD", "POST"}, t \in Trees :
       Request(s, m, t)
  \/ Refuse
  \/ \E t \in Trees : Change(t)
  \/ Route \/ FileHandler
  \/ HandleRequest \/ TryRegular \/ TryHtml \/ TryDirectory \/ TryIndex \/ Read
  \/ Again

Spec == Init /\ [][Next]_vars

-----------------------------------------------------------------------------
(* Decoding undoes encoding, for every text and with either reading of a   *)
(* space, and what was encoded holds no character that means anything in a *)
(* target but the escape itself.  Decoding any text gives bytes.           *)
CodingInverts ==
  pc = "target" =>
    \A plus \in BOOLEAN :
      LET code == UrlEnCode(target, plus) IN
      /\ UrlDecode(code, plus) = target
      /\ UrlDecode(target, plus) \in Seq(Bytes)
      /\ ToSet(code) \subseteq Unreserved \union {Percent} \union (IF plus THEN {Plus} ELSE {})

(* Where the runs of text without a separator begin and end. *)
Runs(text, sep) ==
  LET n == Len(text) IN
  {r \in (1 .. n) \X (1 .. n) :
     /\ r[1] <= r[2]
     /\ \A i \in r[1] .. r[2] : text[i] # sep
     /\ r[1] = 1 \/ text[r[1] - 1] = sep
     /\ r[2] = n \/ text[r[2] + 1] = sep}

(* split returns the runs without a separator as they stand, in order, and *)
(* no empty piece, however separators repeat, lead or end the text.        *)
SplitIsMaximalRuns ==
  pc = "target" =>
    \A sep \in {Slash, Ampersand} :
      LET v == split(target, <<sep>>)
          runs == Runs(target, sep)
      IN  /\ Len(v) = Cardinality(runs)
          /\ \A r \in runs :
               v[Cardinality({q \in runs : q[1] <= r[1]})] = SubSeq(target, r[1], r[2])

(* Keys and values of any text that were encoded and joined to a query     *)
(* come back from ParseHttpLine, the first value of a key before others.   *)
ParamsRecovered ==
  pc = "target" =>
    \A n \in 0 .. Len(target) :
      LET k == SubSeq(target, 1, n)
          v == SubSeq(target, n + 1, Len(target))
          pair(a, b) == UrlEnCode(a, TRUE) \o <<Equals>> \o UrlEnCode(b, TRUE)
      IN  Params(pair(k, v) \o <<Ampersand>> \o pair(v, k) \o <<Ampersand>> \o pair(k, target))
            = [sound |-> TRUE, params |-> {<<k, v>>, <<v, k>>}]

(* What the echo server should answer, looked up at once.  The type of a   *)
(* page is that of the file's own name, although it is looked for in a     *)
(* name with the root and the directories in front.                        *)
EchoAnswer(t, m, p) ==
  LET q == IF p \in {<<>>, <<Slash>>} THEN <<Slash>> \o Index ELSE p
      name == Root \o q
      found(n) == Walk(t, n) \in t
      page(n) == [Page(t, n) EXCEPT !.type = ExMime(Last(Walk(t, n)))]
  IN  IF m \notin {"GET", "HEAD"} THEN Reply(405)
      ELSE IF ~VaildPath(p) THEN Reply(403)
      ELSE IF EndsInSlash(name)
      THEN IF found(name \o Index) THEN page(name \o Index) ELSE Reply(404)
      ELSE IF found(name) THEN page(name)
      ELSE IF ~Contains(q, Dot) /\ found(name \o Html) THEN page(name \o Html)
      ELSE IF IsDirectory(t, name) THEN Reply(302) ELSE Reply(404)

(* Http_Server knows fewer names: it adds no ".html" and does not redirect.*)
HttpAnswer(t, m, p) ==
  LET e == EchoAnswer(t, m, p) IN
  IF e.status = 200 /\ e.file \in {Walk(t, p), Walk(t, p \o <<Slash>> \o Index)}
  THEN e ELSE Dispather(m, p)

(* Each server looks several times, and files come and go in between: its  *)
(* answer is still one that a single look at some moment would have given, *)
(* or a failed read, and that only if a file went.  An empty path, which a *)
(* cut escape decodes to, is excepted for Http_Server: see FileHandler.    *)
AnswerIsTimely ==
  pc = "done" /\ server # "none" /\ (server = "Http_Server" => path # <<>>) =>
    \/ \E t \in trees :
         reply = IF server = "Http_Server" THEN HttpAnswer(t, method, path)
                 ELSE EchoAnswer(t, method, path)
    \/ /\ reply = Reply(IF server = "Http_Server" THEN 404 ELSE 500)
       /\ Cardinality(trees) > 1
=============================================================================

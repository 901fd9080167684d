------------------------- MODULE TemplateInheritance -------------------------
(***************************************************************************)
(* Compiling a tornado.template: _get_ancestors follows {% extends %},     *)
(* find_named_blocks collects the blocks of every file on the way, and     *)
(* generate writes the root's body with each block replaced by the last    *)
(* one found under its name.  The loader compiles a file when it is first  *)
(* asked for and keeps it, under one lock; somebody may reset it.          *)
(*                                                                         *)
(* Three files: "page" extends "base" and both may include "part".  What   *)
(* is generated is the sequence of expressions, each with the file whose   *)
(* autoescape it got.  A node of a file is a record; `within` names the    *)
(* blocks of the same file it was written in.                              *)
(***************************************************************************)
EXTENDS Naturals, Sequences, FiniteSets, SequencesExt

VARIABLES
  files,     \* the bodies of the three files
  templates, \* the loader's cache: which files are compiled
  compiled   \* what compiling "page" gave

ti == <<files, templates, compiled>>

Names == {"a", "b"}

Expression(f, within) == [kind |-> "expression", file |-> f, within |-> within]
Block(f, n, body) == [kind |-> "block", file |-> f, name |-> n, body |-> body]
Include == [kind |-> "include"]

\* What stands in a block n of file f: an expression, an include, or another
\* block with an expression.
Inner(f, n) ==
  {<<Expression(f, {n})>>}
    \union (IF f = "part" THEN {} ELSE {<<Include>>})
    \union { <<Expression(f, {n}), Block(f, m, <<Expression(f, {n, m})>>)>> : m \in Names \ {n} }

Nodes(f) == {Expression(f, {})}
              \union (IF f = "part" THEN {} ELSE {Include})
              \union UNION { { Block(f, n, body) : body \in Inner(f, n) } : n \in Names }

Bodies(f) == { <<x>> : x \in Nodes(f) } \union { <<x, y>> : x, y \in Nodes(f) }

Files == {"page", "base", "part"}

\* Every list of nodes there is: of a file, of a block, of a block in a block.
ChunkLists ==
  UNION { Bodies(f) \union UNION { Inner(f, n) : n \in Names } \union {<<Expression(f, Names)>>}
          : f \in Files }

Init ==
  /\ files \in [page : Bodies("page"), base : Bodies("base"), part : { <<x>> : x \in Nodes("part") }]
  /\ templates = {} /\ compiled = <<>>

-----------------------------------------------------------------------------
\* find_named_blocks: in the order of the text, a block before those inside
\* it, an included file in place.
BlocksIn(body) ==
  LET found[chunks \in ChunkLists] ==
        FlattenSeq([i \in DOMAIN chunks |->
          CASE chunks[i].kind = "block"   -> <<chunks[i]>> \o found[chunks[i].body]
            [] chunks[i].kind = "include" -> found[files["part"]]
            [] OTHER                      -> <<>>])
  IN found[body]

\* _generate_python: the ancestors' blocks, the root's first; the last one found
\* under a name stays.
NamedBlocks ==
  LET found == BlocksIn(files["base"]) \o BlocksIn(files["page"])
  IN [n \in { found[i].name : i \in DOMAIN found } |->
        found[SelectLastInSeq(found, LAMBDA x : x.name = n)]]

\* A bug: a block is written as a part of the template it appears in.
IncludeNothing(b, template) == template

\* _CodeWriter.include: the template whose autoescape holds in block b, which is
\* written in the place of a block of `template`.
IncludeTemplate(b, template) == b.file

\* generate of the nodes, with include around blocks and included files.
Generate(root, file) ==
  LET blocks == NamedBlocks
      text[chunks \in ChunkLists, template \in Files] ==
        FlattenSeq([i \in DOMAIN chunks |->
          LET x == chunks[i]
          IN CASE x.kind = "expression" -> <<[written |-> x, escape |-> template]>>
               [] x.kind = "block"      ->
                    text[blocks[x.name].body, IncludeTemplate(blocks[x.name], template)]
               [] x.kind = "include"    -> text[files["part"], "part"]])
  IN text[root, file]

\* load("page"): compiles it, and every file it needs on the way.
Load ==
  /\ "page" \notin templates
  /\ templates' = {"page", "base"} \union
       (IF \E f \in {"page", "base"} : \E i \in DOMAIN files[f] :
             \/ files[f][i] = Include
             \/ files[f][i].kind = "block" /\ files[f][i].body = <<Include>>
          THEN {"part"} ELSE {})
  /\ compiled' = Generate(files["base"], "base")
  /\ UNCHANGED files

\* reset
Reset ==
  /\ templates # {} /\ templates' = {} /\ compiled' = <<>>
  /\ UNCHANGED files

Next == Load \/ Reset

Spec == Init /\ [][Next]_ti

-----------------------------------------------------------------------------
\* The names of the blocks that file f defines, itself or by an include.
NamesIn(f) == LET found == BlocksIn(files[f]) IN [i \in DOMAIN found |-> found[i].name]

\* Inheritance does what it says (template.py:275-300, 431-469, 607-618): every
\* expression is escaped the way the file it was written in says, whichever
\* file it ends up in; and nothing written in a block of the base is left when
\* the page defines that block, itself or by an include.  (A base that defines
\* a name twice has its last definition in both places.)
TemplatesCompose ==
  \A i \in DOMAIN compiled :
    LET x == compiled[i].written IN
      /\ compiled[i].escape = x.file
      /\ x.file = "base" /\ IsInjective(NamesIn("base")) =>
           x.within \cap ToSet(NamesIn("page")) = {}
=============================================================================

--------------------------- MODULE TemplateParser ---------------------------
(***************************************************************************)
(* _parse of tornado.template.  A template is read tag by tag; each tag    *)
(* that opens a block calls _parse again, so the calls in progress are a   *)
(* stack of what they were called with: the block and the loop they are    *)
(* in.  Text, expressions, comments and statements with no demands on      *)
(* their place are one kind of tag, "text".                                *)
(***************************************************************************)
EXTENDS Naturals, Sequences, FiniteSets, SequencesExt

CONSTANT MaxTags \* bound: the tags of a template

VARIABLES
  tags,    \* the tags read so far
  parsing, \* the calls of _parse in progress: in_block, in_loop
  parsed   \* "reading", "done" or "error" (a ParseError)

tp == <<tags, parsing, parsed>>

Loops == {"for", "while"}
Blocks == Loops \union {"if", "try", "apply", "block"}
Tags == {"text", "end", "break", "else", "elif", "except"} \union Blocks
Outside == "no block"
\* intermediate_blocks, with the blocks they may stand in.
Parents == [else   |-> {"if", "for", "while", "try"},
            elif   |-> {"if"},
            except |-> {"try"}]

Init ==
  /\ tags = <<>> /\ parsed = "reading"
  /\ parsing = <<[in_block |-> Outside, in_loop |-> FALSE]>>

This == parsing[Len(parsing)]

\* A bug: the body of apply, a function of its own, is still in the loop.
ParseBlockInLoop(tag) ==
  parsing' = Append(parsing, [in_block |-> tag,
                              in_loop  |-> tag \in Loops \/ This.in_loop])

\* A tag that opens a block: _parse for its body.  A loop inside apply would
\* be one of another function.
ParseBlock(tag) ==
  parsing' = Append(parsing, [in_block |-> tag,
                              in_loop  |-> CASE tag \in Loops -> TRUE
                                             [] tag = "apply" -> FALSE
                                             [] OTHER -> This.in_loop])

ParseEnd == parsing' = Front(parsing)

\* The place of this tag is an error.
Misplaced(tag) ==
  \/ tag \in DOMAIN Parents /\ This.in_block \notin Parents[tag]
  \/ tag = "end" /\ This.in_block = Outside
  \/ tag = "break" /\ ~This.in_loop

\* The next tag.
Parse(tag) ==
  /\ parsed = "reading" /\ Len(tags) < MaxTags
  /\ tags' = Append(tags, tag)
  /\ IF Misplaced(tag) THEN parsed' = "error" /\ UNCHANGED parsing
     ELSE /\ UNCHANGED parsed
          /\ \/ tag \in Blocks /\ ParseBlock(tag)
             \/ tag = "end" /\ ParseEnd
             \/ tag \notin Blocks \union {"end"} /\ UNCHANGED parsing

\* The end of the text.
ParseEOF ==
  /\ parsed = "reading"
  /\ parsed' = IF This.in_block # Outside THEN "error" ELSE "done"
  /\ UNCHANGED <<tags, parsing>>

Next == ParseEOF \/ \E tag \in Tags : Parse(tag)

Spec == Init /\ [][Next]_tp

-----------------------------------------------------------------------------
Count(S, i, j) == Cardinality({ k \in i .. j : tags[k] \in S })

\* The blocks open at place i: the ones whose `end` has not come.
OpenAt(i) == { j \in 1 .. (i - 1) :
                 /\ tags[j] \in Blocks
                 /\ \A k \in j .. (i - 1) : Count(Blocks, j, k) > Count({"end"}, j, k) }

\* Whether the tag at place i may stand there, from the template alone.
Belongs(i) ==
  LET open == OpenAt(i)
      innermost == CHOOSE j \in open : \A k \in open : k <= j
  IN CASE tags[i] \in DOMAIN Parents -> open # {} /\ tags[innermost] \in Parents[tags[i]]
       [] tags[i] = "end" -> open # {}
       [] tags[i] = "break" -> \E j \in open : /\ tags[j] \in Loops
                                               /\ \A k \in open : k > j => tags[k] # "apply"
       [] OTHER -> TRUE

\* The parser takes exactly the templates that make sense
\* (template.py:693-861): every block ends, every tag in the middle is in a
\* block it belongs to, and break is in a loop of its own function - else the
\* generated Python is wrong or does something the template does not say.
ParserTakesTheRightTemplates ==
  LET n == Len(tags)
      fits == \A i \in 1 .. n : Belongs(i)
  IN CASE parsed = "reading" -> fits
       [] parsed = "done" -> fits /\ OpenAt(n + 1) = {}
       [] parsed = "error" -> ~fits \/ OpenAt(n + 1) # {}
=============================================================================

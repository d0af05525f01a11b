------------------------------- MODULE Pablo -------------------------------
(***************************************************************************)
(* Pablo programs, as they are written: what they mean on whole bit        *)
(* streams, and the code for a block that pablo/pablo_compiler.cpp makes   *)
(* of them, after pablo/carry_manager.cpp has laid out their carries (see  *)
(* PabloKernel).                                                           *)
(*                                                                         *)
(* A statement is a tuple of an operation, the name of the variable it     *)
(* defines, and its operands:                                              *)
(*   <<"zero", d>>, <<"ones", d>>, <<"set", d, x>>, <<"not", d, x>>,       *)
(*   <<"and", d, x, y>>, <<"or", d, x, y>>, <<"xor", d, x, y>>,            *)
(*   <<"eof", d, x>>           AtEOF(x)                                    *)
(*   <<"adv", d, x, n>>        Advance(x, n)                               *)
(*   <<"scan", d, x, y>>       ScanThru(x, y)                              *)
(*   <<"star", d, x, y>>       MatchStar(x, y)                             *)
(*   <<"if", d, x, body>>      the body when x, or a carry, is not empty   *)
(*   <<"while", d, x, body>>   the body, and again while x is not empty    *)
(* The name d of a statement that keeps a carry, and of a branch, is used  *)
(* once in a program: it is also the name of its place in the carry data.  *)
(***************************************************************************)
EXTENDS PabloKernel, TLC

-----------------------------------------------------------------------------
RECURSIVE Run(_, _, _, _), RunLoop(_, _, _, _)

\* The variables after a program has run on whole streams.
Run(program, env, all, eof) ==
    IF program = <<>> THEN env ELSE
    LET st == Head(program)
    IN  Run(Tail(program),
            CASE st[1] = "if"    -> IF env[st[3]] = {} THEN env ELSE Run(st[4], env, all, eof)
              [] st[1] = "while" -> RunLoop(st, env, all, eof)
              [] OTHER           -> (st[2] :> Means(st, env, all, eof)) @@ env,
            all, eof)

RunLoop(loop, env, all, eof) ==
    LET after == Run(loop[4], env, all, eof)
    IN  IF after[loop[3]] = {} THEN after ELSE RunLoop(loop, after, all, eof)

-----------------------------------------------------------------------------
(* The carry data of a program (CarryManager::analyse).                    *)

RECURSIVE HasCarries(_), Assigned(_)

\* hasNonEmptyCarryStruct
HasCarries(body) ==
    \E i \in DOMAIN body :
        body[i][1] \in Producers \/ (body[i][1] \in Branches /\ HasCarries(body[i][4]))

\* The variables that a body assigns.
Assigned(body) ==
    UNION {IF body[i][1] \in Branches THEN Assigned(body[i][4]) ELSE {body[i][2]} : i \in DOMAIN body}

\* The members of the carry struct of the body of an If, in order; a long
\* advance over more than a block has one more for its summary.
CarryMembers(body) ==
    LET Members(st) ==
            IF IsLong(st) /\ AdvanceBlocks(st[4]) # 1 THEN <<st, st>>
            ELSE IF st[1] \in Producers \cup Branches THEN <<st>>
            ELSE <<>>
        all[i \in 0 .. Len(body)] == IF i = 0 THEN <<>> ELSE all[i - 1] \o Members(body[i])
    IN  all[Len(body)]

SummaryType(body) ==
    IF ~HasCarries(body) THEN "none"
    ELSE IF Len(CarryMembers(body)) > 1 THEN "explicit" ELSE "borrowed"

RECURSIVE FirstPack(_)

\* The first pack of the carry struct, where a borrowed summary is read.
FirstPack(body) ==
    LET first == CarryMembers(body)[1] IN
    IF first[1] \in Branches /\ SummaryType(first[4]) # "explicit"
    THEN FirstPack(first[4]) ELSE first[2]

-----------------------------------------------------------------------------
(* The code of a program (PabloCompiler::compileBlock, compileIf,          *)
(* compileWhile).  The scope c is the depth of loops and Ifs, the type of  *)
(* summary that carries go into, and the variables defined so far.         *)

Instruction(st, c) == [st |-> st, loops |-> c.loops, ifs |-> c.ifs, summary |-> c.summary,
                       own |-> "none", from |-> st[2], to |-> 0, escaped |-> {}]

RECURSIVE CompileBlock(_, _, _)

\* The code of a branch, which starts at instruction `at`.
CompileIf(st, at, c) ==
    LET own  == SummaryType(st[4])
        body == CompileBlock(st[4], at + 1, [c EXCEPT !.ifs = @ + 1, !.summary = own])
        end  == at + Len(body) + 1
    IN  << [Instruction(<<"if", st[2], st[3]>>, c) EXCEPT
                !.own = own, !.to = end, !.escaped = Assigned(st[4]) \cap c.defined,
                !.from = IF own = "borrowed" THEN FirstPack(st[4]) ELSE @] >>
        \o body
        \o << [Instruction(<<"endif", st[2]>>, c) EXCEPT !.own = own, !.to = at] >>

CompileWhile(st, at, c) ==
    LET body == CompileBlock(st[4], at + 1, [c EXCEPT !.loops = @ + 1, !.summary = "none"])
    IN  << Instruction(<<"while", st[2], st[3]>>, c) >>
        \o body
        \o << [Instruction(<<"endwhile", st[2], st[3]>>, c) EXCEPT !.to = at] >>

CompileBlock(program, at, c) ==
    IF program = <<>> THEN <<>> ELSE
    LET st   == Head(program)
        code == CASE st[1] = "if"    -> CompileIf(st, at, c)
                  [] st[1] = "while" -> CompileWhile(st, at, c)
                  [] OTHER           -> << Instruction(st, c) >>
        defined == IF st[1] \in Branches THEN c.defined ELSE c.defined \cup {st[2]}
    IN  code \o CompileBlock(Tail(program), at + Len(code), [c EXCEPT !.defined = defined])

Compile(program) ==
    CompileBlock(program, 1, [loops |-> 0, ifs |-> 0, summary |-> "none", defined |-> {}])

\* One block of any code: a While goes on as long as this block needs.
RECURSIVE Exec(_, _)
Exec(code, s) == IF s.pc > Len(code) THEN s ELSE Exec(code, Execute(s, code[s.pc]))
=============================================================================

---------------------------- MODULE GrepKernels ----------------------------
(***************************************************************************)
(* The Pablo kernels around the regular expression in the grep pipeline,   *)
(* as programs: line breaks (kernels/linebreak_kernel.cpp), the streams    *)
(* that tell the bytes of UTF-8 characters apart and the matched lines     *)
(* (kernels/grep_kernel.cpp).  A character is its name, and a byte too;    *)
(* the character classes of bytes are given as sets, not as the Boolean    *)
(* equations on basis bits that cc/cc_compiler.cpp makes.                  *)
(***************************************************************************)
EXTENDS Pablo

\* The characters of the files and their bytes.
Utf8 == [ a |-> <<"a">>, b |-> <<"b">>, LF |-> <<"LF">>, CR |-> <<"CR">>,
          eacute |-> <<"C3", "A9">>, NEL |-> <<"C2", "85">>, LS |-> <<"E2", "80", "A8">> ]

\* The byte after the end of a file in its last block.
Padding == "00"

ByteClass ==
    [ LF |-> {"LF"}, CR |-> {"CR"}, LF_VT_FF_CR |-> {"LF", "CR"},
      u8pfx |-> {"C2", "C3", "E2"}, u8pfx2 |-> {"C2", "C3"}, u8pfx3 |-> {"E2"}, u8pfx4 |-> {},
      u8suffix |-> {"80", "85", "A8", "A9"}, x00_7F |-> {"a", "b", "LF", "CR", Padding},
      C2 |-> {"C2"}, E2 |-> {"E2"}, E0 |-> {}, ED |-> {}, F0 |-> {}, F4 |-> {},
      x80 |-> {"80"}, x85 |-> {"85"}, xA8_A9 |-> {"A8", "A9"},
      x80_9F |-> {"80", "85"}, xA0_BF |-> {"A8", "A9"}, x80_8F |-> {"80", "85"}, x90_BF |-> {"A8", "A9"} ]

\* Mutated form: the If tests for the second character of the pair.
MarkCRLFAtLF == <<"if", "ifCR", "LF", << <<"adv", "cr1", "CR", 1>>, <<"and", "crlf", "cr1", "LF">> >> >>

\* The LF of a CRLF, which is not a line break of its own.
MarkCRLF     == <<"if", "ifCR", "CR", << <<"adv", "cr1", "CR", 1>>, <<"and", "crlf", "cr1", "LF">> >> >>

\* LineBreakKernelBuilder::generatePabloMethod
LineBreakKernel ==
    << <<"zero", "crlf">>,
       MarkCRLF,
       <<"zero", "NEL_LS_PS">>,
       <<"if", "it", "u8pfx",
          << <<"zero", "NEL">>,
             <<"if", "it2", "u8pfx2", << <<"adv", "afterC2", "C2", 1>>,
                                         <<"and", "NEL", "afterC2", "x85">> >> >>,
             <<"zero", "LS_PS">>,
             <<"if", "it3", "u8pfx3", << <<"adv", "afterE2", "E2", 1>>,
                                         <<"and", "E2_80", "afterE2", "x80">>,
                                         <<"adv", "afterE2_80", "E2_80", 1>>,
                                         <<"and", "LS_PS", "afterE2_80", "xA8_A9">> >> >>,
             <<"or", "NEL_LS_PS", "NEL", "LS_PS">> >> >>,
       <<"or", "LB_chars", "LF_VT_FF_CR", "NEL_LS_PS">>,
       <<"not", "notCRLF", "crlf">>,
       <<"and", "lb", "LB_chars", "notCRLF">>,      \* count the CR, but not CRLF
       <<"not", "notLB", "LB_chars">>,
       <<"adv", "afterChar", "notLB", 1>>,
       <<"eof", "unterminatedLineAtEOF", "afterChar">>,
       <<"or", "linebreak", "lb", "unterminatedLineAtEOF">> >>

\* RequiredStreams_UTF8::generatePabloMethod
RequiredStreams ==
    << <<"zero", "crlf">>,
       MarkCRLF,
       <<"zero", "u8invalid">>, <<"zero", "valid_pfx">>, <<"zero", "nonFinal">>,
       <<"if", "it", "u8pfx",
          << <<"zero", "u8scope22">>,
             <<"if", "it2", "u8pfx2", << <<"adv", "u8scope22a", "u8pfx2", 1>>,
                                         <<"set", "u8scope22", "u8scope22a">> >> >>,
             <<"zero", "u8scope32">>, <<"zero", "u8scope3X">>, <<"zero", "EX_invalid">>,
             <<"if", "it3", "u8pfx3",
                << <<"adv", "u8scope32a", "u8pfx3", 1>>,
                   <<"set", "u8scope32", "u8scope32a">>,
                   <<"adv", "u8scope33", "u8pfx3", 2>>,
                   <<"or", "u8scope3X", "u8scope32", "u8scope33">>,
                   <<"adv", "afterE0", "E0", 1>>, <<"and", "E0_invalid", "afterE0", "x80_9F">>,
                   <<"adv", "afterED", "ED", 1>>, <<"and", "ED_invalid", "afterED", "xA0_BF">>,
                   <<"or", "EX_invalid", "E0_invalid", "ED_invalid">> >> >>,
             <<"zero", "u8scope4nonfinal">>, <<"zero", "u8scope4X">>, <<"zero", "FX_invalid">>,
             <<"if", "it4", "u8pfx4",
                << <<"adv", "u8scope42", "u8pfx4", 1>>,
                   <<"adv", "u8scope43", "u8scope42", 1>>,
                   <<"adv", "u8scope44", "u8scope43", 1>>,
                   <<"or", "u8scope4nonfinal", "u8scope42", "u8scope43">>,
                   <<"or", "u8scope4X", "u8scope4nonfinal", "u8scope44">>,
                   <<"adv", "afterF0", "F0", 1>>, <<"and", "F0_invalid", "afterF0", "x80_8F">>,
                   <<"adv", "afterF4", "F4", 1>>, <<"and", "F4_invalid", "afterF4", "x90_BF">>,
                   <<"or", "FX_invalid", "F0_invalid", "F4_invalid">> >> >>,
             <<"or", "scope34", "u8scope3X", "u8scope4X">>,
             <<"or", "anyscope", "u8scope22", "scope34">>,
             <<"or", "pfx23", "u8pfx2", "u8pfx3">>,
             <<"or", "legalpfx", "pfx23", "u8pfx4">>,
             <<"xor", "mismatch", "anyscope", "u8suffix">>,
             <<"or", "EF_invalid", "EX_invalid", "FX_invalid">>,
             <<"xor", "pfx_invalid", "u8pfx", "legalpfx">>,
             <<"or", "bad", "mismatch", "EF_invalid">>,
             <<"or", "u8invalid", "pfx_invalid", "bad">>,
             <<"not", "u8valid", "u8invalid">>,
             <<"and", "valid_pfx", "u8pfx", "u8valid">>,
             <<"or", "nonFinal3", "u8pfx", "u8scope32">>,
             <<"or", "nonFinal4", "nonFinal3", "u8scope4nonfinal">>,
             <<"and", "nonFinal", "nonFinal4", "u8valid">> >> >>,
       <<"not", "valid", "u8invalid">>,
       <<"and", "u8single", "x00_7F", "valid">>,
       <<"or", "initial", "u8single", "valid_pfx">>,
       <<"or", "notFinal", "nonFinal", "u8invalid">>,
       <<"not", "final", "notFinal">> >>

\* MatchedLinesKernel::generatePabloMethod
MatchedLinesKernel ==
    << <<"not", "notLB", "linebreak">>,
       <<"star", "match_follow", "matches", "notLB">>,
       <<"and", "matchedLines", "match_follow", "linebreak">> >>

=============================================================================

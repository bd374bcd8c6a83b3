-------------------------- MODULE MCAutoAssembler --------------------------
(* Five scripts against a target of one module of six cells: an AOB hook,  *)
(* a data script with blocks and threads, a patch that overlaps the hook,  *)
(* a script that does not assemble, and one with malformed blocks.         *)
EXTENDS AutoAssembler

MCNames == {"game.exe", "inject", "newmem", "ret", "data", "tmp", "skip", "hp", "rel", "__anon_0", "__anon_1"}
MCModules == [m \in {"game.exe"} |-> [base |-> 2, size |-> 6]]
MCCaves == {11, 21, 31}
MCAddresses == 2..7 \cup 11..16 \cup 21..26 \cup 31..36
MCInitMem == [a \in MCAddresses |-> IF a = 3 THEN <<"jmp", 6>> ELSE IF a < 8 THEN <<"op", a>> ELSE Unmapped]

G(off) == <<"game.exe", off>>
L(op, name, x, n) == Line(op, name, x, n, Unmapped, TRUE, <<>>)

With(op, name, x, n, v) == Line(op, name, x, n, v, TRUE, <<>>)
Blk(op, sub) == Line(op, "", NoRef, 1, Unmapped, TRUE, sub)
Mark(op) == L(op, "", NoRef, 0)

Hook == << Mark("[ENABLE]"),
           Blk("struct", <<L("define", "hp", NoRef, 2)>>),
           With("aobscanmodule", "inject", <<"game.exe", 0>>, 0, <<"jmp", 6>>),
           L("alloc", "newmem", <<"inject", 0>>, 4), L("registersymbol", "inject", NoRef, 0),
           L("at", "", <<"newmem", 0>>, 0), L("reassemble", "", <<"inject", 0>>, 0),
           L("asm", "", <<"ret", 0>>, 0),
           L("at", "", <<"inject", 0>>, 0), L("asm", "", <<"newmem", 0>>, 0), L("at", "", <<"ret", 0>>, 0),
           Mark("[DISABLE]"), L("dealloc", "newmem", NoRef, 0) >>

Data == << L("globalalloc", "data", NoRef, 4), L("kalloc", "tmp", NoRef, 1),
           Mark("try"), With("assert", "", G(2), 0, <<"op", 4>>),
             L("at", "", <<"data", 0>>, 0), L("asm", "", <<"skip", 0>>, 0),
           Mark("except"), L("at", "", <<"data", 0>>, 0), L("readmem", "", G(0), 1),
             L("createthreadandwait", "", <<"data", 0>>, 0),
           Mark("endtry"),
           Blk("lua", <<L("nop", "", NoRef, 1)>>),
           L("if", "", NoRef, 0), Mark("break"), Mark("else"), L("db", "", <<"skip", 0>>, 0), Mark("endif"),
           L("at", "", <<"skip", 0>>, 0), Mark("@@"), L("asm", "", <<"@b", 0>>, 0),
           L("dealloc", "tmp", NoRef, 0), L("dealloc", "rel", NoRef, 0), L("createthread", "", <<"data", 0>>, 0) >>

Patch == << L("fullaccess", "", G(0), 1), With("aobscan", "rel", NoRef, 0, <<"op", 5>>),
            Blk("include", <<L("define", "hp", NoRef, 3), L("loadbinary", "", G(5), 1)>>),
            Blk("custom", <<L("at", "", G(2), 0)>>), L("ds", "", NoRef, 1),
            L("at", "", G(2), 0), L("db", "", <<"hp", 0>>, 0), With("fillmem", "", G(4), 1, <<"nop", 0>>), L("loadlibrary", "", NoRef, 0),
            L("unregistersymbol", "inject", NoRef, 0), With("assert", "", G(0), 0, <<"op", 2>>) >>

Broken == << L("alloc", "tmp", NoRef, 1), L("at", "", <<"tmp", 0>>, 0), Blk("ccode", <<L("db", "", NoRef, 9)>>),
             L("at", "", G(0), 0), L("nop", "", NoRef, 1), L("at", "", <<"tmp", 0>>, 0), L("nop", "", NoRef, 7) >>

Refused == << L("aobscanregion", "rel", G(0), 3), Mark("try"), Mark("break"), Mark("endtry") >>

MCScripts == [r \in {"hook", "data", "patch", "broken", "refused"} |->
                CASE r = "hook" -> Hook [] r = "data" -> Data [] r = "patch" -> Patch
                  [] r = "broken" -> Broken [] OTHER -> Refused]
=============================================================================

------------------------------- MODULE MCFis --------------------------------
(***************************************************************************)
(* Model checking Fis: a directory of four entries, a flash of six cells    *)
(* (loader 0-1, kernel 2-3, application 4, directory 5).                    *)
(***************************************************************************)
EXTENDS Fis

File(len, hdr, dir) == [len |-> len, hdr |-> hdr, dir |-> dir]
Plain(len) == File(len, "none", FALSE)

Quiet ==
  [ops |-> 0, cuts |-> 0, failures |-> 0, bad |-> {}, does |-> {}, names |-> {},
   creates |-> {}, images |-> {}, files |-> {}]

MCSettings ==
  { \* entries come and go, the power fails once
    [Quiet EXCEPT !.ops = 4, !.cuts = 1, !.does = {"create", "delete", "default"},
       !.names = {"BOOT", "DIR", "KERNEL", "APP"}, !.files = {Plain(1)},
       !.creates = {<<"APP", 4, 1>>, <<"KERNEL", 2, 2>>}],
    \* an entry that a power cut has damaged is revived, and writing fails
    [Quiet EXCEPT !.ops = 4, !.cuts = 1, !.failures = 1,
       !.does = {"create", "delete", "default"}, !.names = {"KERNEL"},
       !.creates = {<<"APP", 4, 1>>}, !.files = {Plain(1)}],
    \* upgrades of the menu and the web, one inside the other; a flash error
    [Quiet EXCEPT !.ops = 3, !.failures = 1, !.does = {"upgrade", "web"},
       !.images = {"KERNEL", "BOOT"},
       !.files = {Plain(0), Plain(1), Plain(3), File(2, "good", FALSE), File(2, "bad", FALSE)}],
    \* a cell of the kernel that always fails
    [Quiet EXCEPT !.ops = 3, !.cuts = 1, !.bad = {3}, !.does = {"upgrade", "create", "web"},
       !.images = {"KERNEL"}, !.creates = {<<"APP", 2, 2>>},
       !.files = {Plain(1), Plain(2)}],
    \* the directory's sector always fails
    [Quiet EXCEPT !.ops = 2, !.bad = {FisAddr}, !.does = {"delete", "upgrade"},
       !.names = {"KERNEL"}, !.images = {"KERNEL"}, !.files = {Plain(1)}],
    \* directories and whole images are loaded
    [Quiet EXCEPT !.ops = 2, !.cuts = 1, !.does = {"create", "upgrade", "delete"},
       !.names = {"KERNEL"}, !.images = {"FULL", "KERNEL"},
       !.creates = {<<"DIR", FisAddr, 1>>, <<"APP", FisAddr, 1>>},
       !.files = {Plain(1), File(1, "none", TRUE), File(6, "none", TRUE), File(5, "none", FALSE)}] }
=============================================================================

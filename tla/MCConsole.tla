----------------------------- MODULE MCConsole -----------------------------
(***************************************************************************)
(* Small instance of Console: the order of init() (init.c:19-50), with log *)
(* lines on the serial port before and inside FBCON_Init (fbcon.c:116),    *)
(* sti, two log lines and a printf on the framebuffer.                     *)
(***************************************************************************)
EXTENDS Console

MCLog(level) == [op |-> "log", module |-> <<"F">>, level |-> level, msg |-> <<"a">>]

MCProgram ==
    << [op |-> "TTY_SetWriteFunc", func |-> "COM_LogWrapper"],
       MCLog("info"),
       [op |-> "FBCON_Init"],
       MCLog("debug"),
       [op |-> "TTY_SetWriteFunc", func |-> "FBCON_Write"],
       [op |-> "create_idt"],
       MCLog("info"),
       MCLog("warn"),
       [op |-> "printf", msg |-> <<"A", "LF">>] >>
=============================================================================

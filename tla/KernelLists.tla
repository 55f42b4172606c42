---------------------------- MODULE KernelLists ----------------------------
(***************************************************************************)
(* The doubly linked lists of the kernel (core/wait.c, core/workqueue.c),  *)
(* as sequences: the entries that are unlinked leave, the others keep      *)
(* their order. The function kept[i] is what remains of the first i        *)
(* entries.                                                                *)
(***************************************************************************)
EXTENDS Naturals, Sequences

Members(s) == {s[i] : i \in DOMAIN s}

Without(s, ws) ==
  LET kept[i \in 0..Len(s)] ==
        IF i = 0 THEN <<>>
        ELSE IF s[i] \in ws THEN kept[i - 1] ELSE Append(kept[i - 1], s[i])
  IN kept[Len(s)]
=============================================================================

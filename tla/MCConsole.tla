----------------------------- MODULE MCConsole -----------------------------
(***************************************************************************)
(* A few keys in each tty mode, read one or two bytes at a time.           *)
(***************************************************************************)
EXTENDS Console, TLC

ByMode(raw, cooked) == "raw" :> raw @@ "cooked" :> cooked

MCKeys == ByMode({"a", "RETURN", "FF", "WILL", "SB"},
                 {"a", "RETURN", "CR", "BS", "EOT", "WILL"})
MCLetters == ByMode({"a", "RETURN"}, {"a", "RETURN"})

MCCooked == {"cooked"}
MCRaw == {"raw"}
=============================================================================

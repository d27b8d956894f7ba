---------------------------- MODULE ContentType ----------------------------
(***************************************************************************)
(* The table publishers stamp files from (internal/contenttype).  An       *)
(* extension is what path.Ext returns, with its dot; types are kept apart  *)
(* as far as the gateway does, which asks whether one is HTML.             *)
(***************************************************************************)
EXTENDS CleanUrl

Default == "application/octet-stream"
TextHTML == "text/html; charset=utf-8"

(* strings.ToLower, of the spellings that occur. *)
ToLower(ext) == IF ext = ".HTML" THEN ".html" ELSE ext

table == [ext \in {".html", ".htm", ".js", ".css", ".json", ".svg", ".png", ".woff2"} |->
    IF ext \in {".html", ".htm"} THEN TextHTML ELSE "another type"]

FromExt(ext) ==
    IF ToLower(ext) \in DOMAIN table THEN table[ToLower(ext)] ELSE Default

FromPath(p) == IF Ext(p) = "" THEN Default ELSE FromExt(Ext(p))

=============================================================================

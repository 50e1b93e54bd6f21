--------------------------- MODULE MCConfigCenter ---------------------------
(* Two keys; a content that sets both and one that sets one, badly.        *)
EXTENDS ConfigCenter, TLC

SomeContents == {"k1" :> "a" @@ "k2" :> "a", "k1" :> "bad"}
=============================================================================

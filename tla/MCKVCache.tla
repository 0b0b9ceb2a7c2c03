------------------------------ MODULE MCKVCache ------------------------------
(* Three layers for the model-checking runs of KVCache: the second has a     *)
(* window in a plain model and keeps a recurrent state in a hybrid one, the  *)
(* third reads the first one's cache where layers share.                     *)
EXTENDS KVCache

Sources == <<0, 0, 1>>
Windows == <<0, 2, 0>>

=============================================================================

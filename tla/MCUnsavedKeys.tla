---------------------------- MODULE MCUnsavedKeys ----------------------------
(* The names and keys of MCKeyStore for UnsavedKeys. *)
EXTENDS MCKeyStore, UnsavedKeys
=============================================================================

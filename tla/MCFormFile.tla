----------------------------- MODULE MCFormFile -----------------------------
(* Files of up to six bytes over the bytes of the delimiter, in buffers of three;
   keys of at most two characters. *)
EXTENDS FormFile

MCBoundary == <<DASH, "b">>
MCForms == {<<"file">>, <<"arg", "file">>, <<"file", "arg">>}
=============================================================================

----------------------------- MODULE MCIdoFile -----------------------------
(* Bytes a and the newline, a buffer of two, files up to four bytes.        *)
EXTENDS IdoFile

MCByte == {"a", "nl"}
MCFiles == {<<>>, <<"a">>, <<"a", "nl", "a">>, <<"nl", "a", "a", "nl">>}
MCCalls == {"putc", "fwrite", "fflush", "getc", "fread", "fgets", "gets", "ungetc",
            "fseek", "rewind", "ftell", "setvbuf", "fclose"}
=============================================================================

------------------------------ MODULE MCInject ------------------------------
(* The sizes the objects have, and those around what the areas hold.         *)
EXTENDS Inject

MCSizes == [maroo : {\hE0, \hF0}, loads : {\h30, \h40, \h50},
            memory : {\h170, \h180, \h190}, dance : {\h90, \hB0, \hC0},
            anim : {\h2930, \h40}]

\* The script seeks before its areas only, the animation ends before the loader and
\* the table is in the section that is copied: what the theorems assume.
ASSUME MCAreasPlain == AreasPlain
ASSUME MCAnimApart  == AnimApart
ASSUME MCTableFits  == TableFits
=============================================================================

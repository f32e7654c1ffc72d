----------------------------- MODULE MCEjecucion -----------------------------
(* Instance of Ejecucion for TLC: programs of the kinds of the ones in     *)
(* Consola/prueba (loops, functions with and without value, recursion), in *)
(* scripts whose sentences fit pages, cross them, begin where they do, or  *)
(* fill the last one.                                                      *)
EXTENDS Ejecucion

Numero(n)   == [tipo |-> "numero", n |-> n]
Variable(x) == [tipo |-> "variable", x |-> x]

Define(x)        == [op |-> "variables", x |-> x]
Asignacion(x, e) == [op |-> "asigna", x |-> x, e |-> e]
Salto(x, a)      == [op |-> "jnz", e |-> Variable(x), a |-> a]
Llamada(x, args) == [op |-> "llama", x |-> x, args |-> args, a |-> 4]
OtraLlamada(args) == [op |-> "llama", x |-> "", args |-> args, a |-> 5]
Retorno(e)       == [op |-> "retorna", e |-> e]
Fin              == [op |-> "fin"]

\* The main part has sentences 0 to 3 and the function 4 to 6, or 5 and 6.
Principales ==
  {<<Define("a"), s, t, Fin>> :
     s \in {Llamada("", <<1>>), Llamada("a", <<>>), Define("b"), Asignacion("a", Numero(1))},
     t \in {Llamada("a", <<1>>), Asignacion("a", Variable("a")), Salto("a", 1)}}
  \cup {<<Define("a"), Llamada("a", <<1, 2>>), Fin, Fin>>,
        <<Llamada("", <<>>), Define("a"), Llamada("a", <<>>), Fin>>}

Funciones ==
  {<<Define("b"), Asignacion("b", Numero(2)), Retorno(Variable("b"))>>,
   <<Define("b"), Llamada("b", <<1>>), Retorno(Numero(1))>>,
   <<Define("b"), Salto("b", 4), Fin>>,
   <<OtraLlamada(<<>>), Define("b"), Fin>>,
   <<OtraLlamada(<<1>>), Define("b"), Retorno(Variable("b"))>>}

Bloque(inicio, tamano) == [inicio |-> inicio, tamano |-> tamano]

\* A function that uses an argument, that it was given or not, and a variable of
\* its own, or of the one that called it.
ConArgumentos ==
  {<<Define("a"), Asignacion("a", Numero(1)), Llamada("a", args), Fin>>
     \o <<Asignacion(x, e), Define("b"), Retorno(Variable(y))>> :
     args \in {<<>>, <<2>>}, x \in {"0", "a"}, e \in {Numero(3), Variable("0")}, y \in {"0", "b"}}

Ubicaciones ==
  {[tamano |-> 10, indice |-> <<Bloque(1, 1), Bloque(2, 1), Bloque(3, 1), Bloque(4, 1),
                                Bloque(5, 2), Bloque(7, 1), Bloque(8, 1)>>],
   [tamano |-> 12, indice |-> <<Bloque(1, 1), Bloque(2, 1), Bloque(3, 2), Bloque(5, 1),
                                Bloque(6, 1), Bloque(7, 1), Bloque(8, 2)>>]}

GuionesMC ==
  {[tamano |-> u.tamano, indice |-> u.indice, codigo |-> c] :
     u \in Ubicaciones,
     c \in {m \o f : m \in Principales, f \in Funciones} \cup ConArgumentos}
=============================================================================
